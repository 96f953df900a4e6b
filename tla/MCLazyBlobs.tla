---------------------------- MODULE MCLazyBlobs -----------------------------
EXTENDS LazyBlobs
MCBlobs == 1..2
MCAll == AllOps
=============================================================================
