---------------------------- MODULE ConnectProofs ---------------------------
(***************************************************************************)
(* That packets are read through the layers they were sent with (InStep),  *)
(* that encryption is what was asked for and with the key of both sides    *)
(* (Encrypted), and that every plugin gets one attempt in the handshake    *)
(* (ProvedOnce), for whatever the client asks for, whatever accounts there *)
(* are and however many offers the server makes, of whatever plugin.       *)
(*                                                                         *)
(* The invariant says, for each phase of the client, who is to speak: the  *)
(* client waits with its one packet under way, in layers the server reads  *)
(* (Waits), or an answer is there in layers the client reads (Heard). What *)
(* the two sides know of each other's key hangs on it: whose proof the     *)
(* server has confirmed (AtProof), when each of them began to encrypt      *)
(* (AtInstall, AtCrypted). So each step is one phase's, and the others     *)
(* hold of themselves (Elsewhere).                                         *)
(***************************************************************************)
EXTENDS Connect, SequenceTheorems, TLAPS

Pcs == {"tcp", "accept", "round", "legacy", "proof", "install", "crypted", "attach", "up", "failed"}
Keys == Srps \cup {No}
LayersKind == [z : BOOLEAN, key : Keys]
AuthKind == [plugin : Plugins, attempted : SUBSET Plugins, keyed : SUBSET Plugins, key : Keys, rounds : 0..5, dpb : {No, "token", "proof"},
             fallback : BOOLEAN, pending : BOOLEAN, sentLegacy : BOOLEAN, refused : Plugins \cup {No}]
SrvKind == [layers : LayersKind, agreed : Keys, known : BOOLEAN, attaching : BOOLEAN]

\* The kinds of the variables. Nothing is proved twice.
Types ==
    /\ cfg.plugin \in Plugins /\ cfg.compress \in BOOLEAN
    /\ pc \in Pcs /\ auth \in AuthKind /\ tx \in LayersKind /\ rx \in LayersKind /\ srv \in SrvKind
    /\ proofs \in [Plugins -> {0, 1}]

\* The client's packet is with the deflater or on its way, alone.
Sent == IF pending # <<>> THEN pending[1] ELSE up[1].m
Alone ==
    \/ pending = <<>> /\ up = <<>>
    \/ pending # <<>> /\ pending = <<pending[1]>> /\ up = <<>>
    \/ pending = <<>> /\ up # <<>> /\ up = <<up[1]>>

\* A proof is one of SRP.
Named == pending # <<>> \/ up # <<>> => (Sent.op = "contAuth" /\ Sent.what = "proof" => Sent.plugin \in Srps)

\* A login is given up over a plugin that had its attempt, or was sent the public key.
HadAChance(p, a, sent) == sent[p] = 1 \/ p \in a.keyed
Chances == auth.refused # No => pc = "failed" /\ HadAChance(auth.refused, auth, proofs)

\* The client has asked, and the server can read it.
Waits ==
    /\ down = <<>>
    /\ \/ tx.z /\ tx = srv.layers /\ pending # <<>> /\ pending = <<pending[1]>> /\ up = <<>>
       \/ pending = <<>> /\ up # <<>> /\ up = <<up[1]>> /\ Legible(up[1], srv.layers)

\* The server has answered, in layers that the client reads.
Heard(op, layers) ==
    /\ pending = <<>> /\ up = <<>>
    /\ down # <<>> /\ down = <<down[1]>> /\ Legible(down[1], layers) /\ down[1].m.op = op
HeardOffer ==
    /\ Heard("contAuth", rx) /\ down[1].m.plugin \in Plugins /\ down[1].m.what.salt \in BOOLEAN
    /\ down[1].m.what.salt => down[1].m.plugin \in Srps
HeardProof ==
    /\ pending = <<>> /\ up = <<>>
    /\ Len(down) = 2 /\ down = <<down[1], down[2]>> /\ Legible(down[1], rx) /\ Legible(down[2], rx)
    /\ down[1].m.op = "contAuth" /\ down[1].m.plugin = No /\ ~down[1].m.what.salt /\ down[2].m.op = "response"

Stranger == srv.agreed = No /\ ~srv.known
Silent == pending = <<>> /\ up = <<>> /\ down = <<>>
Untried == /\ auth.key = No /\ auth.attempted = {} /\ auth.dpb = No /\ ~auth.fallback /\ ~auth.sentLegacy
           /\ \A p \in Plugins : proofs[p] = 0

AtTcp == pc = "tcp" => tx = Plain /\ rx = Plain /\ srv.layers = Plain /\ Untried /\ auth.rounds = 0 /\ Stranger /\ ~srv.attaching /\ Silent

AtAccept == pc = "accept" =>
    /\ tx = Plain /\ rx = Plain /\ Untried /\ auth.rounds = 0 /\ ~srv.attaching /\ srv.agreed = No
    /\ \/ Waits /\ Sent.op = "connect" /\ srv.layers = Plain /\ ~srv.known
       \/ Heard("error", Plain)
       \/ /\ Heard("accept", Plain)
          /\ srv.layers = [z |-> down[1].m.what.z, key |-> No] /\ srv.known = down[1].m.what.trusted
          /\ down[1].m.plugin \in Plugins /\ (down[1].m.what.salt => down[1].m.plugin \in Srps)

\* While the client authenticates nothing is encrypted.
Clear == tx = rx /\ tx = srv.layers /\ tx.key = No /\ ~srv.attaching /\ auth.dpb = No /\ ~auth.sentLegacy

AtRound == pc = "round" =>
    /\ Clear /\ Untried /\ auth.rounds \in 1..4 /\ Stranger
    /\ \/ Waits /\ Sent.op = "contAuth" /\ Sent.what = "public"
       \/ HeardOffer \/ Heard("error", rx)

AtLegacy == pc = "legacy" =>
    /\ Clear /\ auth.key = No /\ proofs[Legacy] = 1 /\ srv.agreed = No
    /\ \/ Waits /\ ~srv.known /\ Sent.op = "contAuth" /\ Sent.what = "token"
       \/ HeardOffer \/ Heard("error", rx)
       \/ Heard("response", rx) /\ srv.known

\* Each plugin that was tried has sent its proof or at least the public key, no other has
\* sent a proof, and the key is that of the last proof.
Tried ==
    /\ \A p \in Plugins : p \notin auth.attempted => proofs[p] = 0
    /\ \A p \in auth.attempted : HadAChance(p, auth, proofs)
    /\ auth.plugin \in auth.attempted
    /\ IF auth.fallback THEN auth.plugin = Legacy /\ auth.key = No ELSE auth.plugin \in Srps /\ auth.key \in Srps

\* The plugin at work is not offered again without salt and key.
OfSelf(m) == m.plugin \in Srps /\ m.plugin = auth.plugin => m.what.salt

\* What is under way proves with the key held, or asks for what a proof takes.
Proving(m) ==
    IF auth.fallback THEN m.what = "token" ELSE m.what = "public" \/ (m.what = "proof" /\ m.plugin = auth.key)

AtProof == pc = "proof" =>
    /\ Clear /\ Tried
    /\ \/ /\ Waits /\ Stranger /\ Sent.op = "contAuth"
          /\ Proving(Sent)
       \/ HeardOffer /\ Stranger /\ OfSelf(down[1].m)
       \/ Heard("error", rx)
       \/ (Heard("response", rx) \/ (HeardProof /\ ~auth.fallback)) /\ srv.known /\ srv.agreed = auth.key

\* The key is the server's too, unless the proof rides in the attach.
KeyKnown ==
    /\ rx.key = auth.key /\ rx.key # No /\ tx.z = rx.z /\ srv.layers.z = rx.z /\ ~srv.attaching
    /\ srv.agreed = (IF auth.dpb = No THEN rx.key ELSE No) /\ (srv.agreed # No => srv.known)
CryptAsked == Waits /\ Sent.op = "crypt" /\ srv.layers.key = No
CryptHeard == Heard("response", rx) /\ srv.layers = rx /\ srv.agreed = rx.key

AtInstall == pc = "install" => KeyKnown /\ tx.z /\ tx.key = No /\ (CryptAsked \/ CryptHeard)
AtCrypted == pc = "crypted" => KeyKnown /\ tx = rx /\ ((CryptAsked /\ pending = <<>>) \/ CryptHeard)

\* Encrypted if it is required, with the key of both.
Protected ==
    /\ tx = rx /\ tx = srv.layers
    /\ rx.key # No => srv.agreed = rx.key /\ srv.known
    /\ cfg.crypt = "required" => tx.key # No

AtAttach == pc = "attach" =>
    /\ Protected
    /\ \/ Waits /\ Sent.op = "attach"
       \/ Waits /\ ~srv.known /\ srv.attaching /\ Sent.op = "contAuth"
       \/ HeardOffer /\ ~srv.known /\ srv.attaching
       \/ Heard("response", rx) \/ Heard("error", rx)

AtUp == pc = "up" => Protected /\ Silent

Phases == AtTcp /\ AtAccept /\ AtRound /\ AtLegacy /\ AtProof /\ AtInstall /\ AtCrypted /\ AtAttach /\ AtUp
IInv == Types /\ Alone /\ Named /\ Chances /\ Phases

-----------------------------------------------------------------------------
\* What the short sequences of packets are.
LEMMA One == \A x : Head(<<x>>) = x /\ Tail(<<x>>) = <<>> /\ Append(<<>>, x) = <<x>> /\ <<x>>[1] = x /\ <<x>> # <<>>
OBVIOUS

\* The server's own proof and its response come together.
LEMMA Two == \A x, y : /\ Head(<<x, y>>) = x /\ Tail(<<x, y>>) = <<y>> /\ Len(<<x, y>>) = 2
                       /\ <<x, y>>[1] = x /\ <<x, y>>[2] = y /\ <<x, y>> # <<>>
OBVIOUS

\* What Answers() makes of one packet,
LEMMA AnswersOne == \A x, l : [k \in DOMAIN <<x>> |-> Layered(<<x>>[k], l)] = <<Layered(x, l)>>
OBVIOUS

\* and of two.
LEMMA AnswersTwo == \A x, y, l : [k \in DOMAIN <<x, y>> |-> Layered(<<x, y>>[k], l)] = <<Layered(x, l), Layered(y, l)>>
OBVIOUS

\* A phase says nothing of the others.
LEMMA Elsewhere ==
    /\ pc # "tcp" => AtTcp
    /\ pc # "accept" => AtAccept
    /\ pc # "round" => AtRound
    /\ pc # "legacy" => AtLegacy
    /\ pc # "proof" => AtProof
    /\ pc # "install" => AtInstall
    /\ pc # "crypted" => AtCrypted
    /\ pc # "attach" => AtAttach
    /\ pc # "up" => AtUp
<1>1. (pc # "tcp" => AtTcp) /\ (pc # "accept" => AtAccept) /\ (pc # "round" => AtRound)
  BY DEF AtTcp, AtAccept, AtRound
<1>2. (pc # "legacy" => AtLegacy) /\ (pc # "proof" => AtProof) /\ (pc # "install" => AtInstall)
  BY DEF AtLegacy, AtProof, AtInstall
<1>3. (pc # "crypted" => AtCrypted) /\ (pc # "attach" => AtAttach) /\ (pc # "up" => AtUp)
  BY DEF AtCrypted, AtAttach, AtUp
<1> QED
  BY <1>1, <1>2, <1>3

\* The same of the next state.
LEMMA ElsewhereNext ==
    /\ pc' # "tcp" => AtTcp'
    /\ pc' # "accept" => AtAccept'
    /\ pc' # "round" => AtRound'
    /\ pc' # "legacy" => AtLegacy'
    /\ pc' # "proof" => AtProof'
    /\ pc' # "install" => AtInstall'
    /\ pc' # "crypted" => AtCrypted'
    /\ pc' # "attach" => AtAttach'
    /\ pc' # "up" => AtUp'
<1>1. (pc' # "tcp" => AtTcp') /\ (pc' # "accept" => AtAccept') /\ (pc' # "round" => AtRound')
  BY DEF AtTcp, AtAccept, AtRound
<1>2. (pc' # "legacy" => AtLegacy') /\ (pc' # "proof" => AtProof') /\ (pc' # "install" => AtInstall')
  BY DEF AtLegacy, AtProof, AtInstall
<1>3. (pc' # "crypted" => AtCrypted') /\ (pc' # "attach" => AtAttach') /\ (pc' # "up" => AtUp')
  BY DEF AtCrypted, AtAttach, AtUp
<1> QED
  BY <1>1, <1>2, <1>3

\* The names are different ones.
LEMMA Distinct == No \notin Plugins /\ Legacy \notin Srps /\ Srps \subseteq Plugins /\ Legacy \in Plugins /\ No \notin Srps
BY DEF No, Plugins, Srps, Legacy

\* A client that has not connected.
LEMMA Init_IInv == Init => IInv
<1> SUFFICES ASSUME Init PROVE IInv
  OBVIOUS
<1>0. /\ cfg.plugin \in Plugins /\ cfg.compress \in BOOLEAN /\ pc = "tcp"
      /\ auth = [plugin |-> cfg.plugin, attempted |-> {}, keyed |-> {}, key |-> No, rounds |-> 0, dpb |-> No,
               fallback |-> FALSE, pending |-> FALSE, sentLegacy |-> FALSE, refused |-> No]
      /\ tx = Plain /\ rx = Plain /\ pending = <<>> /\ up = <<>> /\ down = <<>>
      /\ srv = [layers |-> Plain, agreed |-> No, known |-> FALSE, attaching |-> FALSE]
      /\ proofs = [p \in Plugins |-> 0]
  BY ConnectAssumption DEF Init
<1>1. Plain \in LayersKind
  BY DEF Plain, LayersKind, Keys
<1>2. auth \in AuthKind
  BY <1>0 DEF AuthKind, Keys
<1>3. srv \in SrvKind
  BY <1>0, <1>1 DEF SrvKind, Keys
<1>4. Types
  BY <1>0, <1>1, <1>2, <1>3 DEF Types, Pcs
<1>5. Alone /\ Named /\ Chances
  BY <1>0 DEF Alone, Named, Chances
<1>6. AtTcp
  BY <1>0 DEF AtTcp, Untried, Stranger, Silent
<1> QED
  BY <1>0, <1>4, <1>5, <1>6, Elsewhere DEF IInv, Phases

-----------------------------------------------------------------------------
(* What the client sends. *)

\* A packet that is sent alone is what the server waits for.
LEMMA SendsOne ==
    ASSUME pending = <<>>, up = <<>>, NEW m, NEW t \in LayersKind, Sends(m, t)
    PROVE  /\ Alone' /\ Sent' = m
           /\ (pending' # <<>> \/ up' # <<>>) /\ (~t.z => pending' = <<>>)
           /\ down' = <<>> /\ srv'.layers = t /\ (t.z => tx' = t) => Waits'
<1>1. CASE t.z
  <2>1. pending' = <<m>> /\ up' = <<>>
    BY <1>1, One DEF Sends
  <2>2. pending' # <<>> /\ pending' = <<pending'[1]>> /\ pending'[1] = m
    BY <2>1, One
  <2>3. Alone' /\ Sent' = m
    BY <2>1, <2>2 DEF Alone, Sent
  <2>4. down' = <<>> /\ srv'.layers = t /\ tx' = t => Waits'
    BY <1>1, <2>1, <2>2 DEF Waits
  <2> QED
    BY <1>1, <2>2, <2>3, <2>4
<1>2. CASE ~t.z
  <2>1. up' = <<Layered(m, t)>> /\ pending' = <<>>
    BY <1>2, One DEF Sends
  <2>2. up' # <<>> /\ up' = <<up'[1]>> /\ up'[1] = Layered(m, t)
    BY <2>1, One
  <2>3. Alone' /\ Sent' = m
    BY <2>1, <2>2 DEF Alone, Sent, Layered
  <2>4. down' = <<>> /\ srv'.layers = t => Waits'
    BY <2>1, <2>2 DEF Waits, Legible, Layered
  <2> QED
    BY <1>2, <2>1, <2>2, <2>3, <2>4
<1> QED
  BY <1>1, <1>2

\* A round of authentication is asked for.
LEMMA ContAuthAsks ==
    ASSUME Types, NEW a \in AuthKind, NEW what, NEW next \in Pcs, NEW t \in LayersKind, ContAuth(a, what, next, t),
           pending = <<>>, up = <<>>, down' = <<>>, srv' = srv, cfg' = cfg, srv.layers = t,
           what = "proof" => a.plugin \in Srps, a.refused = No, proofs' \in [Plugins -> {0, 1}]
    PROVE  /\ Types' /\ Alone' /\ Named' /\ Chances' /\ Waits'
           /\ Sent'.op = "contAuth" /\ Sent'.what = what /\ Sent'.plugin = a.plugin
           /\ tx' = t /\ rx' = t /\ auth' = a /\ pc' = next
<1>1. tx' = t /\ rx' = t /\ auth' = a /\ pc' = next /\ Sends(Msg("contAuth", a.plugin, what), t)
  BY DEF ContAuth
<1>2. Alone' /\ Sent' = Msg("contAuth", a.plugin, what) /\ Waits'
  BY <1>1, SendsOne
<1>3. Types'
  BY <1>1 DEF Types
<1>4. Named' /\ Chances'
  BY <1>1, <1>2 DEF Named, Chances, Msg
<1> QED
  BY <1>1, <1>2, <1>3, <1>4 DEF Msg

\* Authentication is over: encryption is asked for, or the attach, or it is refused.
LEMMA AuthenticatedAsks ==
    ASSUME Types, NEW a \in AuthKind, NEW iv, NEW t \in LayersKind, Authenticated(a, iv, t),
           t.key = No, srv.layers = t, ~srv.attaching, pending = <<>>, up = <<>>, down' = <<>>, srv' = srv, cfg' = cfg,
           proofs' \in [Plugins -> {0, 1}], a.refused = No,
           a.key # No => srv.agreed = (IF a.dpb = No THEN a.key ELSE No),
           srv.agreed # No => srv.known
    PROVE  IInv'
<1> DEFINE crypts == cfg.crypt # "disabled" /\ a.key # No /\ Cipher # No
           keyed == [t EXCEPT !.key = a.key]
<1>0. auth' = a
  BY DEF Authenticated
<1>1. /\ keyed \in LayersKind /\ keyed.z = t.z /\ keyed.key = a.key /\ t.z \in BOOLEAN
      /\ keyed = t \/ keyed # t
  BY DEF LayersKind, AuthKind, Keys
<1>2. CASE crypts
  <2>1. /\ pc' = (IF Cipher = "ChaCha" /\ ~iv THEN "failed" ELSE IF t.z THEN "install" ELSE "crypted")
        /\ rx' = keyed /\ tx' = (IF t.z THEN t ELSE keyed)
        /\ Sends(Msg("crypt", a.plugin, Cipher), t)
    BY <1>2 DEF Authenticated
  <2>2. Alone' /\ Sent' = Msg("crypt", a.plugin, Cipher) /\ Waits' /\ (~t.z => pending' = <<>>)
    BY <2>1, SendsOne
  <2>3. Sent'.op = "crypt"
    BY <2>2 DEF Msg
  <2>4. Named' /\ Chances'
    BY <1>0, <2>3 DEF Named, Chances
  <2>5. Types'
    BY <1>0, <1>1, <2>1 DEF Types, Pcs
  <2>6. CryptAsked'
    BY <2>2, <2>3 DEF CryptAsked
  <2> HIDE DEF keyed
  <2>7. pc' # "failed" => KeyKnown'
    BY <1>0, <1>1, <1>2, <2>1 DEF KeyKnown
  <2>8. CASE pc' = "failed"
    BY <2>2, <2>4, <2>5, <2>8, ElsewhereNext DEF IInv, Phases
  <2>9. CASE pc' = "install"
    <3>1. t.z /\ tx' = t
      BY <2>1, <2>9
    <3>2. AtInstall'
      BY <2>6, <2>7, <2>9, <3>1 DEF AtInstall
    <3> QED
      BY <2>2, <2>4, <2>5, <2>9, <3>2, ElsewhereNext DEF IInv, Phases
  <2>10. CASE pc' = "crypted"
    <3>1. ~t.z /\ tx' = rx'
      BY <2>1, <2>10
    <3>2. AtCrypted'
      BY <2>2, <2>6, <2>7, <2>10, <3>1 DEF AtCrypted
    <3> QED
      BY <2>2, <2>4, <2>5, <2>10, <3>2, ElsewhereNext DEF IInv, Phases
  <2> QED
    BY <2>1, <2>8, <2>9, <2>10
<1>3. CASE ~crypts /\ RequirementMet(a)
  <2>1. tx' = t /\ rx' = t /\ pc' = "attach" /\ Sends(AttachPacket(a), t)
    BY <1>3 DEF Authenticated
  <2>2. Alone' /\ Sent' = AttachPacket(a) /\ Waits'
    BY <2>1, SendsOne
  <2>3. Sent'.op = "attach"
    BY <2>2 DEF AttachPacket, Msg
  <2>4. Named' /\ Chances'
    BY <1>0, <2>3 DEF Named, Chances
  <2>5. Types'
    BY <1>0, <2>1 DEF Types, Pcs
  <2>6. AtAttach'
    BY <1>0, <1>3, <2>1, <2>2, <2>3 DEF AtAttach, Protected, RequirementMet
  <2> QED
    BY <2>1, <2>2, <2>4, <2>5, <2>6, ElsewhereNext DEF IInv, Phases
<1>4. CASE ~crypts /\ ~RequirementMet(a)
  <2>1. tx' = t /\ rx' = t /\ pc' = "failed" /\ pending' = <<>> /\ up' = <<>>
    BY <1>4 DEF Authenticated
  <2>2. Alone' /\ Named' /\ Chances'
    BY <1>0, <2>1 DEF Alone, Named, Chances
  <2>3. Types'
    BY <1>0, <2>1 DEF Types, Pcs
  <2> QED
    BY <2>1, <2>2, <2>3, ElsewhereNext DEF IInv, Phases
<1> QED
  BY <1>2, <1>3, <1>4

\* The client gives up.
LEMMA Stops ==
    ASSUME IInv, pc' = "failed", auth' \in AuthKind, cfg' = cfg, tx' = tx, rx' = rx, srv' = srv, proofs' = proofs,
           pending' = pending, up' = up, auth'.refused # No => HadAChance(auth'.refused, auth', proofs)
    PROVE  IInv'
<1>1. Types'
  BY DEF IInv, Types, Pcs
<1>2. Alone' /\ Named' /\ Chances'
  BY DEF IInv, Alone, Named, Sent, Chances
<1> QED
  BY <1>1, <1>2, ElsewhereNext DEF IInv, Phases

\* It fails for whatever reason: a timeout, the socket, an error read.
LEMMA FailStep ==
    ASSUME IInv, Fail, pc # "failed"
    PROVE  IInv'
BY Stops DEF Fail, IInv, Types, Chances

\* The answer is read: the client has nothing under way, and nothing more to read.
LEMMA AnswerRead ==
    ASSUME NEW op, NEW l, Heard(op, l)
    PROVE  pending = <<>> /\ up = <<>> /\ Head(down) = down[1] /\ Ans = down[1].m /\ Ans.op = op /\ Tail(down) = <<>>
BY One DEF Heard, Ans

-----------------------------------------------------------------------------
(* The steps of the client. *)

\* connect() sends its first packet.
LEMMA TcpConnectsStep ==
    ASSUME IInv, TcpConnects
    PROVE  IInv'
<1>0. /\ Types /\ Chances /\ tx = Plain /\ rx = Plain /\ srv.layers = Plain /\ Untried /\ auth.rounds = 0 /\ Stranger
      /\ ~srv.attaching /\ Silent /\ pc = "tcp" /\ pc' = "accept" /\ Sends(ConnectPacket, tx)
      /\ cfg' = cfg /\ auth' = auth /\ tx' = tx /\ rx' = rx /\ down' = down /\ srv' = srv /\ proofs' = proofs
  BY DEF IInv, Phases, AtTcp, TcpConnects
<1>1. Alone' /\ Sent' = ConnectPacket /\ Waits'
  BY <1>0, SendsOne DEF Silent, Types
<1>2. Sent'.op = "connect"
  BY <1>1 DEF ConnectPacket, Msg
<1>3. Types' /\ Named' /\ Chances'
  <2>1. Types'
    BY <1>0 DEF Types, Pcs
  <2>2. Named' /\ Chances'
    BY <1>0, <1>2 DEF Named, Chances
  <2> QED
    BY <2>1, <2>2
<1>4. AtAccept'
  BY <1>0, <1>1, <1>2 DEF AtAccept, Untried, Stranger
<1> QED
  BY <1>0, <1>1, <1>3, <1>4, ElsewhereNext DEF IInv, Phases

\* readAccept(): a token or a proof at once, rounds, or nothing more to prove.
LEMMA AcceptedStep ==
    ASSUME IInv, Accepted
    PROVE  IInv'
<1> DEFINE what == Ans.what
           a == [auth EXCEPT !.plugin = Ans.plugin]
           t == [tx EXCEPT !.z = what.z]
           l == [a EXCEPT !.plugin = Legacy, !.fallback = TRUE, !.pending = TRUE]
           s == [a EXCEPT !.key = a.plugin, !.attempted = {a.plugin}, !.pending = TRUE]
<1>0. /\ Types /\ tx = Plain /\ rx = Plain /\ Untried /\ auth.rounds = 0 /\ ~srv.attaching /\ srv.agreed = No
      /\ auth.refused = No
  BY DEF IInv, Phases, AtAccept, Accepted, Chances
<1>1. /\ Heard("accept", Plain) /\ srv.layers = [z |-> down[1].m.what.z, key |-> No] /\ srv.known = down[1].m.what.trusted
      /\ down[1].m.plugin \in Plugins /\ (down[1].m.what.salt => down[1].m.plugin \in Srps)
  <2>1. \/ Waits
        \/ Heard("error", Plain)
        \/ <1>1!1 /\ <1>1!2
    BY DEF IInv, Phases, AtAccept, Accepted
  <2>2. ~Waits /\ ~Heard("error", Plain)
    BY One DEF Accepted, Got, Waits, Heard
  <2> QED
    BY <2>1, <2>2
<1>2. /\ pending = <<>> /\ up = <<>> /\ down' = <<>> /\ cfg' = cfg /\ srv' = srv /\ Ans.plugin \in Plugins
      /\ (what.salt => Ans.plugin \in Srps) /\ srv.known = what.trusted
      /\ srv.layers = [z |-> what.z, key |-> No]
  BY <1>1, AnswerRead DEF Accepted
<1>3. t \in LayersKind /\ t.key = No /\ srv.layers = t
  <2>1. srv.layers \in LayersKind
    BY <1>0 DEF Types, SrvKind
  <2>2. t = [z |-> what.z, key |-> No]
    BY <1>0 DEF Plain
  <2> QED
    BY <1>2, <2>1, <2>2
<1>4. /\ a \in AuthKind /\ a.key = No /\ a.dpb = No /\ a.refused = No /\ ~a.fallback /\ ~a.sentLegacy /\ a.plugin = Ans.plugin
      /\ a.rounds = 0 /\ a.attempted = {}
  BY <1>0, <1>2 DEF Types, AuthKind, Untried
<1>5. a = [auth EXCEPT !.plugin = IF Ans.plugin # No THEN Ans.plugin ELSE @]
  BY <1>2, Distinct
<1>6. ASSUME NEW p \in Plugins, Proved(p)
      PROVE  /\ proofs' \in [Plugins -> {0, 1}] /\ proofs'[p] = 1
             /\ \A q \in Plugins : q # p => proofs'[q] = 0
  BY <1>0, <1>6 DEF Proved, Count, Types, Untried
<1>7. proofs' = proofs => proofs' \in [Plugins -> {0, 1}] /\ \A q \in Plugins : proofs'[q] = 0
  BY <1>0 DEF Types, Untried
<1>8. /\ l \in AuthKind /\ l.key = No /\ l.dpb = No /\ l.refused = No /\ l.fallback /\ ~l.sentLegacy /\ l.plugin = Legacy
      /\ [l EXCEPT !.dpb = "token"] \in AuthKind
      /\ [l EXCEPT !.dpb = "token"].key = No /\ [l EXCEPT !.dpb = "token"].refused = No
  <2> HIDE DEF a
  <2>1. l \in AuthKind
    BY <1>4, Distinct DEF AuthKind
  <2>2. l.key = No /\ l.dpb = No /\ l.refused = No /\ l.fallback /\ ~l.sentLegacy /\ l.plugin = Legacy
    BY <1>4 DEF AuthKind
  <2> HIDE DEF l
  <2>3. /\ [l EXCEPT !.dpb = "token"] \in AuthKind
        /\ [l EXCEPT !.dpb = "token"].key = No /\ [l EXCEPT !.dpb = "token"].refused = No
    BY <2>1, <2>2 DEF AuthKind
  <2> QED
    BY <2>1, <2>2, <2>3
<1>9. ASSUME what.salt
      PROVE  /\ s \in AuthKind /\ s.key = Ans.plugin /\ s.attempted = {Ans.plugin} /\ s.refused = No /\ ~s.fallback /\ ~s.sentLegacy
             /\ s.plugin = Ans.plugin /\ s.dpb = No /\ Ans.plugin \in Srps
             /\ [s EXCEPT !.dpb = "proof"] \in AuthKind /\ [s EXCEPT !.dpb = "proof"].key = Ans.plugin
             /\ [s EXCEPT !.dpb = "proof"].dpb = "proof" /\ [s EXCEPT !.dpb = "proof"].refused = No
             /\ ~[s EXCEPT !.dpb = "proof"].fallback
  <2>0. Ans.plugin \in Srps
    BY <1>2, <1>9
  <2> HIDE DEF a
  <2>1. s \in AuthKind
    BY <1>2, <1>4, <2>0 DEF AuthKind, Keys
  <2>2. /\ s.key = Ans.plugin /\ s.attempted = {Ans.plugin} /\ s.refused = No /\ ~s.fallback /\ ~s.sentLegacy
        /\ s.plugin = Ans.plugin /\ s.dpb = No
    BY <1>4 DEF AuthKind
  <2> HIDE DEF s
  <2>3. /\ [s EXCEPT !.dpb = "proof"] \in AuthKind /\ [s EXCEPT !.dpb = "proof"].key = Ans.plugin
        /\ [s EXCEPT !.dpb = "proof"].dpb = "proof" /\ [s EXCEPT !.dpb = "proof"].refused = No
        /\ ~[s EXCEPT !.dpb = "proof"].fallback
    BY <2>1, <2>2 DEF AuthKind
  <2> QED
    BY <2>0, <2>1, <2>2, <2>3
<1>10. /\ [a EXCEPT !.rounds = 1] \in AuthKind /\ [a EXCEPT !.rounds = 1].rounds = 1 /\ [a EXCEPT !.rounds = 1].refused = No
       /\ [a EXCEPT !.rounds = 1].key = No /\ [a EXCEPT !.rounds = 1].dpb = No /\ [a EXCEPT !.rounds = 1].attempted = {}
       /\ ~[a EXCEPT !.rounds = 1].fallback /\ ~[a EXCEPT !.rounds = 1].sentLegacy
       /\ [a EXCEPT !.pending = TRUE] \in AuthKind /\ [a EXCEPT !.pending = TRUE].refused = No
       /\ [a EXCEPT !.pending = TRUE].key = No /\ ~[a EXCEPT !.pending = TRUE].fallback
  <2> HIDE DEF a
  <2>1. [a EXCEPT !.rounds = 1] \in AuthKind
    BY <1>4 DEF AuthKind
  <2>2. /\ [a EXCEPT !.rounds = 1].rounds = 1 /\ [a EXCEPT !.rounds = 1].refused = No
        /\ [a EXCEPT !.rounds = 1].key = No /\ [a EXCEPT !.rounds = 1].dpb = No /\ [a EXCEPT !.rounds = 1].attempted = {}
        /\ ~[a EXCEPT !.rounds = 1].fallback /\ ~[a EXCEPT !.rounds = 1].sentLegacy
    BY <1>4 DEF AuthKind
  <2>3. [a EXCEPT !.pending = TRUE] \in AuthKind
    BY <1>4 DEF AuthKind
  <2>4. /\ [a EXCEPT !.pending = TRUE].refused = No
        /\ [a EXCEPT !.pending = TRUE].key = No /\ ~[a EXCEPT !.pending = TRUE].fallback
    BY <1>4 DEF AuthKind
  <2> QED
    BY <2>1, <2>2, <2>3, <2>4
<1>11. \/ what.trusted /\ Authenticated(a, FALSE, t) /\ proofs' = proofs
       \/ ~what.trusted /\ ContAuth(l, "token", "legacy", t) /\ Proved(Legacy)
       \/ ~what.trusted /\ Authenticated([l EXCEPT !.dpb = "token"], FALSE, t) /\ proofs' = proofs
       \/ ~what.trusted /\ what.salt /\ ContAuth(s, "proof", "proof", t) /\ Proved(a.plugin)
       \/ ~what.trusted /\ what.salt /\ Authenticated([s EXCEPT !.dpb = "proof"], FALSE, t) /\ Proved(a.plugin)
       \/ ~what.trusted /\ ContAuth([a EXCEPT !.rounds = 1], "public", "round", t) /\ proofs' = proofs
       \/ ~what.trusted /\ Authenticated([a EXCEPT !.pending = TRUE], FALSE, t) /\ proofs' = proofs
  BY <1>5 DEF Accepted
<1> HIDE DEF a, t, l, s, what
<1>12. CASE what.trusted /\ Authenticated(a, FALSE, t) /\ proofs' = proofs
  BY <1>0, <1>2, <1>3, <1>4, <1>7, <1>12, AuthenticatedAsks
<1>13. CASE ~what.trusted /\ ContAuth(l, "token", "legacy", t) /\ Proved(Legacy)
  <2>1. /\ Types' /\ Alone' /\ Named' /\ Chances' /\ Waits' /\ Sent'.op = "contAuth" /\ Sent'.what = "token"
        /\ tx' = t /\ rx' = t /\ auth' = l /\ pc' = "legacy" /\ proofs'[Legacy] = 1
    <3>1. "legacy" \in Pcs /\ "token" # "proof" /\ Legacy \in Plugins
      BY Distinct DEF Pcs
    <3>2. proofs' \in [Plugins -> {0, 1}] /\ proofs'[Legacy] = 1
      BY <1>6, <1>13, <3>1
    <3> QED
      BY <1>0, <1>2, <1>3, <1>8, <1>13, <3>1, <3>2, ContAuthAsks
  <2>2. AtLegacy'
    BY <1>0, <1>2, <1>3, <1>8, <1>13, <2>1 DEF AtLegacy, Clear
  <2> QED
    BY <2>1, <2>2, ElsewhereNext DEF IInv, Phases
<1>14. CASE ~what.trusted /\ Authenticated([l EXCEPT !.dpb = "token"], FALSE, t) /\ proofs' = proofs
  BY <1>0, <1>2, <1>3, <1>7, <1>8, <1>14, AuthenticatedAsks, Distinct
<1>15. CASE ~what.trusted /\ what.salt /\ ContAuth(s, "proof", "proof", t) /\ Proved(a.plugin)
  <2>1. /\ Types' /\ Alone' /\ Named' /\ Chances' /\ Waits' /\ Sent'.op = "contAuth" /\ Sent'.what = "proof"
        /\ Sent'.plugin = s.plugin /\ tx' = t /\ rx' = t /\ auth' = s /\ pc' = "proof"
    <3>1. "proof" \in Pcs /\ s.plugin \in Srps
      BY <1>9, <1>15 DEF Pcs
    <3>2. proofs' \in [Plugins -> {0, 1}]
      BY <1>2, <1>4, <1>6, <1>15
    <3> QED
      BY <1>0, <1>2, <1>3, <1>9, <1>15, <3>1, <3>2, ContAuthAsks
  <2>2. Tried'
    BY <1>2, <1>4, <1>6, <1>9, <1>15, <2>1 DEF Tried, HadAChance, Srps
  <2>3. AtProof'
    BY <1>0, <1>2, <1>3, <1>9, <1>15, <2>1, <2>2 DEF AtProof, Clear, Stranger, Proving, Tried
  <2> QED
    BY <2>1, <2>3, ElsewhereNext DEF IInv, Phases
<1>16. CASE ~what.trusted /\ what.salt /\ Authenticated([s EXCEPT !.dpb = "proof"], FALSE, t) /\ Proved(a.plugin)
  <2>1. proofs' \in [Plugins -> {0, 1}]
    BY <1>2, <1>4, <1>6, <1>16
  <2>2. Ans.plugin # No
    BY <1>2, Distinct
  <2> QED
    BY <1>0, <1>2, <1>3, <1>9, <1>16, <2>1, <2>2, AuthenticatedAsks, Distinct DEF No
<1>17. CASE ~what.trusted /\ ContAuth([a EXCEPT !.rounds = 1], "public", "round", t) /\ proofs' = proofs
  <2>1. /\ Types' /\ Alone' /\ Named' /\ Chances' /\ Waits' /\ Sent'.op = "contAuth" /\ Sent'.what = "public"
        /\ tx' = t /\ rx' = t /\ auth' = [a EXCEPT !.rounds = 1] /\ pc' = "round"
    BY <1>0, <1>2, <1>3, <1>7, <1>10, <1>17, ContAuthAsks DEF Pcs
  <2>2. Untried' /\ auth'.rounds \in 1..4
    BY <1>7, <1>10, <1>17, <2>1 DEF Untried
  <2>3. AtRound'
    BY <1>0, <1>2, <1>3, <1>10, <1>17, <2>1, <2>2 DEF AtRound, Clear, Stranger
  <2> QED
    BY <2>1, <2>3, ElsewhereNext DEF IInv, Phases
<1>18. CASE ~what.trusted /\ Authenticated([a EXCEPT !.pending = TRUE], FALSE, t) /\ proofs' = proofs
  BY <1>0, <1>2, <1>3, <1>7, <1>10, <1>18, AuthenticatedAsks
<1> QED
  BY <1>11, <1>12, <1>13, <1>14, <1>15, <1>16, <1>17, <1>18

\* An offer is read.
LEMMA OfferRead ==
    ASSUME HeardOffer
    PROVE  /\ pending = <<>> /\ up = <<>> /\ Ans = down[1].m /\ Ans.op = "contAuth" /\ Tail(down) = <<>>
           /\ Ans.plugin \in Plugins /\ Ans.what.salt \in BOOLEAN /\ (Ans.what.salt => Ans.plugin \in Srps)
<1>1. Heard("contAuth", rx) /\ down[1].m.plugin \in Plugins /\ down[1].m.what.salt \in BOOLEAN
      /\ (down[1].m.what.salt => down[1].m.plugin \in Srps)
  BY DEF HeardOffer
<1> QED
  BY <1>1, AnswerRead

\* One more plugin has had its attempt.
LEMMA ProvedNow ==
    ASSUME Types, NEW p \in Plugins, proofs[p] = 0, Proved(p)
    PROVE  /\ proofs' \in [Plugins -> {0, 1}] /\ proofs'[p] = 1
           /\ \A q \in Plugins : q # p => proofs'[q] = proofs[q]
BY DEF Types, Proved, Count

\* Rounds, until there is a proof or a token to send.
LEMMA RoundStep ==
    ASSUME IInv, Round
    PROVE  IInv'
<1> DEFINE a == [auth EXCEPT !.plugin = Ans.plugin, !.rounds = IF @ < 5 THEN @ + 1 ELSE @]
           l == [a EXCEPT !.fallback = TRUE, !.pending = TRUE]
           s == [a EXCEPT !.key = a.plugin, !.attempted = {a.plugin}, !.pending = TRUE]
<1>0. /\ Types /\ Clear /\ Untried /\ auth.rounds \in 1..4 /\ Stranger /\ auth.refused = No /\ pc = "round"
  BY DEF IInv, Phases, AtRound, Round, Chances
<1>1. HeardOffer
  BY One DEF IInv, Phases, AtRound, Round, Got, Waits, Heard
<1>2. /\ pending = <<>> /\ up = <<>> /\ down' = <<>> /\ cfg' = cfg /\ srv' = srv /\ Ans.plugin \in Plugins
      /\ (Ans.what.salt => Ans.plugin \in Srps)
  BY <1>1, OfferRead DEF Round
<1>3. tx \in LayersKind /\ srv.layers = tx /\ auth \in AuthKind
  BY <1>0 DEF Types, Clear
<1>4. /\ a.plugin = Ans.plugin /\ a.key = No /\ a.dpb = No /\ a.refused = No /\ ~a.fallback /\ ~a.sentLegacy
      /\ a.attempted = {} /\ a.rounds = auth.rounds + 1 /\ a.rounds \in 0..5
  BY <1>0, <1>3 DEF AuthKind, Untried
<1>4a. a \in AuthKind
  <2>0. auth.rounds < 5
    BY <1>0
  <2>1. a = [[auth EXCEPT !.plugin = Ans.plugin] EXCEPT !.rounds = auth.rounds + 1]
    BY <1>3, <2>0 DEF AuthKind
  <2>2. [auth EXCEPT !.plugin = Ans.plugin] \in AuthKind /\ auth.rounds + 1 \in 0..5
    BY <1>0, <1>2, <1>3 DEF AuthKind
  <2> HIDE DEF a
  <2> QED
    BY <2>1, <2>2 DEF AuthKind
<1>5. a = [auth EXCEPT !.plugin = IF Ans.plugin # No THEN Ans.plugin ELSE @, !.rounds = IF @ < 5 THEN @ + 1 ELSE @]
  BY <1>2, Distinct
<1>6. /\ l \in AuthKind /\ l.key = No /\ l.dpb = No /\ l.refused = No /\ l.fallback /\ ~l.sentLegacy
  <2> HIDE DEF a
  <2> QED
    BY <1>4, <1>4a DEF AuthKind
<1>7. ASSUME Ans.plugin \in Srps
      PROVE  /\ s \in AuthKind /\ s.key = Ans.plugin /\ s.attempted = {Ans.plugin} /\ s.refused = No
             /\ ~s.fallback /\ ~s.sentLegacy /\ s.plugin = Ans.plugin /\ s.dpb = No
  <2> HIDE DEF a
  <2>1. s \in AuthKind
    BY <1>2, <1>4, <1>4a, <1>7 DEF AuthKind, Keys
  <2> QED
    BY <1>4, <1>4a, <2>1 DEF AuthKind
<1>8. \/ a.plugin = Legacy /\ ContAuth(l, "token", "legacy", tx) /\ Proved(Legacy)
      \/ Ans.what.salt /\ ContAuth(s, "proof", "proof", tx) /\ Proved(a.plugin)
      \/ Diverges(a) /\ auth' = a /\ pc' = "failed" /\ Unsent /\ proofs' = proofs
      \/ ~Diverges(a) /\ ContAuth(a, "public", "round", tx) /\ proofs' = proofs
  BY <1>5 DEF Round
<1> HIDE DEF a, l, s
<1>9. CASE a.plugin = Legacy /\ ContAuth(l, "token", "legacy", tx) /\ Proved(Legacy)
  <2>1. proofs' \in [Plugins -> {0, 1}] /\ proofs'[Legacy] = 1
    BY <1>0, <1>9, Distinct, ProvedNow DEF Untried
  <2>2. /\ Types' /\ Alone' /\ Named' /\ Chances' /\ Waits' /\ Sent'.op = "contAuth" /\ Sent'.what = "token"
        /\ tx' = tx /\ rx' = tx /\ auth' = l /\ pc' = "legacy"
    BY <1>0, <1>2, <1>3, <1>6, <1>9, <2>1, ContAuthAsks DEF Pcs
  <2>3. Clear'
    BY <1>0, <1>2, <1>6, <2>2 DEF Clear
  <2>4. AtLegacy'
    BY <1>0, <1>2, <1>6, <2>1, <2>2, <2>3 DEF AtLegacy, Stranger
  <2> QED
    BY <2>2, <2>4, ElsewhereNext DEF IInv, Phases
<1>10. CASE Ans.what.salt /\ ContAuth(s, "proof", "proof", tx) /\ Proved(a.plugin)
  <2>0. Ans.plugin \in Srps /\ a.plugin = Ans.plugin
    BY <1>2, <1>4, <1>10
  <2>1. proofs' \in [Plugins -> {0, 1}] /\ proofs'[Ans.plugin] = 1 /\ \A q \in Plugins : q # Ans.plugin => proofs'[q] = 0
    BY <1>0, <1>2, <1>10, <2>0, ProvedNow DEF Untried
  <2>2. /\ Types' /\ Alone' /\ Named' /\ Chances' /\ Waits' /\ Sent'.op = "contAuth" /\ Sent'.what = "proof"
        /\ Sent'.plugin = s.plugin /\ tx' = tx /\ rx' = tx /\ auth' = s /\ pc' = "proof"
    BY <1>0, <1>2, <1>3, <1>7, <1>10, <2>0, <2>1, ContAuthAsks DEF Pcs
  <2>3. Tried'
    BY <1>2, <1>7, <2>0, <2>1, <2>2 DEF Tried, HadAChance
  <2>4. Clear'
    BY <1>0, <1>2, <1>7, <2>0, <2>2 DEF Clear
  <2>5. AtProof'
    BY <1>0, <1>2, <1>7, <2>0, <2>2, <2>3, <2>4 DEF AtProof, Stranger, Proving, Tried
  <2> QED
    BY <2>2, <2>5, ElsewhereNext DEF IInv, Phases
<1>11. CASE Diverges(a) /\ auth' = a /\ pc' = "failed" /\ Unsent /\ proofs' = proofs
  BY <1>2, <1>4, <1>4a, <1>11, Stops DEF Unsent
<1>12. CASE ~Diverges(a) /\ ContAuth(a, "public", "round", tx) /\ proofs' = proofs
  <2>1. /\ Types' /\ Alone' /\ Named' /\ Chances' /\ Waits' /\ Sent'.op = "contAuth" /\ Sent'.what = "public"
        /\ tx' = tx /\ rx' = tx /\ auth' = a /\ pc' = "round"
    BY <1>0, <1>2, <1>3, <1>4, <1>4a, <1>12, ContAuthAsks DEF Pcs, Types
  <2>2. Untried' /\ auth'.rounds \in 1..4
    BY <1>0, <1>4, <1>12, <2>1 DEF Untried, Diverges
  <2>3. Clear'
    BY <1>0, <1>2, <1>4, <2>1 DEF Clear
  <2>4. AtRound'
    BY <1>0, <1>2, <2>1, <2>2, <2>3 DEF AtRound, Stranger
  <2> QED
    BY <2>1, <2>4, ElsewhereNext DEF IInv, Phases
<1> QED
  BY <1>8, <1>9, <1>10, <1>11, <1>12

\* The server is satisfied.
LEMMA AuthAnsweredStep ==
    ASSUME IInv, AuthAnswered
    PROVE  IInv'
<1>0. /\ Types /\ Clear /\ auth.refused = No /\ pc \in {"legacy", "proof"} /\ auth \in AuthKind /\ tx \in LayersKind
      /\ Authenticated(auth, Ans.what.iv /\ pc = "proof", tx) /\ cfg' = cfg /\ srv' = srv /\ proofs' = proofs
      /\ down' = Tail(down) /\ Got("response")
  BY DEF IInv, Phases, AtLegacy, AtProof, AuthAnswered, Chances, Types
<1>1. ~Waits /\ ~HeardOffer /\ ~Heard("error", rx) /\ ~HeardProof
  BY <1>0, One, Two DEF Got, Waits, Heard, HeardOffer, HeardProof
<1>2. /\ Heard("response", rx) /\ srv.known
      /\ auth.key # No => srv.agreed = auth.key
      /\ auth.key = No => srv.agreed = No
  BY <1>0, <1>1 DEF IInv, Phases, AtLegacy, AtProof
<1>3. pending = <<>> /\ up = <<>> /\ down' = <<>>
  BY <1>0, <1>2, AnswerRead
<1>4. /\ tx.key = No /\ srv.layers = tx /\ ~srv.attaching /\ auth.dpb = No /\ proofs' \in [Plugins -> {0, 1}]
  BY <1>0 DEF Clear, Types
<1>5. srv.agreed # No => srv.known
  BY <1>2
<1>6. auth.key # No => srv.agreed = (IF auth.dpb = No THEN auth.key ELSE No)
  BY <1>2, <1>4
<1> QED
  BY <1>0, <1>2, <1>3, <1>4, <1>5, <1>6, AuthenticatedAsks

\* More is offered in answer to a proof or a token.
LEMMA ProofAgainStep ==
    ASSUME IInv, ProofAgain
    PROVE  IInv'
<1>0. /\ Types /\ Clear /\ auth.refused = No /\ pc \in {"legacy", "proof"} /\ auth \in AuthKind /\ tx \in LayersKind
      /\ cfg' = cfg /\ srv' = srv /\ down' = Tail(down) /\ Got("contAuth")
  BY DEF IInv, Phases, AtLegacy, AtProof, ProofAgain, Chances, Types
<1>1. ~Waits /\ ~Heard("error", rx) /\ ~Heard("response", rx)
  BY <1>0, One DEF Got, Waits, Heard
<1>2. CASE pc = "legacy"
  <2>1. HeardOffer /\ proofs[Legacy] = 1
    BY <1>1, <1>2 DEF IInv, Phases, AtLegacy
  <2>2. /\ pc' = "failed" /\ auth' = [auth EXCEPT !.refused = Legacy] /\ tx' = tx /\ rx' = rx
        /\ pending' = pending /\ up' = up /\ proofs' = proofs
    BY <1>2 DEF ProofAgain, Unsent
  <2>3. auth' \in AuthKind /\ auth'.refused = Legacy
    BY <1>0, <2>2, Distinct DEF AuthKind
  <2> QED
    BY <1>0, <2>1, <2>2, <2>3, Stops DEF HadAChance
<1>3. CASE pc = "proof" /\ HeardProof /\ ~auth.fallback
  <2>1. Ans = down[1].m /\ Tail(down) = <<down[2]>> /\ pending = <<>> /\ up = <<>>
    <3>1. pending = <<>> /\ up = <<>> /\ down = <<down[1], down[2]>>
      BY <1>3 DEF HeardProof
    <3>2. Head(<<down[1], down[2]>>) = down[1] /\ Tail(<<down[1], down[2]>>) = <<down[2]>>
      BY Two
    <3>3. Head(down) = down[1] /\ Tail(down) = <<down[2]>>
      BY <3>1, <3>2
    <3> QED
      BY <3>1, <3>3 DEF Ans
  <2>2. tx' = tx /\ rx' = rx /\ pending' = <<>> /\ up' = <<>> /\ auth' = auth /\ pc' = pc /\ proofs' = proofs
    BY <1>3, <2>1 DEF ProofAgain, HeardProof, Unsent
  <2>3. down' = <<down[2]>> /\ down' # <<>> /\ down'[1] = down[2] /\ down' = <<down'[1]>>
    BY <1>0, <2>1, One
  <2>4. Heard("response", rx)'
    BY <1>3, <2>2, <2>3 DEF Heard, HeardProof, Legible
  <2>5. Tried' /\ Clear' /\ srv'.known /\ srv'.agreed = auth'.key
    <3>1. Tried /\ srv.known /\ srv.agreed = auth.key
      BY <1>1, <1>3, OfferRead, Distinct DEF IInv, Phases, AtProof, HeardProof, HeardOffer
    <3> QED
      BY <1>0, <2>2, <3>1 DEF Tried, Clear
  <2>6. AtProof'
    BY <2>4, <2>5 DEF AtProof
  <2>7. Types' /\ Alone' /\ Named' /\ Chances'
    BY <1>0, <2>2 DEF Types, Alone, Named, Chances
  <2> QED
    BY <1>3, <2>2, <2>6, <2>7, ElsewhereNext DEF IInv, Phases
<1>4. CASE pc = "proof" /\ ~(HeardProof /\ ~auth.fallback)
  <2> DEFINE p == Ans.plugin
             a == [auth EXCEPT !.attempted = @ \cup {p}]
             f == FallBack(a)
             k == [a EXCEPT !.plugin = p, !.keyed = @ \cup {p}]
             s == [a EXCEPT !.plugin = p, !.key = p]
  <2>0. Tried /\ HeardOffer /\ Stranger /\ OfSelf(down[1].m)
    BY <1>1, <1>4 DEF IInv, Phases, AtProof
  <2>1. /\ pending = <<>> /\ up = <<>> /\ down' = <<>> /\ p \in Plugins /\ p # No /\ (Ans.what.salt => p \in Srps)
        /\ (p \in Srps /\ p = auth.plugin => Ans.what.salt)
    BY <1>0, <2>0, OfferRead, Distinct DEF OfSelf
  <2>2. srv.layers = tx
    BY <1>0 DEF Clear
  <2>3. /\ a \in AuthKind /\ a.key = auth.key /\ a.dpb = No /\ a.refused = No /\ a.fallback = auth.fallback /\ ~a.sentLegacy
        /\ a.attempted = auth.attempted \cup {p} /\ a.plugin = auth.plugin /\ a.keyed = auth.keyed
    BY <1>0, <2>1 DEF AuthKind, Clear
  <2>4. /\ \/ Refused(auth, p) /\ pc' = "failed" /\ Unsent /\ proofs' = proofs
              /\ auth' = [auth EXCEPT !.refused = IF auth.fallback THEN Legacy ELSE p]
           \/ ~Refused(auth, p) /\ p = Legacy /\ ContAuth(f, "token", "proof", tx) /\ Proved(Legacy)
           \/ ~Refused(auth, p) /\ p \in Srps /\ ContAuth(k, "public", "proof", tx) /\ proofs' = proofs
           \/ ~Refused(auth, p) /\ p \in Srps /\ ContAuth(s, "proof", "proof", tx) /\ Proved(p)
    <3>1. ~(~auth.fallback /\ ~Ans.what.salt /\ p = auth.plugin)
      BY <2>0, <2>1 DEF Tried
    <3>2. p # Legacy => p \in Srps
      BY <2>1 DEF Plugins
    <3> QED
      BY <1>0, <1>4, <2>1, <3>1, <3>2 DEF ProofAgain
  <2>5. Refused(auth, p) <=> auth.fallback \/ p \in auth.attempted
    BY DEF Refused
  <2>6. CASE /\ Refused(auth, p) /\ pc' = "failed" /\ Unsent /\ proofs' = proofs
             /\ auth' = [auth EXCEPT !.refused = IF auth.fallback THEN Legacy ELSE p]
    <3>1. auth' \in AuthKind /\ auth'.refused = IF auth.fallback THEN Legacy ELSE p
      BY <1>0, <2>1, <2>6, Distinct DEF AuthKind
    <3>2. HadAChance(auth'.refused, auth', proofs)
      <4>1. auth'.keyed = auth.keyed
        BY <1>0, <2>6 DEF AuthKind
      <4>2. auth'.refused \in auth.attempted
        BY <2>0, <2>5, <2>6, <3>1 DEF Tried
      <4>3. HadAChance(auth'.refused, auth, proofs)
        BY <2>0, <4>2 DEF Tried
      <4> QED
        BY <4>1, <4>3 DEF HadAChance
    <3> QED
      BY <1>0, <2>6, <3>1, <3>2, Stops DEF Unsent
  <2>7. CASE ~Refused(auth, p) /\ p = Legacy /\ ContAuth(f, "token", "proof", tx) /\ Proved(Legacy)
    <3>1. /\ f \in AuthKind /\ f.key = No /\ f.dpb = No /\ f.refused = No /\ f.fallback /\ ~f.sentLegacy /\ f.plugin = Legacy
          /\ f.attempted = auth.attempted \cup {Legacy} /\ f.keyed = auth.keyed
      <4>1. f = [a EXCEPT !.plugin = Legacy, !.fallback = TRUE, !.key = No]
        BY DEF FallBack
      <4> HIDE DEF a, f
      <4>2. f \in AuthKind
        BY <2>3, <4>1, Distinct DEF AuthKind, Keys
      <4> QED
        BY <2>3, <2>7, <4>1, <4>2 DEF AuthKind
    <3> HIDE DEF a, f, k, s
    <3>2. proofs[Legacy] = 0
      BY <2>0, <2>5, <2>7, Distinct DEF Tried
    <3>3. /\ proofs' \in [Plugins -> {0, 1}] /\ proofs'[Legacy] = 1
          /\ \A q \in Plugins : q # Legacy => proofs'[q] = proofs[q]
      BY <1>0, <2>7, <3>2, Distinct, ProvedNow
    <3>4. /\ Types' /\ Alone' /\ Named' /\ Chances' /\ Waits' /\ Sent'.op = "contAuth" /\ Sent'.what = "token"
          /\ tx' = tx /\ rx' = tx /\ auth' = f /\ pc' = "proof"
      BY <1>0, <2>1, <2>2, <2>7, <3>1, <3>3, ContAuthAsks DEF Pcs
    <3>5. Tried'
      <4>1. (\A q \in Plugins : q \notin f.attempted => proofs'[q] = 0) /\ f.plugin \in f.attempted
        BY <2>0, <3>1, <3>3 DEF Tried
      <4>2. \A q \in f.attempted : proofs'[q] = 1 \/ q \in f.keyed
        <5>1. \A q \in auth.attempted : q \in Plugins /\ (proofs[q] = 1 \/ q \in auth.keyed)
          BY <1>0, <2>0 DEF Tried, HadAChance, AuthKind
        <5> QED
          BY <3>1, <3>3, <5>1
      <4> QED
        BY <3>1, <3>4, <4>1, <4>2 DEF Tried, HadAChance
    <3>6. Clear'
      BY <1>0, <3>1, <3>4 DEF Clear
    <3>7. AtProof'
      BY <1>0, <2>0, <3>1, <3>4, <3>5, <3>6 DEF AtProof, Stranger, Proving
    <3> QED
      BY <3>4, <3>7, ElsewhereNext DEF IInv, Phases
  <2>8. CASE ~Refused(auth, p) /\ p \in Srps /\ ContAuth(s, "proof", "proof", tx) /\ Proved(p)
    <3>1. /\ s \in AuthKind /\ s.key = p /\ s.dpb = No /\ s.refused = No /\ s.fallback = auth.fallback /\ ~s.sentLegacy
          /\ s.plugin = p /\ s.attempted = auth.attempted \cup {p} /\ s.keyed = auth.keyed
      <4> HIDE DEF a
      <4>2. s \in AuthKind
        BY <2>1, <2>3, <2>8 DEF AuthKind, Keys
      <4> QED
        BY <2>3, <4>2 DEF AuthKind
    <3> HIDE DEF a, f, k, s, p
    <3>2. proofs[p] = 0 /\ ~auth.fallback
      BY <2>0, <2>1, <2>5, <2>8 DEF Tried
    <3>3. /\ proofs' \in [Plugins -> {0, 1}] /\ proofs'[p] = 1
          /\ \A q \in Plugins : q # p => proofs'[q] = proofs[q]
      BY <1>0, <2>1, <2>8, <3>2, ProvedNow
    <3>4. /\ Types' /\ Alone' /\ Named' /\ Chances' /\ Waits' /\ Sent'.op = "contAuth" /\ Sent'.what = "proof"
          /\ Sent'.plugin = p /\ tx' = tx /\ rx' = tx /\ auth' = s /\ pc' = "proof"
      BY <1>0, <2>1, <2>2, <2>8, <3>1, <3>3, ContAuthAsks DEF Pcs
    <3>5. Tried'
      <4>1. (\A q \in Plugins : q \notin s.attempted => proofs'[q] = 0) /\ s.plugin \in s.attempted
        BY <2>0, <3>1, <3>3 DEF Tried
      <4>2. \A q \in s.attempted : proofs'[q] = 1 \/ q \in s.keyed
        <5>1. \A q \in auth.attempted : q \in Plugins /\ (proofs[q] = 1 \/ q \in auth.keyed)
          BY <1>0, <2>0 DEF Tried, HadAChance, AuthKind
        <5> QED
          BY <3>1, <3>3, <5>1
      <4> QED
        BY <2>8, <3>1, <3>2, <3>4, <4>1, <4>2 DEF Tried, HadAChance
    <3>6. Clear'
      BY <1>0, <3>1, <3>4 DEF Clear
    <3>7. AtProof'
      BY <1>0, <2>0, <3>1, <3>2, <3>4, <3>5, <3>6 DEF AtProof, Stranger, Proving
    <3> QED
      BY <3>4, <3>7, ElsewhereNext DEF IInv, Phases
  <2>9. CASE ~Refused(auth, p) /\ p \in Srps /\ ContAuth(k, "public", "proof", tx) /\ proofs' = proofs
    <3>1. /\ k \in AuthKind /\ k.key = auth.key /\ k.dpb = No /\ k.refused = No /\ k.fallback = auth.fallback /\ ~k.sentLegacy
          /\ k.plugin = p /\ k.attempted = auth.attempted \cup {p} /\ k.keyed = auth.keyed \cup {p}
      <4> HIDE DEF a
      <4>1. k \in AuthKind
        BY <2>1, <2>3 DEF AuthKind, Keys
      <4> QED
        BY <2>3, <4>1 DEF AuthKind
    <3> HIDE DEF a, f, k, s, p
    <3>2. ~auth.fallback /\ auth.key \in Srps /\ proofs' \in [Plugins -> {0, 1}]
      BY <1>0, <2>0, <2>5, <2>9 DEF Tried, Types
    <3>3. /\ Types' /\ Alone' /\ Named' /\ Chances' /\ Waits' /\ Sent'.op = "contAuth" /\ Sent'.what = "public"
          /\ tx' = tx /\ rx' = tx /\ auth' = k /\ pc' = "proof"
      BY <1>0, <2>1, <2>2, <2>9, <3>1, <3>2, ContAuthAsks DEF Pcs
    <3>4. Tried'
      BY <2>0, <2>1, <2>9, <3>1, <3>2, <3>3 DEF Tried, HadAChance
    <3>5. Clear'
      BY <1>0, <3>1, <3>3 DEF Clear
    <3>6. AtProof'
      BY <1>0, <2>0, <3>1, <3>2, <3>3, <3>4, <3>5 DEF AtProof, Stranger, Proving
    <3> QED
      BY <3>3, <3>6, ElsewhereNext DEF IInv, Phases
  <2> QED
    BY <2>4, <2>6, <2>7, <2>8, <2>9
<1> QED
  BY <1>0, <1>2, <1>3, <1>4

\* The deflater has emitted op_crypt: what follows is encrypted.
LEMMA InstallStep ==
    ASSUME IInv, Install
    PROVE  IInv'
<1>0. /\ Types /\ KeyKnown /\ tx.z /\ tx.key = No /\ (CryptAsked \/ CryptHeard) /\ auth.refused = No /\ pc = "install"
      /\ pending = <<>> /\ tx' = [tx EXCEPT !.key = auth.key] /\ pc' = "crypted"
      /\ cfg' = cfg /\ auth' = auth /\ rx' = rx /\ pending' = pending /\ up' = up /\ down' = down /\ srv' = srv /\ proofs' = proofs
  BY DEF IInv, Phases, AtInstall, Install, Flushed, Chances
<1>1. tx' = rx /\ tx' \in LayersKind
  BY <1>0 DEF Types, LayersKind, KeyKnown
<1>2. Types' /\ Alone' /\ Named' /\ Chances'
  BY <1>0, <1>1 DEF IInv, Types, Pcs, Alone, Named, Sent, Chances
<1>3. KeyKnown'
  BY <1>0, <1>1 DEF KeyKnown
<1>4. CryptHeard => CryptHeard'
  BY <1>0 DEF CryptHeard, Heard, Legible
<1>5. CryptAsked => CryptAsked'
  BY <1>0 DEF CryptAsked, Waits, Sent, Legible
<1>6. AtCrypted'
  BY <1>0, <1>1, <1>3, <1>4, <1>5 DEF AtCrypted
<1> QED
  BY <1>0, <1>2, <1>6, ElsewhereNext DEF IInv, Phases

\* The server answers the first packet that it could only decrypt.
LEMMA CryptAnsweredStep ==
    ASSUME IInv, CryptAnswered
    PROVE  IInv'
<1>0. /\ Types /\ KeyKnown /\ tx = rx /\ auth.refused = No /\ pc = "crypted" /\ pc' = "attach"
      /\ Got("response") /\ down' = Tail(down) /\ Sends(AttachPacket(auth), tx)
      /\ cfg' = cfg /\ auth' = auth /\ tx' = tx /\ rx' = rx /\ srv' = srv /\ proofs' = proofs
  BY DEF IInv, Phases, AtCrypted, CryptAnswered, Chances
<1>1. CryptHeard
  BY <1>0 DEF IInv, Phases, AtCrypted, CryptAsked, Waits, Got
<1>2. pending = <<>> /\ up = <<>> /\ down' = <<>> /\ srv.layers = tx /\ srv.agreed = rx.key
  BY <1>0, <1>1, AnswerRead DEF CryptHeard
<1>3. Alone' /\ Sent' = AttachPacket(auth) /\ Waits'
  BY <1>0, <1>2, SendsOne DEF Types
<1>4. Sent'.op = "attach"
  BY <1>3 DEF AttachPacket, Msg
<1>5. Types' /\ Named' /\ Chances'
  BY <1>0, <1>4 DEF Types, Pcs, Named, Chances
<1>6. srv.known /\ rx.key # No
  BY <1>0, <1>2 DEF KeyKnown
<1>7. AtAttach'
  BY <1>0, <1>2, <1>3, <1>4, <1>6 DEF AtAttach, Protected
<1> QED
  BY <1>0, <1>3, <1>5, <1>7, ElsewhereNext DEF IInv, Phases

\* The attach is answered.
LEMMA AttachedStep ==
    ASSUME IInv, Attached
    PROVE  IInv'
<1>0. /\ Types /\ Protected /\ auth.refused = No /\ pc = "attach" /\ pc' = "up"
      /\ Got("response") /\ down' = Tail(down)
      /\ cfg' = cfg /\ auth' = auth /\ tx' = tx /\ rx' = rx /\ srv' = srv /\ proofs' = proofs /\ pending' = pending /\ up' = up
  BY DEF IInv, Phases, AtAttach, Attached, Chances
<1>1. ~Waits /\ ~HeardOffer /\ ~Heard("error", rx)
  BY <1>0, One DEF Got, Waits, Heard, HeardOffer
<1>2. Heard("response", rx)
  BY <1>0, <1>1 DEF IInv, Phases, AtAttach
<1>3. pending' = <<>> /\ up' = <<>> /\ down' = <<>>
  BY <1>0, <1>2, AnswerRead
<1>4. Types' /\ Alone' /\ Named' /\ Chances'
  BY <1>0, <1>3 DEF Types, Pcs, Alone, Named, Chances
<1>5. AtUp'
  BY <1>0, <1>3 DEF AtUp, Protected, Silent
<1> QED
  BY <1>0, <1>4, <1>5, ElsewhereNext DEF IInv, Phases

\* Authentication goes on in answer to the attach.
LEMMA AttachAuthStep ==
    ASSUME IInv, AttachAuth
    PROVE  IInv'
<1> DEFINE p == Ans.plugin
           l == [auth EXCEPT !.plugin = Legacy, !.fallback = TRUE, !.sentLegacy = TRUE]
           w == IF Ans.what.salt THEN "proof" ELSE "public"
<1>0. /\ Types /\ Protected /\ auth.refused = No /\ pc = "attach" /\ auth \in AuthKind /\ tx \in LayersKind
      /\ Got("contAuth") /\ down' = Tail(down) /\ cfg' = cfg /\ srv' = srv /\ proofs' = proofs
      /\ proofs \in [Plugins -> {0, 1}]
  BY DEF IInv, Phases, AtAttach, AttachAuth, Chances, Types
<1>1. ~Waits /\ ~Heard("response", rx) /\ ~Heard("error", rx)
  BY <1>0, One DEF Got, Waits, Heard
<1>2. HeardOffer /\ ~srv.known /\ srv.attaching
  BY <1>0, <1>1 DEF IInv, Phases, AtAttach
<1>3. pending = <<>> /\ up = <<>> /\ down' = <<>> /\ p \in Plugins /\ p # No /\ (Ans.what.salt => p \in Srps)
  BY <1>0, <1>2, OfferRead, Distinct
<1>4. srv.layers = tx /\ rx = tx /\ tx.key = No
  BY <1>0, <1>2 DEF Protected
<1>5. l \in AuthKind /\ l.refused = No
  BY <1>0, Distinct DEF AuthKind
<1> HIDE DEF l
<1>6. \/ pc' = "failed" /\ Unsent /\ auth' = auth
      \/ ContAuth(l, "token", "attach", tx)
      \/ /\ p # Legacy /\ Sends(Msg("contAuth", p, w), tx)
         /\ auth' = auth /\ pc' = pc /\ tx' = tx /\ rx' = rx
  BY <1>3 DEF AttachAuth, l
<1>7. CASE pc' = "failed" /\ Unsent /\ auth' = auth
  BY <1>0, <1>7, Stops DEF Unsent
<1>8. CASE ContAuth(l, "token", "attach", tx)
  <2>1. /\ Types' /\ Alone' /\ Named' /\ Chances' /\ Waits' /\ Sent'.op = "contAuth"
        /\ tx' = tx /\ rx' = tx /\ auth' = l /\ pc' = "attach"
    BY <1>0, <1>3, <1>4, <1>5, <1>8, ContAuthAsks DEF Pcs
  <2>2. Protected'
    BY <1>0, <1>4, <2>1 DEF Protected
  <2>3. AtAttach'
    BY <1>0, <1>2, <2>1, <2>2 DEF AtAttach
  <2> QED
    BY <2>1, <2>3, ElsewhereNext DEF IInv, Phases
<1>9. CASE p # Legacy /\ Sends(Msg("contAuth", p, w), tx) /\ auth' = auth /\ pc' = pc /\ tx' = tx /\ rx' = rx
  <2>1. p \in Srps
    BY <1>3, <1>9 DEF Plugins
  <2> HIDE DEF w, p
  <2>2. Alone' /\ Sent' = Msg("contAuth", p, w) /\ Waits'
    BY <1>0, <1>3, <1>4, <1>9, SendsOne
  <2>3. Sent'.op = "contAuth" /\ Sent'.plugin = p
    BY <2>2 DEF Msg
  <2>4. Types' /\ Named' /\ Chances'
    BY <1>0, <1>9, <2>1, <2>3 DEF Types, Named, Chances
  <2>5. Protected'
    BY <1>0, <1>9 DEF Protected
  <2>6. AtAttach'
    BY <1>0, <1>2, <1>9, <2>2, <2>3, <2>5 DEF AtAttach
  <2> QED
    BY <1>0, <1>9, <2>2, <2>4, <2>6, ElsewhereNext DEF IInv, Phases
<1> QED
  BY <1>6, <1>7, <1>8, <1>9

\* The deflater emits what it holds, in the layers of the socket, which the server reads.
LEMMA DrainStep ==
    ASSUME IInv, Drain
    PROVE  IInv'
<1>0. /\ Types /\ pending # <<>> /\ pending = <<pending[1]>> /\ up = <<>>
      /\ up' = Append(up, Layered(Head(pending), tx)) /\ pending' = Tail(pending)
      /\ cfg' = cfg /\ pc' = pc /\ auth' = auth /\ tx' = tx /\ rx' = rx /\ down' = down /\ srv' = srv /\ proofs' = proofs
  BY DEF IInv, Alone, Drain
<1>1. pending' = <<>> /\ up' = <<Layered(pending[1], tx)>>
  BY <1>0, One
<1>2. up' # <<>> /\ up'[1] = Layered(pending[1], tx) /\ up' = <<up'[1]>>
  BY <1>1, One
<1>3. Sent' = Sent
  BY <1>0, <1>1, <1>2 DEF Sent, Layered
<1>4. Types' /\ Alone' /\ Named' /\ Chances'
  BY <1>0, <1>1, <1>2, <1>3 DEF IInv, Types, Alone, Named, Chances
<1>5. Waits => Waits'
  BY <1>0, <1>1, <1>2 DEF Waits, Legible, Layered
<1>6. \A op, l : ~Heard(op, l)
  BY <1>0 DEF Heard
<1>7. ~HeardOffer /\ ~HeardProof /\ ~CryptHeard /\ ~Silent
  BY <1>0, <1>6 DEF HeardOffer, HeardProof, CryptHeard, Silent
<1>8. AtTcp' /\ AtUp'
  BY <1>0, <1>7 DEF IInv, Phases, AtTcp, AtUp
<1>9. AtAccept'
  <2>1. pc = "accept" =>
            /\ tx = Plain /\ rx = Plain /\ Untried /\ auth.rounds = 0 /\ ~srv.attaching /\ srv.agreed = No
            /\ Waits /\ Sent.op = "connect" /\ srv.layers = Plain /\ ~srv.known
    BY <1>6 DEF IInv, Phases, AtAccept
  <2> QED
    BY <1>0, <1>3, <1>5, <2>1 DEF AtAccept, Untried
<1>10. AtRound'
  <2>1. pc = "round" => Clear /\ Untried /\ auth.rounds \in 1..4 /\ Stranger /\ Waits /\ Sent.op = "contAuth" /\ Sent.what = "public"
    BY <1>6, <1>7 DEF IInv, Phases, AtRound
  <2> QED
    BY <1>0, <1>3, <1>5, <2>1 DEF AtRound, Untried, Clear, Stranger
<1>11. AtLegacy'
  <2>1. pc = "legacy" => /\ Clear /\ auth.key = No /\ proofs[Legacy] = 1 /\ srv.agreed = No
                         /\ Waits /\ ~srv.known /\ Sent.op = "contAuth" /\ Sent.what = "token"
    BY <1>6, <1>7 DEF IInv, Phases, AtLegacy
  <2> QED
    BY <1>0, <1>3, <1>5, <2>1 DEF AtLegacy, Clear
<1>12. AtProof'
  <2>1. pc = "proof" => /\ Clear /\ Tried /\ Waits /\ Stranger /\ Sent.op = "contAuth"
                        /\ Proving(Sent)
    BY <1>6, <1>7 DEF IInv, Phases, AtProof
  <2> QED
    BY <1>0, <1>3, <1>5, <2>1 DEF AtProof, Clear, Tried, Stranger, Proving, HadAChance
<1>13. CryptAsked => CryptAsked'
  BY <1>0, <1>3, <1>5 DEF CryptAsked
<1>14. KeyKnown => KeyKnown'
  BY <1>0 DEF KeyKnown
<1>15. AtInstall' /\ AtCrypted'
  BY <1>0, <1>7, <1>13, <1>14 DEF IInv, Phases, AtInstall, AtCrypted
<1>16. AtAttach'
  <2>1. pc = "attach" =>
            /\ Protected
            /\ \/ Waits /\ Sent.op = "attach"
               \/ Waits /\ ~srv.known /\ srv.attaching /\ Sent.op = "contAuth"
    BY <1>6, <1>7 DEF IInv, Phases, AtAttach
  <2>2. Protected => Protected'
    BY <1>0 DEF Protected
  <2> QED
    BY <1>0, <1>3, <1>5, <2>1, <2>2 DEF AtAttach
<1> QED
  BY <1>4, <1>8, <1>9, <1>10, <1>11, <1>12, <1>15, <1>16 DEF IInv, Phases

-----------------------------------------------------------------------------
(* The steps of the server. *)

\* When the server reads a packet it is the client's only one, and the client's phase
\* tells which.
LEMMA Waiting ==
    ASSUME IInv, up # <<>>
    PROVE  /\ pending = <<>> /\ up = <<up[1]>> /\ Tail(up) = <<>> /\ Sent = Req
           /\ pc \notin {"tcp", "up"}
           /\ pc = "accept" => /\ tx = Plain /\ rx = Plain /\ Untried /\ auth.rounds = 0 /\ ~srv.attaching /\ srv.agreed = No
                               /\ Req.op = "connect" /\ srv.layers = Plain /\ ~srv.known
           /\ pc = "round" => /\ Clear /\ Untried /\ auth.rounds \in 1..4 /\ Stranger
                              /\ Req.op = "contAuth" /\ Req.what = "public"
           /\ pc = "legacy" => /\ Clear /\ auth.key = No /\ proofs[Legacy] = 1 /\ srv.agreed = No
                               /\ ~srv.known /\ Req.op = "contAuth" /\ Req.what = "token"
           /\ pc = "proof" => /\ Clear /\ Tried /\ Stranger /\ Req.op = "contAuth"
                              /\ Proving(Req)
           /\ pc = "install" => KeyKnown /\ tx.z /\ tx.key = No /\ Req.op = "crypt" /\ srv.layers.key = No
           /\ pc = "crypted" => KeyKnown /\ tx = rx /\ Req.op = "crypt" /\ srv.layers.key = No
           /\ pc = "attach" => /\ Protected
                               /\ \/ Req.op = "attach"
                                  \/ Req.op = "contAuth" /\ ~srv.known /\ srv.attaching
<1>1. pending = <<>> /\ up = <<up[1]>>
  BY DEF IInv, Alone
<1>2. Head(up) = up[1] /\ Tail(up) = <<>>
  BY <1>1, One
<1>3. Sent = Req
  BY <1>1, <1>2 DEF Sent, Req
<1>4. (\A op, l : ~Heard(op, l)) /\ ~HeardOffer /\ ~HeardProof /\ ~CryptHeard /\ ~Silent
  BY DEF Heard, HeardOffer, HeardProof, CryptHeard, Silent
<1>5. pc \notin {"tcp", "up"}
  BY <1>4 DEF IInv, Phases, AtTcp, AtUp
<1>6. pc = "accept" => /\ tx = Plain /\ rx = Plain /\ Untried /\ auth.rounds = 0 /\ ~srv.attaching /\ srv.agreed = No
                       /\ Req.op = "connect" /\ srv.layers = Plain /\ ~srv.known
  BY <1>3, <1>4 DEF IInv, Phases, AtAccept
<1>7. pc = "round" => /\ Clear /\ Untried /\ auth.rounds \in 1..4 /\ Stranger
                      /\ Req.op = "contAuth" /\ Req.what = "public"
  BY <1>3, <1>4 DEF IInv, Phases, AtRound
<1>8. pc = "legacy" => /\ Clear /\ auth.key = No /\ proofs[Legacy] = 1 /\ srv.agreed = No
                       /\ ~srv.known /\ Req.op = "contAuth" /\ Req.what = "token"
  BY <1>3, <1>4 DEF IInv, Phases, AtLegacy
<1>9. pc = "proof" => /\ Clear /\ Tried /\ Stranger /\ Req.op = "contAuth"
                      /\ Proving(Req)
  BY <1>3, <1>4 DEF IInv, Phases, AtProof
<1>10. pc = "install" => KeyKnown /\ tx.z /\ tx.key = No /\ Req.op = "crypt" /\ srv.layers.key = No
  BY <1>3, <1>4 DEF IInv, Phases, AtInstall, CryptAsked
<1>11. pc = "crypted" => KeyKnown /\ tx = rx /\ Req.op = "crypt" /\ srv.layers.key = No
  BY <1>3, <1>4 DEF IInv, Phases, AtCrypted, CryptAsked
<1>12. pc = "attach" => /\ Protected
                        /\ \/ Req.op = "attach"
                           \/ Req.op = "contAuth" /\ ~srv.known /\ srv.attaching
  BY <1>3, <1>4 DEF IInv, Phases, AtAttach
<1> QED
  BY <1>1, <1>2, <1>3, <1>5, <1>6, <1>7, <1>8, <1>9, <1>10, <1>11, <1>12

\* An answer uses up the packet it answers.
LEMMA Answering ==
    ASSUME IInv, up # <<>>, up' = Tail(up), srv' \in SrvKind, cfg' = cfg, pc' = pc, auth' = auth, tx' = tx, rx' = rx,
           pending' = pending, proofs' = proofs
    PROVE  Types' /\ Alone' /\ Named' /\ Chances' /\ pending' = <<>> /\ up' = <<>>
<1>1. pending' = <<>> /\ up' = <<>>
  BY Waiting
<1>2. Types'
  BY DEF IInv, Types
<1>3. Alone' /\ Named' /\ Chances'
  BY <1>1 DEF IInv, Alone, Named, Chances
<1> QED
  BY <1>1, <1>2, <1>3

\* One packet is the answer, in the layers the server is in by then.
LEMMA AnsweredOne ==
    ASSUME IInv, up # <<>>, NEW q, NEW s \in SrvKind, Answers(<<q>>, s)
    PROVE  /\ Types' /\ Alone' /\ Named' /\ Chances' /\ pending' = <<>> /\ up' = <<>>
           /\ cfg' = cfg /\ pc' = pc /\ auth' = auth /\ tx' = tx /\ rx' = rx /\ proofs' = proofs /\ srv' = s
           /\ down' = <<down'[1]>> /\ down' # <<>> /\ down'[1].m = q
           /\ (s.layers = rx => Heard(q.op, rx)')
<1>1. /\ cfg' = cfg /\ pc' = pc /\ auth' = auth /\ tx' = tx /\ rx' = rx /\ proofs' = proofs /\ srv' = s
      /\ up' = Tail(up) /\ pending' = pending /\ down' = <<Layered(q, s.layers)>>
  BY AnswersOne DEF Answers
<1>2. Types' /\ Alone' /\ Named' /\ Chances' /\ pending' = <<>> /\ up' = <<>>
  BY <1>1, Answering
<1>3. down' = <<down'[1]>> /\ down' # <<>> /\ down'[1] = Layered(q, s.layers)
  BY <1>1, One
<1>4. down'[1].m = q /\ down'[1].z = s.layers.z /\ down'[1].key = s.layers.key
  BY <1>3 DEF Layered
<1>5. s.layers = rx => Heard(q.op, rx)'
  BY <1>1, <1>2, <1>3, <1>4 DEF Heard, Legible
<1> QED
  BY <1>1, <1>2, <1>3, <1>4, <1>5

\* Once the client has given up, nothing more is asked of what the server does.
LEMMA GoneStep ==
    ASSUME pc' = "failed", Types', Alone', Named', Chances'
    PROVE  IInv'
BY ElsewhereNext DEF IInv, Phases

\* The offers of the server.
LEMMA OffersMade ==
    ASSUME IInv, up # <<>>, NEW s \in SrvKind, Offers(s)
    PROVE  /\ Types' /\ Alone' /\ Named' /\ Chances' /\ pending' = <<>> /\ up' = <<>>
           /\ cfg' = cfg /\ pc' = pc /\ auth' = auth /\ tx' = tx /\ rx' = rx /\ proofs' = proofs
           /\ srv' = s
           /\ (s.layers = rx => HeardOffer')
           /\ (pc = "proof" => OfSelf(down'[1].m))
<1>1. PICK p \in Plugins, salt \in BOOLEAN :
        /\ salt => p \in Srps
        /\ pc = "proof" /\ p \in Srps /\ p = auth.plugin => salt
        /\ Answers(<<Offer(p, salt)>>, s)
  BY DEF Offers
<1>2. Offer(p, salt).op = "contAuth" /\ Offer(p, salt).plugin = p /\ Offer(p, salt).what.salt = salt
  BY DEF Offer, Msg
<1>3. /\ Types' /\ Alone' /\ Named' /\ Chances' /\ pending' = <<>> /\ up' = <<>>
      /\ cfg' = cfg /\ pc' = pc /\ auth' = auth /\ tx' = tx /\ rx' = rx /\ proofs' = proofs
      /\ srv' = s /\ down'[1].m = Offer(p, salt)
      /\ (s.layers = rx => Heard("contAuth", rx)')
  BY <1>1, <1>2, AnsweredOne
<1>4. s.layers = rx => HeardOffer'
  BY <1>1, <1>2, <1>3 DEF HeardOffer
<1>5. pc = "proof" => OfSelf(down'[1].m)
  BY <1>1, <1>2, <1>3 DEF OfSelf
<1> QED
  BY <1>3, <1>4, <1>5

\* op_accept.
LEMMA SrvAcceptsStep ==
    ASSUME IInv, SrvAccepts
    PROVE  IInv'
<1>0. up # <<>> /\ Req.op = "connect" /\ down = <<>>
  BY DEF SrvAccepts, Asked, Req
<1>1a. PICK z \in {FALSE, cfg.compress}, trusted \in BOOLEAN, cond \in BOOLEAN, salt \in BOOLEAN, p \in Plugins :
        /\ salt => p \in Srps /\ p = Req.plugin
        /\ LET what == [z |-> z, trusted |-> trusted, cond |-> cond, salt |-> salt]
               m == Msg("accept", p, what)
           IN /\ down' = <<Layered(m, Plain)>>
              /\ srv' = [srv EXCEPT !.layers.z = z, !.known = trusted]
              /\ up' = Tail(up)
              /\ UNCHANGED <<cfg, pc, auth, tx, rx, pending, proofs, late>>
  BY Zenon DEF SrvAccepts
<1>1. /\ salt => p \in Srps
      /\ down' = <<Layered(Msg("accept", p, [z |-> z, trusted |-> trusted, cond |-> cond, salt |-> salt]), Plain)>>
      /\ srv' = [srv EXCEPT !.layers.z = z, !.known = trusted]
      /\ up' = Tail(up)
      /\ cfg' = cfg /\ pc' = pc /\ auth' = auth /\ tx' = tx /\ rx' = rx /\ pending' = pending /\ proofs' = proofs
  BY <1>1a
<1>2. z \in BOOLEAN /\ srv \in SrvKind /\ srv.layers \in LayersKind
  BY <1>1a DEF IInv, Types, SrvKind
<1>3. /\ srv' \in SrvKind /\ srv'.known = trusted /\ srv'.agreed = srv.agreed /\ srv'.attaching = srv.attaching
      /\ srv'.layers = [srv.layers EXCEPT !.z = z]
  BY <1>1, <1>2 DEF SrvKind, LayersKind
<1>4. Types' /\ Alone' /\ Named' /\ Chances' /\ pending' = <<>> /\ up' = <<>>
  BY <1>0, <1>1, <1>3, Answering
<1>5. CASE pc = "accept"
  <2>1. tx = Plain /\ rx = Plain /\ Untried /\ auth.rounds = 0 /\ ~srv.attaching /\ srv.agreed = No /\ srv.layers = Plain
    BY <1>0, <1>5, Waiting
  <2>2. srv'.layers = [z |-> z, key |-> No]
    BY <1>3, <2>1 DEF Plain
  <2>3. /\ down' # <<>> /\ down' = <<down'[1]>>
        /\ down'[1] = Layered(Msg("accept", p, [z |-> z, trusted |-> trusted, cond |-> cond, salt |-> salt]), Plain)
    BY <1>1, One
  <2>4. /\ down'[1].m.op = "accept" /\ down'[1].m.plugin = p /\ down'[1].m.what.z = z
        /\ down'[1].m.what.trusted = trusted /\ down'[1].m.what.salt = salt /\ Legible(down'[1], Plain)
    BY <2>3 DEF Layered, Msg, Legible
  <2>5. Heard("accept", Plain)'
    BY <1>4, <2>3, <2>4 DEF Heard, Legible, Plain
  <2>6. Untried'
    BY <1>1, <2>1 DEF Untried
  <2>7. AtAccept'
    BY <1>1, <1>3, <2>1, <2>2, <2>4, <2>5, <2>6 DEF AtAccept
  <2> QED
    BY <1>1, <1>4, <1>5, <2>7, ElsewhereNext DEF IInv, Phases
<1>6. CASE pc = "failed"
  BY <1>1, <1>4, <1>6, GoneStep
<1> QED
  BY <1>0, <1>5, <1>6, Waiting DEF IInv, Types, Pcs

\* An error, whatever was asked.
LEMMA SrvRefusesStep ==
    ASSUME IInv, SrvRefuses
    PROVE  IInv'
<1>0. up # <<>> /\ Req.op # "crypt" /\ down = <<>> /\ Answers(<<Error>>, srv) /\ srv \in SrvKind
  BY DEF SrvRefuses, IInv, Types
<1>1. /\ Types' /\ Alone' /\ Named' /\ Chances' /\ pending' = <<>> /\ up' = <<>>
      /\ cfg' = cfg /\ pc' = pc /\ auth' = auth /\ tx' = tx /\ rx' = rx /\ proofs' = proofs /\ srv' = srv
      /\ (srv.layers = rx => Heard("error", rx)')
  BY <1>0, AnsweredOne DEF Error, Msg
<1>2. CASE pc = "accept"
  <2>1. tx = Plain /\ rx = Plain /\ Untried /\ auth.rounds = 0 /\ ~srv.attaching /\ srv.agreed = No /\ srv.layers = Plain
    BY <1>0, <1>2, Waiting
  <2>2. Heard("error", Plain)'
    BY <1>1, <2>1 DEF Heard
  <2>3. AtAccept'
    BY <1>1, <2>1, <2>2 DEF AtAccept, Untried
  <2> QED
    BY <1>1, <1>2, <2>3, ElsewhereNext DEF IInv, Phases
<1>3. CASE pc = "round"
  <2>1. Clear /\ Untried /\ auth.rounds \in 1..4 /\ Stranger
    BY <1>0, <1>3, Waiting
  <2>2. Heard("error", rx)' /\ Clear' /\ Untried' /\ Stranger'
    BY <1>1, <2>1 DEF Clear, Untried, Stranger
  <2>3. AtRound'
    BY <1>1, <2>1, <2>2 DEF AtRound
  <2> QED
    BY <1>1, <1>3, <2>3, ElsewhereNext DEF IInv, Phases
<1>4. CASE pc = "legacy"
  <2>1. Clear /\ auth.key = No /\ proofs[Legacy] = 1 /\ srv.agreed = No
    BY <1>0, <1>4, Waiting
  <2>2. Heard("error", rx)' /\ Clear'
    BY <1>1, <2>1 DEF Clear
  <2>3. AtLegacy'
    BY <1>1, <2>1, <2>2 DEF AtLegacy
  <2> QED
    BY <1>1, <1>4, <2>3, ElsewhereNext DEF IInv, Phases
<1>5. CASE pc = "proof"
  <2>1. Clear /\ Tried
    BY <1>0, <1>5, Waiting
  <2>2. Heard("error", rx)' /\ Clear' /\ Tried'
    BY <1>1, <2>1 DEF Clear, Tried
  <2>3. AtProof'
    BY <2>2 DEF AtProof
  <2> QED
    BY <1>1, <1>5, <2>3, ElsewhereNext DEF IInv, Phases
<1>6. CASE pc = "attach"
  <2>1. Protected
    BY <1>0, <1>6, Waiting
  <2>2. Heard("error", rx)' /\ Protected'
    BY <1>1, <2>1 DEF Protected
  <2>3. AtAttach'
    BY <1>1, <2>1, <2>2 DEF AtAttach
  <2> QED
    BY <1>1, <1>6, <2>3, ElsewhereNext DEF IInv, Phases
<1>7. CASE pc = "failed"
  BY <1>1, <1>7, GoneStep
<1> QED
  BY <1>0, <1>2, <1>3, <1>4, <1>5, <1>6, <1>7, Waiting DEF IInv, Types, Pcs

\* op_crypt is answered encrypted, with the key agreed.
LEMMA SrvCryptsStep ==
    ASSUME IInv, SrvCrypts
    PROVE  IInv'
<1> DEFINE s == [srv EXCEPT !.layers.key = srv.agreed]
<1>0. up # <<>> /\ Req.op = "crypt" /\ down = <<>> /\ srv.agreed # No /\ Answers(<<Response>>, s) /\ srv \in SrvKind
  BY DEF SrvCrypts, Asked, Req, IInv, Types
<1>1. srv.layers \in LayersKind /\ srv.agreed \in Keys
  BY <1>0 DEF SrvKind
<1>2. /\ s \in SrvKind /\ s.layers = [srv.layers EXCEPT !.key = srv.agreed] /\ s.agreed = srv.agreed /\ s.known = srv.known
      /\ s.attaching = srv.attaching
  BY <1>0, <1>1 DEF SrvKind, LayersKind
<1> HIDE DEF s
<1>3. /\ Types' /\ Alone' /\ Named' /\ Chances' /\ pending' = <<>> /\ up' = <<>>
      /\ cfg' = cfg /\ pc' = pc /\ auth' = auth /\ tx' = tx /\ rx' = rx /\ proofs' = proofs /\ srv' = s
      /\ (s.layers = rx => Heard("response", rx)')
  BY <1>0, <1>2, AnsweredOne DEF Response, Msg
<1>4. CASE pc \in {"install", "crypted"}
  <2>1. KeyKnown /\ (pc = "install" => tx.z /\ tx.key = No) /\ (pc = "crypted" => tx = rx)
    BY <1>0, <1>4, Waiting
  <2>2. srv.agreed = rx.key /\ srv.layers.z = rx.z /\ rx \in LayersKind
    BY <1>0, <2>1 DEF KeyKnown, IInv, Types
  <2>3. s.layers = rx
    BY <1>1, <1>2, <2>2 DEF LayersKind
  <2>4. CryptHeard'
    BY <1>2, <1>3, <2>2, <2>3 DEF CryptHeard
  <2>5. KeyKnown'
    BY <1>2, <1>3, <2>1, <2>3 DEF KeyKnown
  <2>6. AtInstall' /\ AtCrypted'
    BY <1>3, <2>1, <2>4, <2>5 DEF AtInstall, AtCrypted
  <2> QED
    BY <1>3, <1>4, <2>6, ElsewhereNext DEF IInv, Phases
<1>5. CASE pc = "failed"
  BY <1>3, <1>5, GoneStep
<1> QED
  BY <1>0, <1>4, <1>5, Waiting DEF IInv, Types, Pcs

\* The attach is answered, or authentication goes on.
LEMMA SrvAttachesStep ==
    ASSUME IInv, SrvAttaches
    PROVE  IInv'
<1> DEFINE s == [srv EXCEPT !.attaching = TRUE]
           right == srv.known \/ (Req.what # No /\ (IF Req.what = "token" THEN Legacy ELSE Req.plugin) \in cfg.accounts)
<1>0. up # <<>> /\ Req.op = "attach" /\ srv \in SrvKind
  BY DEF SrvAttaches, Asked, Req, IInv, Types
<1>1. /\ s \in SrvKind /\ s.attaching /\ s.layers = srv.layers /\ s.agreed = srv.agreed /\ s.known = srv.known
  BY <1>0 DEF SrvKind
<1>2. \/ Answers(<<Response>>, s)
      \/ ~srv.known /\ Offers(s)
  BY DEF SrvAttaches
<1> HIDE DEF s, right
<1>3. pc \in {"attach", "failed"}
  BY <1>0, Waiting DEF IInv, Types, Pcs
<1>4. pc = "attach" => Protected
  BY <1>0, Waiting
<1>5. CASE Answers(<<Response>>, s)
  <2>1. /\ Types' /\ Alone' /\ Named' /\ Chances' /\ pending' = <<>> /\ up' = <<>>
        /\ cfg' = cfg /\ pc' = pc /\ auth' = auth /\ tx' = tx /\ rx' = rx /\ proofs' = proofs /\ srv' = s
        /\ (s.layers = rx => Heard("response", rx)')
    BY <1>0, <1>1, <1>5, AnsweredOne DEF Response, Msg
  <2>2. CASE pc = "attach"
    <3>1. Protected' /\ Heard("response", rx)'
      BY <1>1, <1>4, <2>1, <2>2 DEF Protected
    <3>2. AtAttach'
      BY <1>1, <1>4, <2>1, <2>2, <3>1 DEF AtAttach
    <3> QED
      BY <2>1, <2>2, <3>2, ElsewhereNext DEF IInv, Phases
  <2>3. CASE pc = "failed"
    BY <2>1, <2>3, GoneStep
  <2> QED
    BY <1>3, <2>2, <2>3
<1>6. CASE ~srv.known /\ Offers(s)
  <2>1. /\ Types' /\ Alone' /\ Named' /\ Chances'
        /\ cfg' = cfg /\ pc' = pc /\ auth' = auth /\ tx' = tx /\ rx' = rx /\ proofs' = proofs
        /\ srv' = s /\ (s.layers = rx => HeardOffer')
    BY <1>0, <1>1, <1>6, OffersMade
  <2>2. CASE pc = "attach"
    <3>1. Protected' /\ HeardOffer'
      BY <1>1, <1>4, <2>1, <2>2 DEF Protected
    <3>2. AtAttach'
      BY <1>1, <1>4, <1>6, <2>1, <2>2, <3>1 DEF AtAttach
    <3> QED
      BY <2>1, <2>2, <3>2, ElsewhereNext DEF IInv, Phases
  <2>3. CASE pc = "failed"
    BY <2>1, <2>3, GoneStep
  <2> QED
    BY <1>3, <2>2, <2>3
<1> QED
  BY <1>2, <1>5, <1>6

\* An offer made in a round of authentication keeps the phase.
LEMMA OfferKeeps ==
    ASSUME IInv, up # <<>>, Req.op = "contAuth", Types', Alone', Named', Chances', HeardOffer',
           pc' = pc, cfg' = cfg, auth' = auth, tx' = tx, rx' = rx, proofs' = proofs,
           srv' = srv, pc = "proof" => OfSelf(down'[1].m)
    PROVE  IInv'
<1>1. CASE pc = "round"
  <2>1. Clear' /\ Untried' /\ Stranger' /\ auth.rounds \in 1..4
    BY <1>1, Waiting DEF Clear, Untried, Stranger
  <2>2. AtRound'
    BY <2>1 DEF AtRound
  <2> QED
    BY <1>1, <2>2, ElsewhereNext DEF IInv, Phases
<1>2. CASE pc = "legacy"
  <2>1. Clear' /\ auth.key = No /\ proofs[Legacy] = 1 /\ srv.agreed = No
    BY <1>2, Waiting DEF Clear
  <2>2. AtLegacy'
    BY <2>1 DEF AtLegacy
  <2> QED
    BY <1>2, <2>2, ElsewhereNext DEF IInv, Phases
<1>3. CASE pc = "proof"
  <2>1. Clear' /\ Tried' /\ Stranger'
    BY <1>3, Waiting DEF Clear, Tried, HadAChance, Stranger
  <2>2. AtProof'
    BY <1>3, <2>1 DEF AtProof, OfSelf, Proving
  <2> QED
    BY <1>3, <2>2, ElsewhereNext DEF IInv, Phases
<1>4. CASE pc = "attach"
  <2>1. Protected /\ ~srv.known /\ srv.attaching
    BY <1>4, Waiting
  <2>2. Protected'
    BY <2>1 DEF Protected
  <2>3. AtAttach'
    BY <2>1, <2>2 DEF AtAttach
  <2> QED
    BY <1>4, <2>3, ElsewhereNext DEF IInv, Phases
<1>5. CASE pc = "failed"
  BY <1>5, GoneStep
<1> QED
  BY <1>1, <1>2, <1>3, <1>4, <1>5, Waiting DEF IInv, Types, Pcs

\* The server is satisfied, and holds the key of the proof.
LEMMA KnownKeeps ==
    ASSUME IInv, up # <<>>, Req.op = "contAuth", Req.what # "public", Types', Alone', Named', Chances',
           pc' = pc, cfg' = cfg, auth' = auth, tx' = tx, rx' = rx, proofs' = proofs,
           srv' = [srv EXCEPT !.known = TRUE, !.agreed = IF Req.what = "proof" THEN Req.plugin ELSE No],
           srv.layers = rx => Heard("response", rx)' \/ (HeardProof' /\ Req.what = "proof" /\ ~srv.attaching)
    PROVE  IInv'
<1>0. /\ srv'.known /\ srv'.agreed = (IF Req.what = "proof" THEN Req.plugin ELSE No)
      /\ srv'.layers = srv.layers /\ srv'.attaching = srv.attaching
  BY DEF IInv, Types, SrvKind
<1>1. pc # "round"
  BY Waiting
<1>2. CASE pc = "legacy"
  <2>1. Clear /\ auth.key = No /\ proofs[Legacy] = 1 /\ Req.what = "token"
    BY <1>2, Waiting
  <2>2. Clear' /\ srv'.agreed = No /\ Heard("response", rx)'
    BY <1>0, <2>1 DEF Clear
  <2>3. AtLegacy'
    BY <1>0, <2>1, <2>2 DEF AtLegacy
  <2> QED
    BY <1>2, <2>3, ElsewhereNext DEF IInv, Phases
<1>3. CASE pc = "proof"
  <2>1. Clear /\ Tried /\ Proving(Req)
    BY <1>3, Waiting
  <2>2. Clear' /\ Tried' /\ (Heard("response", rx)' \/ (HeardProof' /\ ~auth'.fallback))
    BY <1>0, <2>1 DEF Clear, Tried, HadAChance, Proving
  <2>3. srv'.agreed = auth'.key
    BY <1>0, <2>1 DEF Tried, Proving
  <2>4. AtProof'
    BY <1>0, <2>2, <2>3 DEF AtProof
  <2> QED
    BY <1>3, <2>4, ElsewhereNext DEF IInv, Phases
<1>4. CASE pc = "attach"
  <2>1. Protected /\ ~srv.known /\ srv.attaching
    BY <1>4, Waiting
  <2>2. Protected' /\ Heard("response", rx)'
    BY <1>0, <2>1 DEF Protected
  <2>3. AtAttach'
    BY <1>0, <2>2 DEF AtAttach
  <2> QED
    BY <1>4, <2>3, ElsewhereNext DEF IInv, Phases
<1>5. CASE pc = "failed"
  BY <1>5, GoneStep
<1> QED
  BY <1>1, <1>2, <1>3, <1>4, <1>5, Waiting DEF IInv, Types, Pcs

\* A round of authentication, at the server.
LEMMA SrvAuthStep ==
    ASSUME IInv, SrvAuth
    PROVE  IInv'
<1> DEFINE knows == [srv EXCEPT !.known = TRUE, !.agreed = IF Req.what = "proof" THEN Req.plugin ELSE No]
<1>0. up # <<>> /\ Req.op = "contAuth" /\ srv \in SrvKind /\ down = <<>>
  BY DEF SrvAuth, Asked, Req, IInv, Types
<1>1. \/ Offers(srv)
      \/ Req.what # "public" /\ Answers(<<Response>>, knows)
      \/ Req.what = "proof" /\ ~srv.attaching /\ Answers(<<Offer(No, FALSE), Response>>, knows)
  BY DEF SrvAuth
<1>2. knows \in SrvKind
  <2>1. Req.what = "proof" => Req.plugin \in Srps
    BY <1>0, Waiting DEF IInv, Named
  <2> QED
    BY <1>0, <2>1 DEF SrvKind, Keys
<1>3. knows.layers = srv.layers
  BY <1>0 DEF SrvKind
<1>4. pc \in {"round", "legacy", "proof", "attach", "failed"} /\ (pc \in {"round", "legacy", "proof", "attach"} => srv.layers = rx)
  BY <1>0, Waiting DEF IInv, Types, Pcs, Clear, Protected
<1>5. CASE Offers(srv)
  <2>1. /\ Types' /\ Alone' /\ Named' /\ Chances'
        /\ cfg' = cfg /\ pc' = pc /\ auth' = auth /\ tx' = tx /\ rx' = rx /\ proofs' = proofs
        /\ srv' = srv /\ (srv.layers = rx => HeardOffer') /\ (pc = "proof" => OfSelf(down'[1].m))
    BY <1>0, <1>5, OffersMade
  <2>2. CASE pc = "failed"
    BY <2>1, <2>2, GoneStep
  <2>3. CASE pc # "failed"
    BY <1>0, <1>4, <2>1, <2>3, OfferKeeps
  <2> QED
    BY <2>2, <2>3
<1>6. CASE Req.what # "public" /\ Answers(<<Response>>, knows)
  <2>1. Response.op = "response"
    BY DEF Response, Msg
  <2>2. /\ Types' /\ Alone' /\ Named' /\ Chances'
        /\ cfg' = cfg /\ pc' = pc /\ auth' = auth /\ tx' = tx /\ rx' = rx /\ proofs' = proofs /\ srv' = knows
        /\ (knows.layers = rx => Heard("response", rx)')
    <3> HIDE DEF knows
    <3> QED
      BY <1>0, <1>2, <1>6, <2>1, AnsweredOne
  <2> QED
    BY <1>0, <1>3, <1>6, <2>2, KnownKeeps
<1>7. CASE Req.what = "proof" /\ ~srv.attaching /\ Answers(<<Offer(No, FALSE), Response>>, knows)
  <2> DEFINE first == Layered(Offer(No, FALSE), knows.layers)
             second == Layered(Response, knows.layers)
  <2>1. /\ cfg' = cfg /\ pc' = pc /\ auth' = auth /\ tx' = tx /\ rx' = rx /\ proofs' = proofs /\ srv' = knows
        /\ up' = Tail(up) /\ pending' = pending /\ down' = <<first, second>>
    <3> DEFINE ms == <<Offer(No, FALSE), Response>>
    <3>1. /\ cfg' = cfg /\ pc' = pc /\ auth' = auth /\ tx' = tx /\ rx' = rx /\ proofs' = proofs /\ srv' = knows
          /\ up' = Tail(up) /\ pending' = pending
      BY <1>7 DEF Answers
    <3>2. down' = [k \in DOMAIN ms |-> Layered(ms[k], knows.layers)]
      BY <1>7 DEF Answers
    <3>3. \A x, y, l : down' = [k \in DOMAIN <<x, y>> |-> Layered(<<x, y>>[k], l)] => down' = <<Layered(x, l), Layered(y, l)>>
      BY AnswersTwo
    <3>4. down' = <<first, second>>
      BY <3>2, <3>3 DEF ms
    <3> QED
      BY <3>1, <3>4
  <2>2. /\ first.m.op = "contAuth" /\ first.m.plugin = No /\ ~first.m.what.salt /\ second.m.op = "response"
        /\ first.z = knows.layers.z /\ first.key = knows.layers.key
        /\ second.z = knows.layers.z /\ second.key = knows.layers.key
    BY DEF Layered, Offer, Msg, Response
  <2> HIDE DEF first, second, knows
  <2>3. Types' /\ Alone' /\ Named' /\ Chances' /\ pending' = <<>> /\ up' = <<>>
    BY <1>0, <1>2, <2>1, Answering
  <2>4. Len(down') = 2 /\ down'[1] = first /\ down'[2] = second /\ down' = <<down'[1], down'[2]>>
    <3>1. Len(<<first, second>>) = 2 /\ <<first, second>>[1] = first /\ <<first, second>>[2] = second
      BY Two
    <3> QED
      BY <2>1, <3>1
  <2>5. srv.layers = rx => HeardProof'
    BY <1>3, <2>1, <2>2, <2>3, <2>4 DEF HeardProof, Legible
  <2> QED
    BY <1>0, <1>7, <2>1, <2>3, <2>5, KnownKeeps DEF knows
<1> QED
  BY <1>1, <1>5, <1>6, <1>7

-----------------------------------------------------------------------------
\* The invariant is inductive.
LEMMA Next_IInv ==
    ASSUME IInv, [Next]_vars
    PROVE  IInv'
<1>0. GivesUp \/ Thrown \/ SrvDrops => IInv'
  <2>1. GivesUp \/ Thrown \/ SrvDrops => Fail /\ pc # "failed"
    BY DEF GivesUp, Thrown, SrvDrops, Over
  <2> QED
    BY <2>1, FailStep
<1>1. CASE TcpConnects \/ GivesUp \/ GoesOn
  BY <1>0, <1>1, TcpConnectsStep, AcceptedStep, RoundStep, AuthAnsweredStep, ProofAgainStep, InstallStep,
     CryptAnsweredStep, AttachedStep, AttachAuthStep, DrainStep DEF GoesOn
<1>2. CASE Server
  BY <1>0, <1>2, SrvAcceptsStep, SrvAuthStep, SrvCryptsStep, SrvAttachesStep, SrvRefusesStep DEF Server
<1>3. CASE UNCHANGED vars
  <2>1. cfg' = cfg /\ pc' = pc /\ auth' = auth /\ tx' = tx /\ rx' = rx /\ pending' = pending /\ up' = up /\ down' = down
        /\ srv' = srv /\ proofs' = proofs
    BY <1>3 DEF vars
  <2>2. /\ Sent' = Sent /\ (Waits' <=> Waits) /\ (HeardOffer' <=> HeardOffer) /\ (HeardProof' <=> HeardProof)
        /\ (Untried' <=> Untried) /\ (Stranger' <=> Stranger) /\ (Silent' <=> Silent) /\ (Clear' <=> Clear)
        /\ (Tried' <=> Tried) /\ (KeyKnown' <=> KeyKnown) /\ (Protected' <=> Protected)
    BY <2>1 DEF Sent, Waits, HeardOffer, HeardProof, Heard, Untried, Stranger, Silent, Clear, Tried, KeyKnown, Protected, Legible
  <2>3. /\ \A op : Heard(op, rx)' <=> Heard(op, rx)
        /\ \A op : Heard(op, Plain)' <=> Heard(op, Plain)
    BY <2>1 DEF Heard, Legible
  <2>4. (CryptAsked' <=> CryptAsked) /\ (CryptHeard' <=> CryptHeard)
    BY <2>1, <2>2, <2>3 DEF CryptAsked, CryptHeard
  <2>5. (Types /\ Alone /\ Named /\ Chances)'
    BY <2>1, <2>2 DEF IInv, Types, Alone, Named, Chances
  <2>6. AtTcp' /\ AtAccept' /\ AtRound'
    BY <2>1, <2>2, <2>3 DEF IInv, Phases, AtTcp, AtAccept, AtRound
  <2>7. AtLegacy' /\ AtProof' /\ AtInstall' /\ AtCrypted'
    BY <2>1, <2>2, <2>3, <2>4 DEF IInv, Phases, AtLegacy, AtProof, AtInstall, AtCrypted, OfSelf, Proving
  <2>8. AtAttach' /\ AtUp'
    BY <2>1, <2>2, <2>3 DEF IInv, Phases, AtAttach, AtUp
  <2> QED
    BY <2>5, <2>6, <2>7, <2>8 DEF IInv, Phases
<1> QED
  BY <1>1, <1>2, <1>3 DEF Next

\* Packets are read through the layers they were sent with.
LEMMA IInv_InStep == IInv => InStep
<1> SUFFICES ASSUME IInv PROVE InStep
  OBVIOUS
<1>1. ASSUME up # <<>>, pc # "failed" PROVE Legible(Head(up), srv.layers)
  <2>1. (\A op, l : ~Heard(op, l)) /\ ~HeardOffer /\ ~HeardProof /\ ~CryptHeard /\ ~Silent
    BY <1>1 DEF Heard, HeardOffer, HeardProof, CryptHeard, Silent
  <2>2. Waits
    BY <1>1, <2>1 DEF IInv, Types, Pcs, Phases, AtTcp, AtAccept, AtRound, AtLegacy, AtProof, AtInstall, AtCrypted, AtAttach, AtUp, CryptAsked
  <2>3. up = <<up[1]>> /\ Legible(up[1], srv.layers)
    BY <1>1, <2>2 DEF Waits
  <2>4. Head(up) = up[1]
    BY <2>3, One
  <2> QED
    BY <2>3, <2>4
<1>2. ASSUME down # <<>>, pc \notin {"accept", "failed"} PROVE Legible(Head(down), rx)
  <2>1. ~Waits /\ ~Silent
    BY <1>2 DEF Waits, Silent
  <2>2. (\E op : Heard(op, rx)) \/ HeardProof
    BY <1>2, <2>1 DEF IInv, Types, Pcs, Phases, AtTcp, AtRound, AtLegacy, AtProof, AtInstall, AtCrypted, AtAttach, AtUp,
       CryptAsked, CryptHeard, HeardOffer
  <2>3. Legible(down[1], rx) /\ Head(down) = down[1]
    <3>1. CASE \E op : Heard(op, rx)
      BY <3>1, AnswerRead DEF Heard
    <3>2. CASE HeardProof
      <4>1. down = <<down[1], down[2]>> /\ Legible(down[1], rx)
        BY <3>2 DEF HeardProof
      <4>2. Head(<<down[1], down[2]>>) = down[1]
        BY Two
      <4> QED
        BY <4>1, <4>2
    <3> QED
      BY <2>2, <3>1, <3>2
  <2> QED
    BY <2>3
<1> QED
  BY <1>1, <1>2 DEF InStep

\* Encryption is as both sides know it.
LEMMA IInv_Encrypted == IInv => Encrypted
<1> SUFFICES ASSUME IInv PROVE Encrypted
  OBVIOUS
<1>1. pc \in {"attach", "up"} => Protected
  BY DEF IInv, Phases, AtAttach, AtUp
<1>2. pc \in {"install", "crypted"} => rx.key # No /\ (auth.dpb = No => srv.agreed = rx.key)
  BY DEF IInv, Phases, AtInstall, AtCrypted, KeyKnown
<1>3. pc \in {"tcp", "accept", "round", "legacy", "proof"} => rx.key = No
  BY DEF IInv, Phases, AtTcp, AtAccept, AtRound, AtLegacy, AtProof, Clear, Plain
<1>4. KeysAgree
  BY <1>1, <1>2, <1>3 DEF KeysAgree, Protected, IInv, Types, Pcs
<1>5. RequiredHonoured
  BY <1>1 DEF RequiredHonoured, Protected
<1> QED
  BY <1>4, <1>5 DEF Encrypted

\* In answer to the attach the token goes out once.
Late == /\ late \in [Plugins -> 0..2] /\ (late[Legacy] = 0 \/ (late[Legacy] = 1 /\ auth.sentLegacy))

LEMMA Init_Late == Init => Late
BY Distinct DEF Init, Late

\* The flag of the token is set by the attach alone.
LEMMA FlagKept ==
    ASSUME IInv, late' = late, Late, auth'.sentLegacy = auth.sentLegacy
    PROVE  Late'
BY DEF Late

LEMMA Next_Late ==
    ASSUME IInv, Late, [Next]_vars
    PROVE  Late'
<1>0. auth \in AuthKind /\ late \in [Plugins -> 0..2]
  BY DEF IInv, Types, Late
<1>1. CASE late' = late /\ auth' = auth
  BY <1>1 DEF Late
<1>2. CASE Accepted
  <2> DEFINE a == [auth EXCEPT !.plugin = IF Ans.plugin # No THEN Ans.plugin ELSE @]
             l == [a EXCEPT !.plugin = Legacy, !.fallback = TRUE, !.pending = TRUE]
             s == [a EXCEPT !.key = a.plugin, !.attempted = {a.plugin}, !.pending = TRUE]
  <2>1. auth'.sentLegacy = auth.sentLegacy
    <3>1. \/ auth' = a \/ auth' = l \/ auth' = [l EXCEPT !.dpb = "token"] \/ auth' = s
          \/ auth' = [s EXCEPT !.dpb = "proof"] \/ auth' = [a EXCEPT !.rounds = 1] \/ auth' = [a EXCEPT !.pending = TRUE]
      BY <1>2 DEF Accepted, Authenticated, ContAuth
    <3>2. a.sentLegacy = auth.sentLegacy /\ l.sentLegacy = auth.sentLegacy /\ s.sentLegacy = auth.sentLegacy
      BY <1>0 DEF AuthKind
    <3>3. /\ [l EXCEPT !.dpb = "token"].sentLegacy = auth.sentLegacy
          /\ [s EXCEPT !.dpb = "proof"].sentLegacy = auth.sentLegacy
          /\ [a EXCEPT !.rounds = 1].sentLegacy = auth.sentLegacy
          /\ [a EXCEPT !.pending = TRUE].sentLegacy = auth.sentLegacy
      BY <1>0 DEF AuthKind
    <3> HIDE DEF a, l, s
    <3> QED
      BY <3>1, <3>2, <3>3
  <2> QED
    BY <1>2, <2>1, FlagKept DEF Accepted
<1>3. CASE Round
  <2>1. auth'.sentLegacy = auth.sentLegacy
    BY <1>0, <1>3 DEF Round, ContAuth, AuthKind
  <2> QED
    BY <1>3, <2>1, FlagKept DEF Round
<1>4. CASE ProofAgain
  <2>1. auth'.sentLegacy = auth.sentLegacy
    BY <1>0, <1>4 DEF ProofAgain, ContAuth, FallBack, AuthKind
  <2> QED
    BY <1>4, <2>1, FlagKept DEF ProofAgain
<1>5. CASE AttachAuth
  <2> DEFINE p == IF Ans.plugin # No THEN Ans.plugin ELSE auth.plugin
             l == [auth EXCEPT !.plugin = Legacy, !.fallback = TRUE, !.sentLegacy = TRUE]
  <2>1. \/ late' = late /\ auth' = auth
        \/ ~auth.sentLegacy /\ auth' = l /\ Proves(Legacy)
        \/ p # Legacy /\ auth' = auth /\ Proves(p)
    BY <1>5 DEF AttachAuth, ContAuth
  <2>2. CASE ~auth.sentLegacy /\ auth' = l /\ Proves(Legacy)
    <3>1. auth'.sentLegacy
      BY <1>0, <2>2 DEF AuthKind
    <3>2. late[Legacy] = 0
      BY <2>2 DEF Late
    <3>3. late' \in [Plugins -> 0..2] /\ late'[Legacy] = 1
      BY <1>0, <2>2, <3>2, Distinct DEF Proves, Count
    <3> QED
      BY <3>1, <3>3 DEF Late
  <2>3. CASE p # Legacy /\ auth' = auth /\ Proves(p)
    <3> HIDE DEF p
    <3>1. late' = [late EXCEPT ![p] = Count(@)] /\ Legacy \in Plugins
      BY <2>3, Distinct DEF Proves
    <3>2. \A k \in 0..2 : Count(k) \in 0..2
      BY DEF Count
    <3>3. late' \in [Plugins -> 0..2] /\ late'[Legacy] = late[Legacy]
      BY <1>0, <2>3, <3>1, <3>2
    <3> QED
      BY <2>3, <3>3 DEF Late
  <2> QED
    BY <1>1, <2>1, <2>2, <2>3
<1>6. CASE AuthAnswered
  <2>1. auth' = auth /\ late' = late
    BY <1>6 DEF AuthAnswered, Authenticated
  <2> QED
    BY <1>1, <2>1
<1>7. CASE TcpConnects \/ GivesUp \/ Install \/ CryptAnswered \/ Attached \/ Thrown \/ Drain \/ UNCHANGED vars
  BY <1>1, <1>7 DEF TcpConnects, GivesUp, Install, CryptAnswered, Attached, Thrown, Drain, Fail, vars
<1>8. CASE Server
  BY <1>1, <1>8 DEF Server, SrvAccepts, SrvAuth, SrvCrypts, SrvAttaches, SrvRefuses, SrvDrops, Offers, Answers, Fail
<1> QED
  BY <1>2, <1>3, <1>4, <1>5, <1>6, <1>7, <1>8 DEF Next, GoesOn

\* The attempts are counted.
LEMMA Counted == IInv /\ Late => ProvedOnce
<1> SUFFICES ASSUME IInv, Late PROVE ProvedOnce
  OBVIOUS
<1>1. TypeOK
  BY DEF IInv, Types, Pcs, AuthKind, LayersKind, SrvKind, Keys, TypeOK
<1>2. OneProof
  BY DEF IInv, Types, Late, OneProof
<1>3. GivenAChance
  BY DEF IInv, Chances, HadAChance, GivenAChance
<1> QED
  BY <1>1, <1>2, <1>3 DEF ProvedOnce

\* Whatever is negotiated, the packet the server reads next went through the layers the
\* server has, and what the client reads went through those of the client:
\* enableCompression() and installCrypt() switch each direction between the right packets.
THEOREM PacketsInStep == Spec => []InStep
<1>1. IInv /\ [Next]_vars => IInv'
  BY Next_IInv
<1> QED
  BY <1>1, Init_IInv, IInv_InStep, PTL DEF Spec

\* Client and server encrypt with the key of the same confirmed proof, also after the
\* fall back to Legacy_Auth, and no attach goes out in the clear when wireCrypt is
\* 'required': performHandshake() has no path around it.
THEOREM EncryptedAsAsked == Spec => []Encrypted
<1>1. IInv /\ [Next]_vars => IInv'
  BY Next_IInv
<1> QED
  BY <1>1, Init_IInv, IInv_Encrypted, PTL DEF Spec

\* In the handshake no plugin is sent a second proof or token, whatever the server offers
\* and how often, in answer to the attach the token is sent once, and a login is given up
\* only over a plugin that was sent a proof or at least the public key.
THEOREM OneAttemptEach == Spec => []ProvedOnce
<1>1. IInv /\ [Next]_vars => IInv'
  BY Next_IInv
<1>2. IInv /\ Late /\ [Next]_vars => Late'
  BY Next_Late
<1> QED
  BY <1>1, <1>2, Init_IInv, Init_Late, Counted, PTL DEF Spec
=============================================================================
