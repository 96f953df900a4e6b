------------------------------- MODULE Connect ------------------------------
(***************************************************************************)
(* Opening a connection: the TCP connect and the layers of transport.ts,   *)
(* the negotiation and authentication of handshake.ts, and the attach that *)
(* follows (attach.ts, Attachment.establish, Service.connect). One packet  *)
(* is answered by one; which answer is the server's choice, and whether it *)
(* comes at all. Its accounts are the plugins the password is right for.   *)
(*                                                                         *)
(* A packet is what it says and the layers it went through. `pending` is   *)
(* what the deflater holds, `up` and `down` what is under way. Proofs and  *)
(* keys are named by the plugin they were computed for.                    *)
(*                                                                         *)
(* ChecksNothing, Unbounded, KeepsKey, OffersTwice, RefusesOthers and      *)
(* InstallAtOnce are what a slip would make of what they precede.          *)
(***************************************************************************)
EXTENDS Naturals, Sequences, FiniteSets

CONSTANTS
    Crypts,         \* the client's wireCrypt, a subset of {"disabled", "enabled", "required"}
    FirstPlugins,   \* the client's authPlugin, of Plugins
    Ciphers,        \* its wireCryptPlugin, of {"Arc4", "ChaCha"}
    Accounts        \* sets of plugins the password may be right for

Srps == {"Srp256", "Srp"}
Legacy == "Legacy"
Plugins == Srps \cup {Legacy}

ASSUME ConnectAssumption ==
    /\ Crypts \subseteq {"disabled", "enabled", "required"}
    /\ FirstPlugins \subseteq Plugins /\ Ciphers \subseteq {"Arc4", "ChaCha"}
    /\ Accounts \subseteq SUBSET Plugins

VARIABLES
    cfg,        \* what the client asks for, and what the server is configured to
    pc,         \* where the client is
    auth,       \* its plugin, the data it holds, what it sent, and its session key
    tx, rx,     \* its layers: deflater or inflater, and cipher key
    pending,    \* in the deflater
    up, down,   \* packets between them
    srv,        \* the server: its layers, the key agreed, whether it knows the client
    proofs,     \* how many proofs or tokens were sent for each plugin in the handshake
    late        \* and in answer to the attach, counted to 2

vars == <<cfg, pc, auth, tx, rx, pending, up, down, srv, proofs, late>>

No == "no"
Plain == [z |-> FALSE, key |-> No]
Over(pcs) == pc \in pcs

Init ==
    /\ cfg \in [crypt : Crypts, plugin : FirstPlugins, cipher : Ciphers, compress : BOOLEAN,
                accounts : Accounts, keys : {{}, {"Arc4"}}, srvCrypt : BOOLEAN, iv : BOOLEAN]
    /\ pc = "tcp"
    /\ auth = [plugin |-> cfg.plugin, attempted |-> {}, keyed |-> {}, key |-> No, rounds |-> 0, dpb |-> No,
               fallback |-> FALSE, pending |-> FALSE, sentLegacy |-> FALSE, refused |-> No]
    /\ tx = Plain /\ rx = Plain /\ pending = <<>> /\ up = <<>> /\ down = <<>>
    /\ srv = [layers |-> Plain, agreed |-> No, known |-> FALSE, attaching |-> FALSE]
    /\ proofs = [p \in Plugins |-> 0] /\ late = [p \in Plugins |-> 0]

-----------------------------------------------------------------------------
(* The layers: packet, deflate, encrypt, socket. *)

Msg(op, plugin, what) == [op |-> op, plugin |-> plugin, what |-> what]
Layered(m, layers) == [m |-> m, z |-> layers.z, key |-> layers.key]

\* flush(): with compression on, the packet is the deflater's first.
Sends(m, t) ==
    IF t.z THEN pending' = Append(pending, m) /\ UNCHANGED up
    ELSE up' = Append(up, Layered(m, t)) /\ UNCHANGED pending

\* What the deflater emits is encrypted if the cipher is in place by then.
Drain ==
    /\ pending # <<>>
    /\ up' = Append(up, Layered(Head(pending), tx))
    /\ pending' = Tail(pending)
    /\ UNCHANGED <<cfg, pc, auth, tx, rx, down, srv, proofs, late>>

\* A packet that came through other layers than its reader has is garbage.
Legible(p, layers) == p.z = layers.z /\ p.key = layers.key

Got(op) == down # <<>> /\ Head(down).m.op = op
Ans == Head(down).m

\* The wire is closed and the error thrown.
Fail == pc' = "failed" /\ UNCHANGED <<cfg, auth, tx, rx, pending, up, down, srv, proofs, late>>
Unsent == UNCHANGED <<tx, rx, pending, up>>

-----------------------------------------------------------------------------
(* Connecting, and what the server offers first. *)

ConnectPacket == Msg("connect", cfg.plugin, IF cfg.plugin = Legacy THEN "token" ELSE "public")

TcpConnects ==
    /\ pc = "tcp"
    /\ pc' = "accept"
    /\ Sends(ConnectPacket, tx)
    /\ UNCHANGED <<cfg, auth, tx, rx, down, srv, proofs, late>>

\* The socket fails, or connectTimeoutMs has passed: it covers the TCP connect and, through
\* withTimeout(), the rest of establish(); Service.connect() has no timer for the rest.
GivesUp == ~Over({"up", "failed"}) /\ Fail

\* selectCryptPlugin(): what the server advertises limits what is asked for.
Cipher ==
    IF cfg.keys = {} \/ cfg.cipher \in cfg.keys THEN cfg.cipher
    ELSE IF "Arc4" \in cfg.keys THEN "Arc4" ELSE No

AttachPacket(a) == Msg("attach", a.plugin, a.dpb)

ChecksNothing(a) == TRUE
RequirementMet(a) == cfg.crypt # "required"

\* Authentication is over. op_crypt is sent when it is wanted and there is a key,
\* else op_attach; ChaCha without an IV fails when op_crypt is sent. installCrypt()
\* decrypts from then on, and encrypts once the deflater has emitted op_crypt.
Authenticated(a, iv, t) ==
    LET crypts == cfg.crypt # "disabled" /\ a.key # No /\ Cipher # No
        keyed == [t EXCEPT !.key = a.key]
    IN
    /\ auth' = a
    /\ IF crypts
       THEN /\ pc' = IF Cipher = "ChaCha" /\ ~iv THEN "failed" ELSE IF t.z THEN "install" ELSE "crypted"
            /\ rx' = keyed /\ tx' = IF t.z THEN t ELSE keyed
            /\ Sends(Msg("crypt", a.plugin, Cipher), t)
       ELSE /\ tx' = t /\ rx' = t
            /\ IF RequirementMet(a)
               THEN pc' = "attach" /\ Sends(AttachPacket(a), t)
               ELSE pc' = "failed" /\ UNCHANGED <<pending, up>>

\* Every round of op_cont_auth: the public key, a proof or the token.
ContAuth(a, what, next, t) ==
    /\ auth' = a
    /\ pc' = next
    /\ tx' = t /\ rx' = t
    /\ Sends(Msg("contAuth", a.plugin, what), t)

Count(k) == IF k < 2 THEN k + 1 ELSE k
Proved(p) == proofs' = [proofs EXCEPT ![p] = Count(@)]

\* readAccept() and the choice of a path: trusted, Legacy_Auth, salt and key at
\* hand, or rounds to come; the token or the proof goes into the attach's
\* parameters unless the server waits for it now.
Accepted ==
    LET a == [auth EXCEPT !.plugin = IF Ans.plugin # No THEN Ans.plugin ELSE @]
        cond == Ans.what.cond
        t == [tx EXCEPT !.z = Ans.what.z]    \* enableCompression()
    IN
    /\ pc = "accept" /\ Got("accept")
    /\ down' = Tail(down)
    /\ UNCHANGED <<cfg, srv, late>>
    /\ IF Ans.what.trusted
       THEN Authenticated(a, FALSE, t) /\ UNCHANGED proofs
       ELSE IF Legacy \in {cfg.plugin, a.plugin}
       THEN LET l == [a EXCEPT !.plugin = Legacy, !.fallback = TRUE, !.pending = TRUE] IN
            IF cond THEN ContAuth(l, "token", "legacy", t) /\ Proved(Legacy)
            ELSE Authenticated([l EXCEPT !.dpb = "token"], FALSE, t) /\ UNCHANGED proofs
       ELSE IF Ans.what.salt
       THEN LET s == [a EXCEPT !.key = a.plugin, !.attempted = {a.plugin}, !.pending = TRUE] IN
            IF cond THEN ContAuth(s, "proof", "proof", t) /\ Proved(a.plugin)
            ELSE Authenticated([s EXCEPT !.dpb = "proof"], FALSE, t) /\ Proved(a.plugin)
       ELSE IF cond
       THEN ContAuth([a EXCEPT !.rounds = 1], "public", "round", t) /\ UNCHANGED proofs
       ELSE Authenticated([a EXCEPT !.pending = TRUE], FALSE, t) /\ UNCHANGED proofs

-----------------------------------------------------------------------------
(* Rounds of authentication. *)

Unbounded(a) == FALSE
Diverges(a) == a.rounds > 4

\* Rounds until the server has sent salt and key, or steered to Legacy_Auth.
Round ==
    LET a == [auth EXCEPT !.plugin = IF Ans.plugin # No THEN Ans.plugin ELSE @, !.rounds = IF @ < 5 THEN @ + 1 ELSE @] IN
    /\ pc = "round" /\ Got("contAuth")
    /\ down' = Tail(down)
    /\ UNCHANGED <<cfg, srv, late>>
    /\ IF a.plugin = Legacy
       THEN ContAuth([a EXCEPT !.fallback = TRUE, !.pending = TRUE], "token", "legacy", tx) /\ Proved(Legacy)
       ELSE IF Ans.what.salt
       THEN /\ ContAuth([a EXCEPT !.key = a.plugin, !.attempted = {a.plugin}, !.pending = TRUE],
                        "proof", "proof", tx)
            /\ Proved(a.plugin)
       ELSE IF Diverges(a)
       THEN auth' = a /\ pc' = "failed" /\ Unsent /\ UNCHANGED proofs
       ELSE ContAuth(a, "public", "round", tx) /\ UNCHANGED proofs

\* drainLegacyResponse() and the proof loop: op_response ends authentication.
AuthAnswered ==
    /\ pc \in {"legacy", "proof"} /\ Got("response")
    /\ down' = Tail(down)
    /\ Authenticated(auth, Ans.what.iv /\ pc = "proof", tx)
    /\ UNCHANGED <<cfg, srv, proofs, late>>

KeepsKey(a) == [a EXCEPT !.plugin = Legacy, !.fallback = TRUE]

\* The server turns from SRP to Legacy_Auth: no key of SRP was confirmed.
FallBack(a) == [a EXCEPT !.plugin = Legacy, !.fallback = TRUE, !.key = No]

OffersTwice(a, p) == FALSE
RefusesOthers(a, p) == a.attempted # {}
Refused(a, p) == a.fallback \/ p \in a.attempted

\* The proof loop is offered more: the server's own proof, which is ignored, or a
\* plugin, which gets one attempt.
ProofAgain ==
    LET p == IF Ans.plugin # No THEN Ans.plugin ELSE auth.plugin
        a == [auth EXCEPT !.attempted = @ \cup {p}]
    IN
    /\ pc \in {"legacy", "proof"} /\ Got("contAuth")
    /\ down' = Tail(down)
    /\ UNCHANGED <<cfg, srv, late>>
    /\ IF pc = "legacy"
       THEN pc' = "failed" /\ auth' = [auth EXCEPT !.refused = Legacy] /\ Unsent /\ UNCHANGED proofs
       ELSE IF ~auth.fallback /\ ~Ans.what.salt /\ p = auth.plugin
       THEN Unsent /\ UNCHANGED <<auth, pc, proofs>>
       ELSE IF Refused(auth, p)
       THEN /\ pc' = "failed" /\ auth' = [auth EXCEPT !.refused = IF @ = No /\ auth.fallback THEN Legacy ELSE p]
            /\ Unsent /\ UNCHANGED proofs
       ELSE IF p = Legacy
       THEN ContAuth(FallBack(a), "token", "proof", tx) /\ Proved(Legacy)
       ELSE IF ~Ans.what.salt
       THEN ContAuth([a EXCEPT !.plugin = p, !.keyed = @ \cup {p}], "public", "proof", tx) /\ UNCHANGED proofs
       ELSE ContAuth([a EXCEPT !.plugin = p, !.key = p], "proof", "proof", tx) /\ Proved(p)

-----------------------------------------------------------------------------
(* Encryption and the attach. *)

InstallAtOnce(p) == TRUE

\* The barrier: the deflater has emitted op_crypt.
Flushed(p) == p = <<>>

Install ==
    /\ pc = "install" /\ Flushed(pending)
    /\ tx' = [tx EXCEPT !.key = auth.key]
    /\ pc' = "crypted"
    /\ UNCHANGED <<cfg, auth, rx, pending, up, down, srv, proofs, late>>

CryptAnswered ==
    /\ pc = "crypted" /\ Got("response")
    /\ down' = Tail(down)
    /\ pc' = "attach"
    /\ Sends(AttachPacket(auth), tx)
    /\ UNCHANGED <<cfg, auth, tx, rx, srv, proofs, late>>

Attached ==
    /\ pc = "attach" /\ Got("response")
    /\ down' = Tail(down) /\ pc' = "up"
    /\ UNCHANGED <<cfg, auth, tx, rx, pending, up, srv, proofs, late>>

Proves(p) == late' = [late EXCEPT ![p] = Count(@)]

\* readResponseWithAuth(): authentication goes on in answer to the attach. The
\* token is sent once; a proof whenever salt and key come, as often as they do.
AttachAuth ==
    LET p == IF Ans.plugin # No THEN Ans.plugin ELSE auth.plugin IN
    /\ pc = "attach" /\ Got("contAuth")
    /\ down' = Tail(down)
    /\ UNCHANGED <<cfg, srv, proofs>>
    /\ IF ~auth.pending \/ ((p = Legacy \/ auth.fallback) /\ auth.sentLegacy)
       THEN pc' = "failed" /\ Unsent /\ UNCHANGED <<auth, late>>
       ELSE IF p = Legacy \/ auth.fallback
       THEN /\ ContAuth([auth EXCEPT !.plugin = Legacy, !.fallback = TRUE, !.sentLegacy = TRUE], "token", "attach", tx)
            /\ Proves(Legacy)
       ELSE /\ Sends(Msg("contAuth", p, IF Ans.what.salt THEN "proof" ELSE "public"), tx)
            /\ IF Ans.what.salt THEN Proves(p) ELSE UNCHANGED late
            /\ UNCHANGED <<auth, pc, tx, rx>>

\* Any answer but those expected, an error above all, throws.
Thrown ==
    /\ ~Over({"tcp", "install", "up", "failed"}) /\ Got("error")
    /\ Fail

\* What the client does with the answers it gets.
GoesOn ==
    \/ Accepted \/ Round \/ AuthAnswered \/ ProofAgain \/ Install \/ CryptAnswered \/ Attached
    \/ AttachAuth \/ Thrown \/ Drain

-----------------------------------------------------------------------------
(* The server, as the client may find it. *)

Asked(op) == up # <<>> /\ Head(up).m.op = op /\ down = <<>>
Req == Head(up).m

\* It answers with packets in its layers as they are then.
Answers(ms, s) ==
    /\ down' = [k \in DOMAIN ms |-> Layered(ms[k], s.layers)]
    /\ srv' = s
    /\ up' = Tail(up)
    /\ UNCHANGED <<cfg, pc, auth, tx, rx, pending, proofs, late>>

Error == Msg("error", No, No)
Response == Msg("response", No, [iv |-> cfg.iv])
Offer(p, salt) == Msg("contAuth", p, [salt |-> salt])

\* op_accept, op_accept_data or op_cond_accept; compression is on from then on.
SrvAccepts ==
    /\ Asked("connect")
    /\ \E z \in {FALSE, cfg.compress}, trusted, cond, salt \in BOOLEAN, p \in Plugins :
        /\ salt => p \in Srps /\ p = Req.plugin
        /\ LET what == [z |-> z, trusted |-> trusted, cond |-> cond, salt |-> salt]
               m == Msg("accept", p, what)
           IN /\ down' = <<Layered(m, Plain)>>
              /\ srv' = [srv EXCEPT !.layers.z = z, !.known = trusted]
              /\ up' = Tail(up)
              /\ UNCHANGED <<cfg, pc, auth, tx, rx, pending, proofs, late>>

\* Wrong credentials are answered with another offer, of any plugin and as often as the
\* server likes, or an error. In the handshake an offer of the plugin at work without salt
\* and key would be the server's own proof, which does not come alone.
Offers(s) ==
    \E p \in Plugins, salt \in BOOLEAN :
        /\ salt => p \in Srps
        /\ pc = "proof" /\ p \in Srps /\ p = auth.plugin => salt
        /\ Answers(<<Offer(p, salt)>>, s)

SrvAuth ==
    /\ Asked("contAuth")
    /\ LET knows == [srv EXCEPT !.known = TRUE, !.agreed = IF Req.what = "proof" THEN Req.plugin ELSE No]
           right == Req.what # "public" /\ Req.plugin \in cfg.accounts
       IN \/ ~right /\ Offers(srv)
          \/ right /\ Answers(<<Response>>, knows)
          \/ right /\ Req.what = "proof" /\ ~srv.attaching /\ Answers(<<Offer(No, FALSE), Response>>, knows)

SrvCrypts ==
    /\ Asked("crypt") /\ cfg.srvCrypt /\ srv.agreed # No
    /\ Answers(<<Response>>, [srv EXCEPT !.layers.key = srv.agreed])

SrvAttaches ==
    /\ Asked("attach")
    /\ LET s == [srv EXCEPT !.attaching = TRUE]
           right == srv.known \/ (Req.what # No /\ (IF Req.what = "token" THEN Legacy ELSE Req.plugin) \in cfg.accounts)
       IN IF right THEN Answers(<<Response>>, s) ELSE Offers(s)

SrvRefuses == up # <<>> /\ down = <<>> /\ Req.op # "crypt" /\ Answers(<<Error>>, srv)

\* An op_crypt it does not want makes it drop the connection instead.
SrvDrops == Asked("crypt") /\ ~(cfg.srvCrypt /\ srv.agreed # No) /\ ~Over({"up", "failed"}) /\ Fail

Server == SrvAccepts \/ SrvAuth \/ SrvCrypts \/ SrvAttaches \/ SrvRefuses \/ SrvDrops

Next == TcpConnects \/ GivesUp \/ GoesOn \/ Server

\* The client goes on with what it gets and the server answers, whatever it answers; the
\* deadline need not pass.
Spec == Init /\ [][Next]_vars /\ WF_vars(GoesOn) /\ WF_vars(Server)

-----------------------------------------------------------------------------
TypeOK ==
    /\ pc \in {"tcp", "accept", "round", "legacy", "proof", "install", "crypted", "attach", "up", "failed"}
    /\ auth.plugin \in Plugins /\ auth.attempted \subseteq Plugins /\ auth.key \in Srps \cup {No}
    /\ auth.rounds \in 0..5 /\ {tx.key, rx.key, srv.agreed} \subseteq Srps \cup {No}

\* What arrives is read through the layers it was sent with: compression begins
\* with the packet after the accept, the client's encryption with the packet after
\* op_crypt, though the answer to op_crypt comes encrypted already.
InStep ==
    /\ up # <<>> /\ pc # "failed" => Legible(Head(up), srv.layers)
    /\ down # <<>> /\ pc \notin {"accept", "failed"} => Legible(Head(down), rx)

\* Encryption begins with the key of the plugin that authenticated, never with that
\* of a proof the server has rejected; a proof that rides in the attach is confirmed
\* only then.
KeysAgree ==
    /\ rx.key # No /\ pc # "failed" /\ (auth.dpb = No \/ pc \in {"attach", "up"}) => rx.key = srv.agreed
    /\ pc \in {"attach", "up"} => tx.key = rx.key

\* wireCrypt 'required': no attach, and with it no statement, goes out in the clear.
RequiredHonoured == cfg.crypt = "required" /\ pc \in {"attach", "up"} => tx.key # No

\* Encryption is what was asked for, with a key that both sides have.
Encrypted == KeysAgree /\ RequiredHonoured

\* In the handshake each plugin gets one proof attempt, however often the server offers it;
\* in answer to the attach that holds of the token of Legacy_Auth only.
OneProof == (\A p \in Plugins : proofs[p] <= 1) /\ late[Legacy] <= 1

\* And a login is given up only over a plugin that had its attempt, or was sent at least
\* the public key.
GivenAChance == auth.refused # No => proofs[auth.refused] = 1 \/ auth.refused \in auth.keyed

\* Every plugin that is tried is tried once.
ProvedOnce == TypeOK /\ OneProof /\ GivenAChance

\* "Each plugin gets exactly ONE proof attempt [...] a re-offer of an already-attempted
\* plugin means authentication failed - stop, don't proof again forever"
\* (handshake.ts:266-269): while attaching as well.
NotForever == \A p \in Plugins : late[p] <= 1

\* "re-offer our public key, the salt+key for the new plugin follow in the next round"
\* (handshake.ts:309-310): a plugin whose public key was sent is not refused unproved.
SwitchFollowed == auth.refused # No => proofs[auth.refused] = 1

\* Client and server do not go round for ever: with no deadline at all the handshake ends,
\* however often the server asks for another round or offers another plugin.
Talking == {"accept", "round", "legacy", "proof", "install", "crypted"}
Concludes == pc \in Talking ~> pc \in {"attach", "up", "failed"}
=============================================================================
