---------------------------- MODULE Distribution ----------------------------
(***************************************************************************)
(* sync/distribute: a Distributor on one node sends work packages to a     *)
(* Peer on another and fetches artifacts from it.  Calls of the            *)
(* Distributor and sessions of the Peer run concurrently, and all that run *)
(* on a node read the one inbox the wire gives the node.                   *)
(*                                                                         *)
(* Both ends are parties that send or receive a payload with the protocol  *)
(* of sync/transfer: hello, an offer (empty: the receiver is new), the     *)
(* chunks, close.  A manifest is the payload itself, for its hashes decide *)
(* which data are accepted.                                                *)
(***************************************************************************)
EXTENDS Wire, FiniteSets

CONSTANTS
    Packages,     \* the work packages callers distribute: [id, body]
    Published,    \* id -> payload of the artifacts the peer has published
    Wanted,       \* ids of the artifacts callers fetch, published or not
    Calls,        \* bound: calls of Distribute and FetchArtifact, in their order
    Sessions,     \* bound: calls of Peer.Serve, in their order
    MaxDrops,     \* bound: injected failures
    Nil           \* no payload

Artifacts == DOMAIN Published
Payloads == {p.body : p \in Packages} \cup {Published[a] : a \in Artifacts}
Ids == {p.id : p \in Packages} \cup Wanted \cup Artifacts
Data == UNION {{b[i] : i \in DOMAIN b} : b \in Payloads}

ASSUME NodeAssumption == Nodes = {"local", "remote"}
ASSUME PartyAssumption == Calls \subseteq Nat /\ Sessions \subseteq Nat /\ Calls \cap Sessions = {} /\ MaxDrops \in Nat
ASSUME PayloadAssumption ==
    /\ \A w \in Packages : w = [id |-> w.id, body |-> w.body]
    /\ \A b \in Payloads : b \in Seq(Data)
    /\ Nil \notin Payloads /\ Nil \notin Data /\ Nil \notin Ids /\ Nil \notin Calls

Parties == Calls \cup Sessions

VARIABLES
    party,      \* the calls and the sessions
    receipts,   \* Distributor.receipts: key -> the payload its hash is of
    artifacts,  \* Distributor.artifacts: id -> data
    packages,   \* Peer.packages: id -> payload
    drops,      \* failures injected so far
    quiet       \* history: the call nothing has disturbed, or Nil

stores == <<receipts, artifacts, packages>>
vars == <<wireVars, party, stores, drops, quiet>>

Here(p) == IF p \in Calls THEN "local" ELSE "remote"
There(p) == IF p \in Calls THEN "remote" ELSE "local"

\* TransferKey: the node is always the same.
Key(op, id) == [op |-> op, id |-> id]
Keys == {Key(op, id) : op \in {"distribute", "artifact"}, id \in Ids}

Hello(object, id, body) == [kind |-> "hello", object |-> object, id |-> id, body |-> body]
Request(id) == [kind |-> "request", id |-> id]
Offer(have) == [kind |-> "ack", have |-> have]
ChunkFrame(i, d) == [kind |-> "chunk", index |-> i, data |-> d]
CloseFrame == [kind |-> "close"]

Frames ==
    {Hello(o, id, b) : o \in {"workpackage", "artifact"}, id \in Ids, b \in Payloads}
    \cup {Request(id) : id \in Ids} \cup {Offer({}), CloseFrame}
    \cup UNION {{ChunkFrame(i, b[i]) : i \in DOMAIN b} : b \in Payloads}

\* op, id: what the call is for; helloId, body: what was announced to it or by
\* it; left: chunks to send; got: chunks received.
NewParty(pc, op, id, helloId, body) ==
    [pc |-> pc, op |-> op, id |-> id, helloId |-> helloId, body |-> body,
     left |-> {}, got |-> << >>, ok |-> FALSE]

Init ==
    /\ WireInit
    /\ party = [p \in Parties |-> NewParty("idle", "none", Nil, Nil, Nil)]
    /\ receipts = [k \in Keys |-> Nil]
    /\ artifacts = [a \in Ids |-> Nil]
    /\ packages = [w \in Ids |-> Nil]
    /\ drops = 0
    /\ quiet = Nil

-----------------------------------------------------------------------------
Active(p) == party[p].pc \notin {"idle", "returned"}

Become(p, rec) == party' = [party EXCEPT ![p] = rec]
GoTo(p, pc) == Become(p, [party[p] EXCEPT !.pc = pc])

\* A party that returned has no locals any more.
Returned(op, id, ok) ==
    [pc |-> "returned", op |-> op, id |-> id, helloId |-> Nil, body |-> Nil,
     left |-> {}, got |-> << >>, ok |-> ok]
Return(p, ok) == Become(p, Returned(party[p].op, party[p].id, ok))
Fail(p) == Return(p, FALSE)

\* History: the call is alone, a session waits for it and nothing is left over.
Alone(c) ==
    /\ \A d \in Calls \ {c} : ~Active(d)
    /\ \E s \in Sessions : /\ party[s].pc = "listening"
                           /\ \A t \in Sessions \ {s} : ~Active(t)
    /\ \A n \in Nodes : inbox[n] = << >> /\ fail[n] = 0

\* A call returns the receipt it finds, or goes on.
Begin(c, op, id, rec) ==
    /\ party[c].pc = "idle"
    /\ \A d \in Calls : d < c => party[d].pc # "idle"
    /\ IF receipts[Key(op, id)] # Nil
       THEN /\ Become(c, Returned(op, id, TRUE))
            /\ quiet' = Nil
       ELSE Become(c, rec) /\ quiet' = IF Alone(c) THEN c ELSE Nil
    /\ UNCHANGED <<wireVars, stores, drops>>

\* Distribute of a work package: its hello comes next.
Distribute(c, w) ==
    Begin(c, "distribute", w.id, NewParty("greeting", "distribute", w.id, w.id, w.body))

\* FetchArtifact: its request comes next.
FetchArtifact(c, a) ==
    Begin(c, "artifact", a, NewParty("requesting", "artifact", a, Nil, Nil))

\* Peer.Serve waits for the first frame of a session.
Serve(s) ==
    /\ party[s].pc = "idle"
    /\ \A t \in Sessions : t < s => party[t].pc # "idle"
    /\ Become(s, NewParty("listening", "serve", Nil, Nil, Nil))
    /\ quiet' = Nil
    /\ UNCHANGED <<wireVars, stores, drops>>

-----------------------------------------------------------------------------
\* The frame a receive would return.
Oldest(n) == {inbox[n][i] : i \in DOMAIN inbox[n] \cap {1}}

\* What comes out of the inbox when party p waits in state pc.
Take(p, pc, m) == party[p].pc = pc /\ Receive(Here(p), m)

\* Serve: the first frame of a session.
ServeHello(s, m) ==
    /\ Take(s, "listening", m)
    /\ m.kind = "hello"
    /\ IF m.object = "workpackage"
       THEN Become(s, [party[s] EXCEPT !.pc = "offering", !.helloId = m.id, !.body = m.body,
                                       !.got = [i \in DOMAIN m.body |-> Nil]])
       ELSE Fail(s)
    /\ UNCHANGED <<stores, drops, quiet>>

\* Mutant of ServeRequest: nobody asks whether the artifact exists.
ServeRequestUnchecked(s, m) ==
    /\ Take(s, "listening", m)
    /\ m.kind = "request"
    /\ Become(s, [party[s] EXCEPT !.pc = "greeting", !.helloId = m.id,
                                  !.body = IF m.id \in Artifacts THEN Published[m.id] ELSE Nil])
    /\ UNCHANGED <<stores, drops, quiet>>

ServeRequest(s, m) ==
    /\ Take(s, "listening", m)
    /\ m.kind = "request"
    /\ IF m.id \in Artifacts
       THEN Become(s, [party[s] EXCEPT !.pc = "greeting", !.helloId = m.id,
                                       !.body = Published[m.id]])
       ELSE GoTo(s, "refusing")
    /\ UNCHANGED <<stores, drops, quiet>>

ServeOther(s, m) ==
    /\ Take(s, "listening", m)
    /\ m.kind \notin {"hello", "request"}
    /\ Fail(s)
    /\ UNCHANGED <<stores, drops, quiet>>

\* FetchArtifact: the answer to the request.  It need not be for this call.
FetchHello(c, m) ==
    /\ Take(c, "expecting", m)
    /\ IF m.kind = "hello"
       THEN Become(c, [party[c] EXCEPT !.pc = "offering", !.helloId = m.id, !.body = m.body,
                                       !.got = [i \in DOMAIN m.body |-> Nil]])
       ELSE Fail(c)
    /\ UNCHANGED <<stores, drops, quiet>>

\* Mutant of AwaitOffer: the first chunk is taken for the receiver's.
AwaitOfferButFirst(p, m) ==
    /\ Take(p, "waiting", m)
    /\ IF m.kind = "ack"
       THEN Become(p, [party[p] EXCEPT !.pc = "pushing",
                                       !.left = DOMAIN party[p].body \ (m.have \cup {1})])
       ELSE Fail(p)
    /\ UNCHANGED <<stores, drops, quiet>>

\* transfer.Serve: the chunks the offer does not name have to be sent.
AwaitOffer(p, m) ==
    /\ Take(p, "waiting", m)
    /\ IF m.kind = "ack"
       THEN Become(p, [party[p] EXCEPT !.pc = "pushing", !.left = DOMAIN party[p].body \ m.have])
       ELSE Fail(p)
    /\ UNCHANGED <<stores, drops, quiet>>

\* Receiver.Run: a chunk of the manifest is kept; any other frame ends it.
Acceptable(p, m) ==
    m.kind = "chunk" /\ m.index \in DOMAIN party[p].body /\ m.data = party[p].body[m.index]

ReadChunk(p, m) ==
    /\ Take(p, "reading", m)
    /\ Acceptable(p, m)
    /\ Become(p, [party[p] EXCEPT !.got = [@ EXCEPT ![m.index] = m.data]])
    /\ UNCHANGED <<stores, drops, quiet>>

\* Mutant of ReadEnd: close is taken as the end of the payload.
ReadEndOnClose(p, m) ==
    /\ Take(p, "reading", m)
    /\ ~Acceptable(p, m)
    /\ IF m.kind = "close" THEN GoTo(p, "storing") ELSE Fail(p)
    /\ UNCHANGED <<stores, drops, quiet>>

\* Complete: nothing is missing and the payload has the manifest's hash.
ReadEnd(p, m) ==
    /\ Take(p, "reading", m)
    /\ ~Acceptable(p, m)
    /\ IF m.kind = "close" /\ party[p].got = party[p].body
       THEN GoTo(p, "storing")
       ELSE Fail(p)
    /\ UNCHANGED <<stores, drops, quiet>>

\* The context is done while the party waits for a frame.
GiveUp(p) ==
    /\ party[p].pc \in {"listening", "expecting", "waiting", "reading"}
    /\ Fail(p)
    /\ quiet' = Nil
    /\ UNCHANGED <<wireVars, stores, drops>>

-----------------------------------------------------------------------------
\* A frame is sent and the party goes on as rec.
Transmit(p, m, rec) ==
    /\ Send(There(p), m)
    /\ Become(p, rec)
    /\ UNCHANGED <<stores, drops, quiet>>

\* Distribute announces a work package, a session an artifact.
SendHello(p) ==
    /\ party[p].pc = "greeting"
    /\ Transmit(p, Hello(IF p \in Calls THEN "workpackage" ELSE "artifact",
                         party[p].helloId, party[p].body),
                [party[p] EXCEPT !.pc = "waiting"])

SendRequest(c) ==
    /\ party[c].pc = "requesting"
    /\ Transmit(c, Request(party[c].id), [party[c] EXCEPT !.pc = "expecting"])

\* An unknown artifact is answered with a close frame.
SendRefusal(s) ==
    /\ party[s].pc = "refusing"
    /\ Transmit(s, CloseFrame, Returned("serve", Nil, FALSE))

\* Receiver.Run begins with an offer; a new receiver holds nothing.
SendOffer(p) ==
    /\ party[p].pc = "offering"
    /\ Transmit(p, Offer({}), [party[p] EXCEPT !.pc = "reading"])

\* push: the next chunk.
SendChunk(p) ==
    /\ party[p].pc = "pushing"
    /\ \E i \in party[p].left :
          /\ \A j \in party[p].left : i <= j
          /\ Transmit(p, ChunkFrame(i, party[p].body[i]), [party[p] EXCEPT !.left = @ \ {i}])

\* Mutant of SendClose: the end of the chunks is not announced.
SendCloseNever(p) ==
    /\ party[p].pc = "pushing"
    /\ party[p].left = {}
    /\ Become(p, IF p \in Calls THEN [party[p] EXCEPT !.pc = "receipting"]
                 ELSE Returned("serve", Nil, TRUE))
    /\ UNCHANGED <<wireVars, stores, drops, quiet>>

\* Nobody confirms the close frame: a session is done, and Distribute goes on to
\* its receipt.
SendClose(p) ==
    /\ party[p].pc = "pushing"
    /\ party[p].left = {}
    /\ Transmit(p, CloseFrame,
                IF p \in Calls THEN [party[p] EXCEPT !.pc = "receipting"]
                ELSE Returned("serve", Nil, TRUE))

SendStep(p) ==
    \/ SendHello(p)
    \/ SendRequest(p)
    \/ SendRefusal(p)
    \/ SendOffer(p)
    \/ SendChunk(p)
    \/ SendClose(p)

\* A send that fails ends the call or the session.
SendFrameFails(p) ==
    /\ party[p].pc \in {"greeting", "requesting", "refusing", "offering", "pushing"}
    /\ SendFails(There(p))
    /\ Fail(p)
    /\ quiet' = Nil
    /\ UNCHANGED <<stores, drops>>

-----------------------------------------------------------------------------
\* The peer files a work package under the id of its hello.
StorePackage(s) ==
    /\ s \in Sessions
    /\ party[s].pc = "storing"
    /\ packages' = [packages EXCEPT ![party[s].helloId] = party[s].got]
    /\ Return(s, TRUE)
    /\ UNCHANGED <<wireVars, receipts, artifacts, drops, quiet>>

\* FetchArtifact files the data under the id it asked for.
StoreArtifact(c) ==
    /\ c \in Calls
    /\ party[c].pc = "storing"
    /\ artifacts' = [artifacts EXCEPT ![party[c].id] = party[c].got]
    /\ GoTo(c, "receipting")
    /\ UNCHANGED <<wireVars, receipts, packages, drops, quiet>>

\* store: the receipt carries the manifest's hash.  (Distribute also records the
\* package in its own packages, which only Package and Packages read.)
StoreReceipt(c) ==
    /\ party[c].pc = "receipting"
    /\ receipts' = [receipts EXCEPT ![Key(party[c].op, party[c].id)] = party[c].body]
    /\ Return(c, TRUE)
    /\ UNCHANGED <<wireVars, artifacts, packages, drops, quiet>>

DropLink(n) ==
    /\ drops < MaxDrops
    /\ FailNext(n)
    /\ drops' = drops + 1
    /\ UNCHANGED <<party, stores, quiet>>

ReceiveStep(p) ==
    \E m \in Oldest(Here(p)) :
        \/ p \in Sessions /\ (ServeHello(p, m) \/ ServeRequest(p, m) \/ ServeOther(p, m))
        \/ p \in Calls /\ FetchHello(p, m)
        \/ AwaitOffer(p, m)
        \/ ReadChunk(p, m)
        \/ ReadEnd(p, m)

Step(p) ==
    \/ ReceiveStep(p)
    \/ SendStep(p)
    \/ SendFrameFails(p)
    \/ StorePackage(p)
    \/ StoreArtifact(p)
    \/ StoreReceipt(p)

Next ==
    \/ \E c \in Calls, w \in Packages : Distribute(c, w)
    \/ \E c \in Calls, a \in Wanted : FetchArtifact(c, a)
    \/ \E s \in Sessions : Serve(s)
    \/ \E p \in Parties : Step(p)
    \/ \E p \in Parties : GiveUp(p)
    \/ \E n \in Nodes : DropLink(n)

Spec == Init /\ [][Next]_vars

\* Every goroutine that can run does.  Nothing makes a caller call, a node serve,
\* a context expire or a link fail.
Fairness == \A p \in Parties : WF_vars(Step(p))

FairSpec == Spec /\ Fairness

-----------------------------------------------------------------------------
PartyTypes ==
    [pc : {"idle", "listening", "requesting", "expecting", "greeting", "waiting", "pushing",
           "refusing", "offering", "reading", "storing", "receipting", "returned"},
     op : {"none", "distribute", "artifact", "serve"}, id : Ids \cup {Nil},
     helloId : Ids \cup {Nil}, body : Payloads \cup {Nil}, left : SUBSET Nat,
     got : Seq(Data \cup {Nil}), ok : BOOLEAN]

\* The wire, the parties and the stores have their types.
TypeOK ==
    /\ WireTypeOK(Frames)
    /\ party \in [Parties -> PartyTypes]
    /\ receipts \in [Keys -> Payloads \cup {Nil}]
    /\ artifacts \in [Ids -> Seq(Data \cup {Nil}) \cup {Nil}]
    /\ packages \in [Ids -> Seq(Data \cup {Nil}) \cup {Nil}]
    /\ drops \in 0 .. MaxDrops
    /\ quiet \in Calls \cup {Nil}

\* However the frames of concurrent, failed and abandoned exchanges mix, the peer
\* holds a work package only whole and under the id it was distributed by, and an
\* artifact that was fetched is a whole published one.
StoredPayloadsAreWhole ==
    /\ \A w \in Ids : packages[w] # Nil => [id |-> w, body |-> packages[w]] \in Packages
    /\ \A a \in Ids : artifacts[a] # Nil => \E b \in Artifacts : artifacts[a] = Published[b]

\* What a hello on the way to a node announces: the remote node is told of work
\* packages to come, the local one of published artifacts.
IsPackage(id, body) == [id |-> id, body |-> body] \in Packages
IsArtifact(id, body) == id \in Artifacts /\ body = Published[id]

HelloIsTrue(n, m) ==
    m.kind = "hello" =>
        IF n = "remote" THEN m.object = "workpackage" /\ IsPackage(m.id, m.body)
        ELSE m.object = "artifact" /\ IsArtifact(m.id, m.body)

\* A party sends what it has, receives what was announced, and stores what it
\* was promised.
PartyIsSound(p, r) ==
    /\ r.pc = "greeting" => IF p \in Calls THEN IsPackage(r.helloId, r.body)
                            ELSE IsArtifact(r.helloId, r.body)
    /\ r.pc \in {"offering", "reading", "storing"} =>
          IF p \in Calls THEN \E a \in Artifacts : r.body = Published[a]
          ELSE IsPackage(r.helloId, r.body)
    /\ r.pc \in {"waiting", "pushing", "receipting"} => r.body \in Payloads
    /\ r.pc = "pushing" => r.left \subseteq DOMAIN r.body
    /\ r.pc = "storing" => r.got = r.body
    /\ p \in Calls /\ r.pc # "idle" => r.op \in {"distribute", "artifact"} /\ r.id \in Ids
    /\ p \in Calls => r.pc \notin {"listening", "refusing"}
    /\ p \in Sessions => r.pc \notin {"requesting", "expecting", "receipting"}

\* The inductive invariant of the safety part.
Inv ==
    /\ TypeOK
    /\ \A n \in Nodes : \A i \in DOMAIN inbox[n] : HelloIsTrue(n, inbox[n][i])
    /\ \A p \in Parties : PartyIsSound(p, party[p])
    /\ StoredPayloadsAreWhole

\* An exchange that nothing disturbs succeeds: a published artifact is fetched
\* under its own id, an unknown one is not, and a distributed package is stored or
\* in the hands of the session.
UndisturbedExchangesDeliver ==
    \A c \in Calls : quiet = c /\ party[c].pc = "returned" =>
        LET me == party[c] IN
        /\ me.op = "artifact" /\ me.id \in Artifacts =>
              me.ok /\ artifacts[me.id] = Published[me.id]
        /\ me.op = "artifact" /\ me.id \notin Artifacts => ~me.ok
        /\ me.op = "distribute" =>
              /\ me.ok
              /\ LET sent == receipts[Key("distribute", me.id)] IN
                 \/ packages[me.id] = sent
                 \/ \E s \in Sessions : Active(s) /\ party[s].helloId = me.id
                                        /\ party[s].body = sent

\* Neither end of an undisturbed exchange waits for ever.
UndisturbedExchangesEnd ==
    \A c \in Calls : quiet = c ~> (quiet # c \/ \A p \in Parties : ~Active(p))

\* The comment on ArtifactData: it returns the bytes of a fetched artifact.
FetchedArtifactsAreTheirOwn ==
    \A a \in Artifacts : artifacts[a] # Nil => artifacts[a] = Published[a]
=============================================================================
