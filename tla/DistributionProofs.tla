------------------------- MODULE DistributionProofs -------------------------
(***************************************************************************)
(* The safety part of Distribution for every set of packages and published *)
(* artifacts, any number of calls and sessions and every inbox capacity.   *)
(***************************************************************************)
EXTENDS Distribution, TLAPS

\* Payloads are sequences of data, and packages and artifacts have ids.
LEMMA PayloadFacts ==
    /\ \A b \in Payloads : b \in Seq(Data) /\ b # Nil
    /\ \A w \in Packages : w.id \in Ids /\ w.body \in Payloads /\ IsPackage(w.id, w.body)
    /\ \A a \in Artifacts : a \in Ids /\ Published[a] \in Payloads
    /\ \A id, b : IsPackage(id, b) => id \in Ids /\ b \in Payloads
    /\ \A id, b : IsArtifact(id, b) => id \in Ids /\ b \in Payloads
<1>1. \A w \in Packages : w.id \in Ids /\ w.body \in Payloads /\ IsPackage(w.id, w.body)
  BY PayloadAssumption DEF Ids, Payloads, IsPackage
<1>2. \A a \in Artifacts : a \in Ids /\ Published[a] \in Payloads
  BY DEF Ids, Payloads
<1>3. ASSUME NEW id, NEW b, IsPackage(id, b) PROVE id \in Ids /\ b \in Payloads
  <2>1. [id |-> id, body |-> b] \in Packages
    BY <1>3 DEF IsPackage
  <2>2. [id |-> id, body |-> b].id = id /\ [id |-> id, body |-> b].body = b
    OBVIOUS
  <2> QED BY <1>1, <2>1, <2>2
<1> QED BY <1>1, <1>2, <1>3, PayloadAssumption DEF IsArtifact

\* The frames the parties send are frames.
LEMMA FrameFacts ==
    /\ CloseFrame \in Frames /\ Offer({}) \in Frames
    /\ \A id \in Ids : Request(id) \in Frames
    /\ \A o \in {"workpackage", "artifact"}, id \in Ids, b \in Payloads :
          Hello(o, id, b) \in Frames
    /\ \A b \in Payloads : \A i \in DOMAIN b : ChunkFrame(i, b[i]) \in Frames
BY DEF Frames

\* What the fields of a frame of each kind are.
LEMMA FrameFields ==
    ASSUME NEW m \in Frames
    PROVE  /\ m.kind = "hello" => m.id \in Ids /\ m.body \in Payloads
           /\ m.kind = "request" => m.id \in Ids
           /\ m.kind = "ack" => m.have = {}
           /\ m.kind = "chunk" => m.data \in Data
<1>1. CASE \E o \in {"workpackage", "artifact"}, id \in Ids, b \in Payloads : m = Hello(o, id, b)
  BY <1>1 DEF Hello
<1>2. CASE \E id \in Ids : m = Request(id)
  BY <1>2 DEF Request
<1>3. CASE m \in {Offer({}), CloseFrame}
  BY <1>3 DEF Offer, CloseFrame
<1>4. CASE \E b \in Payloads : \E i \in DOMAIN b : m = ChunkFrame(i, b[i])
  <2>1. PICK b \in Payloads : \E i \in DOMAIN b : m = ChunkFrame(i, b[i])
    BY <1>4
  <2>2. PICK i \in DOMAIN b : m = ChunkFrame(i, b[i])
    BY <2>1
  <2>3. b[i] \in Data
    BY <2>1, <2>2 DEF Data
  <2> QED BY <2>2, <2>3 DEF ChunkFrame
<1> QED BY <1>1, <1>2, <1>3, <1>4 DEF Frames

-----------------------------------------------------------------------------
(***************************************************************************)
(* The parts of the invariant and what preserves each.                     *)
(***************************************************************************)
FramesAreTrue ==
    /\ WireTypeOK(Frames)
    /\ \A n \in Nodes : \A i \in DOMAIN inbox[n] : HelloIsTrue(n, inbox[n][i])

Good(p, r) == r \in PartyTypes /\ PartyIsSound(p, r)

PartiesAreGood == party \in [Parties -> PartyTypes] /\ \A p \in Parties : Good(p, party[p])

StoresAreTyped ==
    /\ receipts \in [Keys -> Payloads \cup {Nil}]
    /\ artifacts \in [Ids -> Seq(Data \cup {Nil}) \cup {Nil}]
    /\ packages \in [Ids -> Seq(Data \cup {Nil}) \cup {Nil}]

LEMMA InvParts ==
    Inv <=> /\ FramesAreTrue /\ PartiesAreGood /\ StoresAreTyped /\ StoredPayloadsAreWhole
            /\ drops \in 0 .. MaxDrops /\ quiet \in Calls \cup {Nil}
BY DEF Inv, TypeOK, FramesAreTrue, PartiesAreGood, Good, StoresAreTyped

\* The same of the next state.
LEMMA InvPartsNext ==
    Inv' <=> /\ FramesAreTrue' /\ PartiesAreGood' /\ StoresAreTyped' /\ StoredPayloadsAreWhole'
             /\ drops' \in 0 .. MaxDrops /\ quiet' \in Calls \cup {Nil}
BY DEF Inv, TypeOK, FramesAreTrue, PartiesAreGood, Good, StoresAreTyped

\* A party that becomes something good leaves all parties good.
LEMMA BecomeGood ==
    ASSUME PartiesAreGood, NEW p \in Parties, NEW r, Good(p, r), Become(p, r)
    PROVE  PartiesAreGood'
<1>1. party'[p] = r /\ \A q \in Parties \ {p} : party'[q] = party[q]
  BY DEF PartiesAreGood, Become
<1>2. party' \in [Parties -> PartyTypes]
  BY DEF PartiesAreGood, Become, Good
<1>3. ASSUME NEW q \in Parties PROVE Good(q, party'[q])
  BY <1>1 DEF PartiesAreGood
<1> QED BY <1>2, <1>3 DEF PartiesAreGood, Good, PartyIsSound, IsPackage, IsArtifact

\* Sending a true frame, failing to send and receiving keep the frames true.
LEMMA SendTrue ==
    ASSUME FramesAreTrue, NEW n \in Nodes, NEW m \in Frames, HelloIsTrue(n, m), Send(n, m)
    PROVE  FramesAreTrue'
<1> USE CapacityAssumption
<1>1. inbox[n] \in Seq(Frames) /\ inbox'[n] = Append(inbox[n], m)
      /\ Len(inbox[n]) < Capacity /\ \A k \in Nodes \ {n} : inbox'[k] = inbox[k]
  BY DEF FramesAreTrue, WireTypeOK, Send
<1>2. inbox' \in [Nodes -> Seq(Frames)] /\ Len(inbox'[n]) <= Capacity
  BY <1>1 DEF FramesAreTrue, WireTypeOK, Send
<1>3. WireTypeOK(Frames)'
  BY <1>1, <1>2 DEF FramesAreTrue, WireTypeOK, Send
<1>4. ASSUME NEW i \in DOMAIN inbox'[n] PROVE HelloIsTrue(n, inbox'[n][i])
  <2>1. i \in 1 .. Len(inbox[n]) + 1
    BY <1>1
  <2>2. CASE i = Len(inbox[n]) + 1
    BY <1>1, <2>2
  <2>3. CASE i \in 1 .. Len(inbox[n])
    <3>1. inbox'[n][i] = inbox[n][i] /\ i \in DOMAIN inbox[n]
      BY <1>1, <2>3
    <3> QED BY <3>1 DEF FramesAreTrue
  <2> QED BY <1>1, <2>1, <2>2, <2>3
<1>5. \A k \in Nodes : \A i \in DOMAIN inbox'[k] : HelloIsTrue(k, inbox'[k][i])
  BY <1>1, <1>4 DEF FramesAreTrue
<1> QED BY <1>3, <1>5 DEF FramesAreTrue, HelloIsTrue, IsPackage, IsArtifact

LEMMA SendFailsTrue ==
    ASSUME FramesAreTrue, NEW n \in Nodes, SendFails(n)
    PROVE  FramesAreTrue'
BY DEF FramesAreTrue, WireTypeOK, SendFails, HelloIsTrue, IsPackage, IsArtifact

LEMMA ReceiveTrue ==
    ASSUME FramesAreTrue, NEW n \in Nodes, NEW m, Receive(n, m)
    PROVE  FramesAreTrue' /\ m \in Frames /\ HelloIsTrue(n, m)
<1> USE CapacityAssumption
<1>1. inbox[n] \in Seq(Frames) /\ inbox[n] # << >> /\ m = Head(inbox[n])
      /\ inbox'[n] = Tail(inbox[n]) /\ \A k \in Nodes \ {n} : inbox'[k] = inbox[k]
      /\ Len(inbox[n]) <= Capacity
  BY DEF FramesAreTrue, WireTypeOK, Receive
<1>2. Len(inbox[n]) \in Nat \ {0} /\ 1 \in DOMAIN inbox[n] /\ m = inbox[n][1]
  BY <1>1
<1>3. m \in Frames /\ HelloIsTrue(n, m)
  BY <1>1, <1>2 DEF FramesAreTrue
<1>4. Tail(inbox[n]) \in Seq(Frames) /\ Len(Tail(inbox[n])) = Len(inbox[n]) - 1
  BY <1>1, <1>2
<1>5. inbox' \in [Nodes -> Seq(Frames)] /\ Len(inbox'[n]) <= Capacity
  BY <1>1, <1>2, <1>4 DEF FramesAreTrue, WireTypeOK, Receive
<1>6. WireTypeOK(Frames)'
  BY <1>1, <1>5 DEF FramesAreTrue, WireTypeOK, Receive
<1>7. ASSUME NEW i \in DOMAIN inbox'[n] PROVE HelloIsTrue(n, inbox'[n][i])
  <2>1. inbox'[n][i] = inbox[n][i + 1] /\ i + 1 \in DOMAIN inbox[n]
    BY <1>1, <1>2, <1>4
  <2> QED BY <2>1 DEF FramesAreTrue
<1>8. \A k \in Nodes : \A i \in DOMAIN inbox'[k] : HelloIsTrue(k, inbox'[k][i])
  BY <1>1, <1>7 DEF FramesAreTrue
<1> QED BY <1>3, <1>6, <1>8 DEF FramesAreTrue, HelloIsTrue, IsPackage, IsArtifact

\* Nothing on the wire changes.
LEMMA WireUnchanged ==
    ASSUME FramesAreTrue, UNCHANGED wireVars
    PROVE  FramesAreTrue'
BY DEF FramesAreTrue, WireTypeOK, wireVars, HelloIsTrue, IsPackage, IsArtifact

\* Nothing in the stores changes.
LEMMA StoresUnchanged ==
    ASSUME StoresAreTyped, StoredPayloadsAreWhole, UNCHANGED stores
    PROVE  StoresAreTyped' /\ StoredPayloadsAreWhole'
BY DEF StoresAreTyped, StoredPayloadsAreWhole, stores

\* A party that returns is good.
LEMMA ReturnedGood ==
    ASSUME NEW p \in Parties, NEW op \in {"none", "distribute", "artifact", "serve"},
           NEW id \in Ids \cup {Nil}, NEW ok \in BOOLEAN,
           p \in Calls => op \in {"distribute", "artifact"} /\ id \in Ids
    PROVE  Good(p, Returned(op, id, ok))
<1>1. Returned(op, id, ok) = [pc |-> "returned", op |-> op, id |-> id, helloId |-> Nil,
                              body |-> Nil, left |-> {}, got |-> << >>, ok |-> ok]
  BY DEF Returned
<1>2. Returned(op, id, ok) \in PartyTypes
  BY <1>1 DEF PartyTypes
<1> QED BY <1>1, <1>2 DEF Good, PartyIsSound

\* The fields of a party have their types.
LEMMA PartyFields ==
    ASSUME PartiesAreGood, NEW p \in Parties
    PROVE  party[p] \in PartyTypes /\ PartyIsSound(p, party[p])
BY DEF PartiesAreGood, Good

\* A call or session that is under way may return.
LEMMA ReturnGood ==
    ASSUME PartiesAreGood, NEW p \in Parties, party[p].pc # "idle", NEW ok \in BOOLEAN,
           Return(p, ok)
    PROVE  PartiesAreGood'
<1>1. /\ party[p].op \in {"none", "distribute", "artifact", "serve"}
      /\ party[p].id \in Ids \cup {Nil}
      /\ p \in Calls => party[p].op \in {"distribute", "artifact"} /\ party[p].id \in Ids
  BY PartyFields DEF PartyTypes, PartyIsSound
<1>2. Good(p, Returned(party[p].op, party[p].id, ok))
  BY <1>1, ReturnedGood
<1> QED BY <1>2, BecomeGood DEF Return

\* A step that leaves the stores alone.
LEMMA StoresAside ==
    ASSUME Inv, FramesAreTrue', PartiesAreGood', UNCHANGED <<stores, drops>>,
           quiet' \in {quiet, Nil} \cup Calls
    PROVE  Inv'
<1>1. StoresAreTyped' /\ StoredPayloadsAreWhole'
  BY InvParts, StoresUnchanged
<1> QED BY <1>1, InvParts, InvPartsNext

\* Nodes of a party.
LEMMA PartyNodes == \A p \in Parties : Here(p) \in Nodes /\ There(p) \in Nodes
BY NodeAssumption DEF Here, There

\* The inductive invariant holds initially.
LEMMA InitInv == Init => Inv
<1> SUFFICES ASSUME Init PROVE Inv
  OBVIOUS
<1>1. FramesAreTrue
  BY CapacityAssumption DEF Init, WireInit, FramesAreTrue, WireTypeOK
<1>2. NewParty("idle", "none", Nil, Nil, Nil) \in PartyTypes
  BY DEF NewParty, PartyTypes
<1>3. PartiesAreGood
  BY <1>2 DEF Init, PartiesAreGood, Good, PartyIsSound, NewParty
<1>4. StoresAreTyped /\ StoredPayloadsAreWhole
  BY DEF Init, StoresAreTyped, StoredPayloadsAreWhole
<1> QED BY <1>1, <1>3, <1>4, InvParts, PartyAssumption DEF Init

-----------------------------------------------------------------------------
(***************************************************************************)
(* Calls and sessions begin.                                               *)
(***************************************************************************)
LEMMA BeginInv ==
    ASSUME Inv, NEW c \in Calls, NEW op \in {"distribute", "artifact"}, NEW id \in Ids,
           NEW rec, Good(c, rec), Begin(c, op, id, rec)
    PROVE  Inv'
<1>1. c \in Parties
  BY DEF Parties
<1>2. FramesAreTrue'
  BY InvParts, WireUnchanged DEF Begin
<1>3. Good(c, Returned(op, id, TRUE))
  BY <1>1, ReturnedGood
<1>4. PartiesAreGood'
  BY <1>1, <1>3, InvParts, BecomeGood DEF Begin
<1>5. quiet' \in Calls \cup {Nil} /\ UNCHANGED <<stores, drops>>
  BY DEF Begin
<1> QED BY <1>2, <1>4, <1>5, StoresAside

LEMMA StartInv ==
    ASSUME Inv, \/ \E c \in Calls, w \in Packages : Distribute(c, w)
                \/ \E c \in Calls, a \in Wanted : FetchArtifact(c, a)
                \/ \E s \in Sessions : Serve(s)
    PROVE  Inv'
<1>1. ASSUME NEW c \in Calls, NEW w \in Packages, Distribute(c, w) PROVE Inv'
  <2> DEFINE rec == NewParty("greeting", "distribute", w.id, w.id, w.body)
  <2>1. w.id \in Ids /\ w.body \in Payloads /\ IsPackage(w.id, w.body)
    BY PayloadFacts
  <2>3. rec \in PartyTypes
    BY <2>1 DEF PartyTypes, NewParty
  <2>4. c \notin Sessions
    BY PartyAssumption
  <2>5. Good(c, rec)
    BY <2>1, <2>3, <2>4 DEF Good, PartyIsSound, NewParty
  <2> HIDE DEF rec
  <2>6. Begin(c, "distribute", w.id, rec)
    BY <1>1 DEF Distribute, rec
  <2> QED BY <2>1, <2>5, <2>6, BeginInv
<1>2. ASSUME NEW c \in Calls, NEW a \in Wanted, FetchArtifact(c, a) PROVE Inv'
  <2> DEFINE rec == NewParty("requesting", "artifact", a, Nil, Nil)
  <2>1. a \in Ids
    BY DEF Ids
  <2>3. rec \in PartyTypes
    BY <2>1 DEF PartyTypes, NewParty
  <2>4. c \notin Sessions
    BY PartyAssumption
  <2>5. Good(c, rec)
    BY <2>1, <2>3, <2>4 DEF Good, PartyIsSound, NewParty
  <2> HIDE DEF rec
  <2>6. Begin(c, "artifact", a, rec)
    BY <1>2 DEF FetchArtifact, rec
  <2> QED BY <2>1, <2>5, <2>6, BeginInv
<1>3. ASSUME NEW s \in Sessions, Serve(s) PROVE Inv'
  <2> DEFINE rec == NewParty("listening", "serve", Nil, Nil, Nil)
  <2>2. rec \in PartyTypes
    BY DEF PartyTypes, NewParty
  <2>3. s \notin Calls /\ s \in Parties
    BY PartyAssumption DEF Parties
  <2>4. Good(s, rec)
    BY <2>2, <2>3 DEF Good, PartyIsSound, NewParty
  <2> HIDE DEF rec
  <2>5. Become(s, rec) /\ UNCHANGED <<wireVars, stores, drops>> /\ quiet' = Nil
    BY <1>3 DEF Serve, rec
  <2>6. FramesAreTrue' /\ PartiesAreGood'
    BY <2>3, <2>4, <2>5, InvParts, WireUnchanged, BecomeGood
  <2> QED BY <2>5, <2>6, StoresAside
<1> QED BY <1>1, <1>2, <1>3

-----------------------------------------------------------------------------
(***************************************************************************)
(* Parties receive.                                                        *)
(***************************************************************************)

\* What a party took from its inbox was a true frame.
LEMMA TakeTrue ==
    ASSUME Inv, NEW p \in Parties, NEW pc, NEW m, Take(p, pc, m)
    PROVE  FramesAreTrue' /\ m \in Frames /\ HelloIsTrue(Here(p), m) /\ party[p].pc = pc
BY InvParts, PartyNodes, ReceiveTrue DEF Take

\* A receiver for an announced payload starts with nothing.
LEMMA NewReceiver ==
    ASSUME NEW b \in Payloads
    PROVE  [i \in DOMAIN b |-> Nil] \in Seq(Data \cup {Nil})
<1>1. b \in Seq(Data)
  BY PayloadFacts
<1>2. DOMAIN b = 1 .. Len(b) /\ Len(b) \in Nat
  BY <1>1
<1> QED BY <1>2

\* A party accepts a true hello.
LEMMA OfferingGood ==
    ASSUME PartiesAreGood, NEW p \in Parties, NEW id \in Ids, NEW b \in Payloads,
           IF p \in Calls THEN IsArtifact(id, b) ELSE IsPackage(id, b),
           p \in Calls => party[p].pc # "idle"
    PROVE  Good(p, [party[p] EXCEPT !.pc = "offering", !.helloId = id, !.body = b,
                                    !.got = [i \in DOMAIN b |-> Nil]])
<1> DEFINE r == [party[p] EXCEPT !.pc = "offering", !.helloId = id, !.body = b,
                                 !.got = [i \in DOMAIN b |-> Nil]]
<1>1. party[p] \in PartyTypes /\ PartyIsSound(p, party[p])
  BY PartyFields
<1>2. /\ r \in PartyTypes /\ r.pc = "offering" /\ r.helloId = id /\ r.body = b
      /\ r.op = party[p].op /\ r.id = party[p].id
  BY <1>1, NewReceiver DEF PartyTypes
<1> HIDE DEF r
<1>3. PartyIsSound(p, r)
  BY <1>1, <1>2 DEF PartyIsSound, IsArtifact
<1> QED BY <1>2, <1>3 DEF Good, r

LEMMA ReceiveInv ==
    ASSUME Inv, NEW p \in Parties, ReceiveStep(p)
    PROVE  Inv'
<1>0. PartiesAreGood /\ party[p] \in PartyTypes /\ PartyIsSound(p, party[p])
      /\ (p \in Calls \/ p \in Sessions) /\ ~(p \in Calls /\ p \in Sessions)
  BY InvParts, PartyFields, PartyAssumption DEF Parties
<1> SUFFICES ASSUME NEW m,
                    \/ p \in Sessions /\ (ServeHello(p, m) \/ ServeRequest(p, m) \/ ServeOther(p, m))
                    \/ p \in Calls /\ FetchHello(p, m)
                    \/ AwaitOffer(p, m) \/ ReadChunk(p, m) \/ ReadEnd(p, m)
             PROVE  Inv'
  BY DEF ReceiveStep
<1>a. ASSUME FramesAreTrue', PartiesAreGood', UNCHANGED <<stores, drops, quiet>> PROVE Inv'
  BY <1>a, StoresAside
<1>b. ASSUME party[p].pc # "idle", Fail(p) PROVE PartiesAreGood'
  BY <1>0, <1>b, ReturnGood DEF Fail
<1>1. ASSUME p \in Sessions, ServeHello(p, m) PROVE Inv'
  <2>1. FramesAreTrue' /\ m \in Frames /\ HelloIsTrue(Here(p), m) /\ party[p].pc = "listening"
    BY <1>1, TakeTrue DEF ServeHello
  <2>2. m.kind = "hello" /\ m.id \in Ids /\ m.body \in Payloads /\ Here(p) = "remote"
    BY <1>0, <1>1, <2>1, FrameFields DEF ServeHello, Here
  <2>3. m.object = "workpackage" /\ IsPackage(m.id, m.body)
    BY <2>1, <2>2 DEF HelloIsTrue
  <2>4. PartiesAreGood'
    BY <1>0, <1>1, <2>2, <2>3, OfferingGood, BecomeGood DEF ServeHello
  <2> QED BY <1>1, <1>a, <2>1, <2>4 DEF ServeHello
<1>2. ASSUME p \in Sessions, ServeRequest(p, m) PROVE Inv'
  <2>1. FramesAreTrue' /\ m \in Frames /\ party[p].pc = "listening"
    BY <1>2, TakeTrue DEF ServeRequest
  <2>2. CASE m.id \in Artifacts
    <3> DEFINE r == [party[p] EXCEPT !.pc = "greeting", !.helloId = m.id, !.body = Published[m.id]]
    <3>1. m.id \in Ids /\ Published[m.id] \in Payloads
      BY <2>2, PayloadFacts
    <3>2. /\ r \in PartyTypes /\ r.pc = "greeting" /\ r.helloId = m.id
          /\ r.body = Published[m.id]
      BY <1>0, <3>1 DEF PartyTypes
    <3>3. Become(p, r)
      BY <1>2, <2>2 DEF ServeRequest
    <3> HIDE DEF r
    <3>4. Good(p, r)
      BY <1>0, <1>2, <2>2, <3>2 DEF Good, PartyIsSound, IsArtifact
    <3>5. PartiesAreGood'
      BY <1>0, <3>3, <3>4, BecomeGood
    <3> QED BY <1>2, <1>a, <2>1, <3>5 DEF ServeRequest
  <2>3. CASE m.id \notin Artifacts
    <3> DEFINE r == [party[p] EXCEPT !.pc = "refusing"]
    <3>1. r \in PartyTypes /\ r.pc = "refusing"
      BY <1>0 DEF PartyTypes
    <3>2. Become(p, r)
      BY <1>2, <2>3 DEF ServeRequest, GoTo
    <3> HIDE DEF r
    <3>3. Good(p, r)
      BY <1>0, <1>2, <3>1 DEF Good, PartyIsSound
    <3>4. PartiesAreGood'
      BY <1>0, <3>2, <3>3, BecomeGood
    <3> QED BY <1>2, <1>a, <2>1, <3>4 DEF ServeRequest
  <2> QED BY <2>2, <2>3
<1>3. ASSUME p \in Sessions, ServeOther(p, m) PROVE Inv'
  <2>1. FramesAreTrue' /\ party[p].pc = "listening"
    BY <1>3, TakeTrue DEF ServeOther
  <2> QED BY <1>3, <1>a, <1>b, <2>1 DEF ServeOther
<1>4. ASSUME p \in Calls, FetchHello(p, m) PROVE Inv'
  <2>1. FramesAreTrue' /\ m \in Frames /\ HelloIsTrue(Here(p), m) /\ party[p].pc = "expecting"
    BY <1>4, TakeTrue DEF FetchHello
  <2>2. CASE m.kind = "hello"
    <3>1. m.id \in Ids /\ m.body \in Payloads /\ Here(p) = "local"
      BY <1>4, <2>1, <2>2, FrameFields DEF Here
    <3>2. IsArtifact(m.id, m.body)
      BY <2>1, <2>2, <3>1 DEF HelloIsTrue
    <3>3. PartiesAreGood'
      BY <1>0, <1>4, <2>1, <2>2, <3>1, <3>2, OfferingGood, BecomeGood DEF FetchHello
    <3> QED BY <1>4, <1>a, <2>1, <3>3 DEF FetchHello
  <2>3. CASE m.kind # "hello"
    BY <1>4, <1>a, <1>b, <2>1, <2>3 DEF FetchHello
  <2> QED BY <2>2, <2>3
<1>5. ASSUME AwaitOffer(p, m) PROVE Inv'
  <2>1. FramesAreTrue' /\ m \in Frames /\ party[p].pc = "waiting"
    BY <1>5, TakeTrue DEF AwaitOffer
  <2>2. CASE m.kind = "ack"
    <3> DEFINE r == [party[p] EXCEPT !.pc = "pushing", !.left = DOMAIN party[p].body \ m.have]
    <3>1. party[p].body \in Payloads /\ party[p].body \in Seq(Data)
      BY <1>0, <2>1, PayloadFacts DEF PartyIsSound
    <3>2. DOMAIN party[p].body \ m.have \in SUBSET Nat
      BY <3>1
    <3>3. /\ r \in PartyTypes /\ r.pc = "pushing" /\ r.body = party[p].body
          /\ r.left \subseteq DOMAIN r.body /\ r.op = party[p].op /\ r.id = party[p].id
      BY <1>0, <3>2 DEF PartyTypes
    <3>4. Become(p, r)
      BY <1>5, <2>2 DEF AwaitOffer
    <3> HIDE DEF r
    <3>5. Good(p, r)
      BY <1>0, <2>1, <3>1, <3>3 DEF Good, PartyIsSound
    <3>6. PartiesAreGood'
      BY <1>0, <3>4, <3>5, BecomeGood
    <3> QED BY <1>5, <1>a, <2>1, <3>6 DEF AwaitOffer
  <2>3. CASE m.kind # "ack"
    BY <1>5, <1>a, <1>b, <2>1, <2>3 DEF AwaitOffer
  <2> QED BY <2>2, <2>3
<1>6. ASSUME ReadChunk(p, m) PROVE Inv'
  <2>1. FramesAreTrue' /\ m \in Frames /\ party[p].pc = "reading" /\ m.data \in Data
    BY <1>6, TakeTrue, FrameFields DEF ReadChunk, Acceptable
  <2> DEFINE g == [party[p].got EXCEPT ![m.index] = m.data]
             r == [party[p] EXCEPT !.got = g]
  <2>2. g \in Seq(Data \cup {Nil})
    <3>1. party[p].got \in Seq(Data \cup {Nil})
      BY <1>0 DEF PartyTypes
    <3>2. party[p].got \in [1 .. Len(party[p].got) -> Data \cup {Nil}]
          /\ Len(party[p].got) \in Nat
      BY <3>1
    <3>3. g \in [1 .. Len(party[p].got) -> Data \cup {Nil}]
      BY <2>1, <3>2
    <3> QED BY <3>2, <3>3
  <2> HIDE DEF g
  <2>3. /\ r \in PartyTypes /\ r.pc = "reading" /\ r.body = party[p].body
        /\ r.helloId = party[p].helloId /\ r.op = party[p].op /\ r.id = party[p].id
    BY <1>0, <2>1, <2>2 DEF PartyTypes
  <2>4. Become(p, r)
    BY <1>6 DEF ReadChunk, g
  <2> HIDE DEF r
  <2>5. Good(p, r)
    BY <1>0, <2>1, <2>3 DEF Good, PartyIsSound
  <2>6. PartiesAreGood'
    BY <1>0, <2>4, <2>5, BecomeGood
  <2> QED BY <1>6, <1>a, <2>1, <2>6 DEF ReadChunk
<1>7. ASSUME ReadEnd(p, m) PROVE Inv'
  <2>1. FramesAreTrue' /\ party[p].pc = "reading"
    BY <1>7, TakeTrue DEF ReadEnd
  <2>2. CASE m.kind = "close" /\ party[p].got = party[p].body
    <3> DEFINE r == [party[p] EXCEPT !.pc = "storing"]
    <3>1. /\ r \in PartyTypes /\ r.pc = "storing" /\ r.body = party[p].body
          /\ r.got = party[p].got
          /\ r.helloId = party[p].helloId /\ r.op = party[p].op /\ r.id = party[p].id
      BY <1>0 DEF PartyTypes
    <3>2. Become(p, r)
      BY <1>7, <2>2 DEF ReadEnd, GoTo
    <3> HIDE DEF r
    <3>3. Good(p, r)
      BY <1>0, <2>1, <2>2, <3>1 DEF Good, PartyIsSound
    <3>4. PartiesAreGood'
      BY <1>0, <3>2, <3>3, BecomeGood
    <3> QED BY <1>7, <1>a, <2>1, <3>4 DEF ReadEnd
  <2>3. CASE ~(m.kind = "close" /\ party[p].got = party[p].body)
    BY <1>7, <1>a, <1>b, <2>1, <2>3 DEF ReadEnd
  <2> QED BY <2>2, <2>3
<1> QED BY <1>1, <1>2, <1>3, <1>4, <1>5, <1>6, <1>7

-----------------------------------------------------------------------------
(***************************************************************************)
(* Parties send.                                                           *)
(***************************************************************************)

\* Sending a true frame and going on as something good.
LEMMA TransmitInv ==
    ASSUME Inv, NEW p \in Parties, NEW m \in Frames, HelloIsTrue(There(p), m),
           NEW r, Good(p, r), Transmit(p, m, r)
    PROVE  Inv'
<1>1. FramesAreTrue' /\ PartiesAreGood'
  BY InvParts, PartyNodes, SendTrue, BecomeGood DEF Transmit
<1> QED BY <1>1, StoresAside DEF Transmit

\* A frame that is no hello announces nothing.
LEMMA OtherFramesAreTrue ==
    /\ \A n : HelloIsTrue(n, CloseFrame) /\ HelloIsTrue(n, Offer({}))
    /\ \A n, id : HelloIsTrue(n, Request(id))
    /\ \A n, i, d : HelloIsTrue(n, ChunkFrame(i, d))
BY DEF HelloIsTrue, CloseFrame, Offer, Request, ChunkFrame

LEMMA SendInv ==
    ASSUME Inv, NEW p \in Parties, SendStep(p)
    PROVE  Inv'
<1>0. PartiesAreGood /\ party[p] \in PartyTypes /\ PartyIsSound(p, party[p])
      /\ (p \in Calls \/ p \in Sessions) /\ ~(p \in Calls /\ p \in Sessions)
  BY InvParts, PartyFields, PartyAssumption DEF Parties
<1>1. ASSUME SendHello(p) PROVE Inv'
  <2> DEFINE o == IF p \in Calls THEN "workpackage" ELSE "artifact"
             m == Hello(o, party[p].helloId, party[p].body)
             r == [party[p] EXCEPT !.pc = "waiting"]
  <2>1. party[p].helloId \in Ids /\ party[p].body \in Payloads
        /\ IF p \in Calls THEN IsPackage(party[p].helloId, party[p].body)
           ELSE IsArtifact(party[p].helloId, party[p].body)
    BY <1>0, <1>1, PayloadFacts DEF SendHello, PartyIsSound
  <2>2. m \in Frames
    BY <2>1, FrameFacts
  <2>3. HelloIsTrue(There(p), m)
    BY <1>0, <2>1 DEF HelloIsTrue, There, Hello
  <2>4. /\ r \in PartyTypes /\ r.pc = "waiting" /\ r.body = party[p].body
        /\ r.op = party[p].op /\ r.id = party[p].id
    BY <1>0 DEF PartyTypes
  <2>5. Transmit(p, m, r)
    BY <1>1 DEF SendHello
  <2> HIDE DEF m, r
  <2>6. Good(p, r)
    BY <1>0, <1>1, <2>1, <2>4 DEF Good, PartyIsSound, SendHello
  <2> QED BY <2>2, <2>3, <2>5, <2>6, TransmitInv
<1>2. ASSUME SendRequest(p) PROVE Inv'
  <2> DEFINE r == [party[p] EXCEPT !.pc = "expecting"]
  <2>1. p \in Calls /\ party[p].id \in Ids /\ party[p].op \in {"distribute", "artifact"}
    BY <1>0, <1>2 DEF SendRequest, PartyIsSound
  <2>2. Request(party[p].id) \in Frames
    BY <2>1, FrameFacts
  <2>3. /\ r \in PartyTypes /\ r.pc = "expecting" /\ r.op = party[p].op /\ r.id = party[p].id
    BY <1>0 DEF PartyTypes
  <2>4. Transmit(p, Request(party[p].id), r)
    BY <1>2 DEF SendRequest
  <2> HIDE DEF r
  <2>5. Good(p, r)
    BY <1>0, <2>1, <2>3 DEF Good, PartyIsSound
  <2> QED BY <2>2, <2>4, <2>5, TransmitInv, OtherFramesAreTrue
<1>3. ASSUME SendRefusal(p) PROVE Inv'
  <2>1. p \notin Calls
    BY <1>0, <1>3 DEF SendRefusal, PartyIsSound
  <2>2. Good(p, Returned("serve", Nil, FALSE))
    BY <2>1, ReturnedGood
  <2>3. Transmit(p, CloseFrame, Returned("serve", Nil, FALSE))
    BY <1>3 DEF SendRefusal
  <2> QED BY <2>2, <2>3, TransmitInv, OtherFramesAreTrue, FrameFacts
<1>4. ASSUME SendOffer(p) PROVE Inv'
  <2> DEFINE r == [party[p] EXCEPT !.pc = "reading"]
  <2>1. /\ r \in PartyTypes /\ r.pc = "reading" /\ r.body = party[p].body
        /\ r.helloId = party[p].helloId /\ r.op = party[p].op /\ r.id = party[p].id
    BY <1>0 DEF PartyTypes
  <2>2. Transmit(p, Offer({}), r)
    BY <1>4 DEF SendOffer
  <2> HIDE DEF r
  <2>3. Good(p, r)
    BY <1>0, <1>4, <2>1 DEF Good, PartyIsSound, SendOffer
  <2> QED BY <2>2, <2>3, TransmitInv, OtherFramesAreTrue, FrameFacts
<1>5. ASSUME SendChunk(p) PROVE Inv'
  <2>1. PICK i \in party[p].left :
          Transmit(p, ChunkFrame(i, party[p].body[i]), [party[p] EXCEPT !.left = @ \ {i}])
    BY <1>5 DEF SendChunk
  <2> DEFINE r == [party[p] EXCEPT !.left = @ \ {i}]
  <2>2. party[p].pc = "pushing" /\ party[p].body \in Payloads
        /\ party[p].left \subseteq DOMAIN party[p].body
    BY <1>0, <1>5 DEF SendChunk, PartyIsSound
  <2>3. ChunkFrame(i, party[p].body[i]) \in Frames
    BY <2>1, <2>2, FrameFacts
  <2>4. /\ r \in PartyTypes /\ r.pc = "pushing" /\ r.body = party[p].body
        /\ r.left = party[p].left \ {i} /\ r.op = party[p].op /\ r.id = party[p].id
    BY <1>0, <2>2 DEF PartyTypes
  <2>5. Transmit(p, ChunkFrame(i, party[p].body[i]), r)
    BY <2>1
  <2> HIDE DEF r
  <2>6. Good(p, r)
    BY <1>0, <2>2, <2>4 DEF Good, PartyIsSound
  <2> QED BY <2>3, <2>5, <2>6, TransmitInv, OtherFramesAreTrue
<1>6. ASSUME SendClose(p) PROVE Inv'
  <2>1. party[p].pc = "pushing" /\ party[p].body \in Payloads
    BY <1>0, <1>6 DEF SendClose, PartyIsSound
  <2>2. CASE p \in Calls
    <3> DEFINE r == [party[p] EXCEPT !.pc = "receipting"]
    <3>1. /\ r \in PartyTypes /\ r.pc = "receipting" /\ r.body = party[p].body
          /\ r.op = party[p].op /\ r.id = party[p].id
      BY <1>0 DEF PartyTypes
    <3>2. Transmit(p, CloseFrame, r)
      BY <1>6, <2>2 DEF SendClose
    <3> HIDE DEF r
    <3>3. Good(p, r)
      BY <1>0, <2>1, <2>2, <3>1 DEF Good, PartyIsSound
    <3> QED BY <3>2, <3>3, TransmitInv, OtherFramesAreTrue, FrameFacts
  <2>3. CASE p \notin Calls
    <3>1. Good(p, Returned("serve", Nil, TRUE))
      BY <2>3, ReturnedGood
    <3>2. Transmit(p, CloseFrame, Returned("serve", Nil, TRUE))
      BY <1>6, <2>3 DEF SendClose
    <3> QED BY <3>1, <3>2, TransmitInv, OtherFramesAreTrue, FrameFacts
  <2> QED BY <2>2, <2>3
<1> QED BY <1>1, <1>2, <1>3, <1>4, <1>5, <1>6 DEF SendStep

-----------------------------------------------------------------------------
(***************************************************************************)
(* Parties store what they received.                                       *)
(***************************************************************************)
LEMMA StoreInv ==
    ASSUME Inv, NEW p \in Parties, StorePackage(p) \/ StoreArtifact(p) \/ StoreReceipt(p)
    PROVE  Inv'
<1>0. /\ PartiesAreGood /\ party[p] \in PartyTypes /\ PartyIsSound(p, party[p])
      /\ FramesAreTrue /\ StoresAreTyped /\ StoredPayloadsAreWhole
      /\ drops \in 0 .. MaxDrops /\ quiet \in Calls \cup {Nil}
      /\ (p \in Calls \/ p \in Sessions) /\ ~(p \in Calls /\ p \in Sessions)
  BY InvParts, PartyFields, PartyAssumption DEF Parties
<1>1. ASSUME StorePackage(p) PROVE Inv'
  <2>1. /\ p \notin Calls /\ party[p].pc = "storing"
        /\ party[p].got = party[p].body /\ IsPackage(party[p].helloId, party[p].body)
    BY <1>0, <1>1 DEF StorePackage, PartyIsSound
  <2>2. party[p].helloId \in Ids /\ party[p].got \in Seq(Data \cup {Nil})
    BY <1>0, <2>1, PayloadFacts DEF PartyTypes
  <2>3. FramesAreTrue' /\ PartiesAreGood'
    BY <1>0, <1>1, <2>1, WireUnchanged, ReturnGood DEF StorePackage
  <2>4. StoresAreTyped'
    BY <1>0, <1>1, <2>2 DEF StorePackage, StoresAreTyped
  <2>5. /\ packages'[party[p].helloId] = party[p].body
        /\ \A w \in Ids \ {party[p].helloId} : packages'[w] = packages[w]
    BY <1>0, <1>1, <2>1, <2>2 DEF StorePackage, StoresAreTyped
  <2>6. StoredPayloadsAreWhole'
    BY <1>0, <1>1, <2>1, <2>5 DEF StorePackage, StoredPayloadsAreWhole, IsPackage
  <2> QED BY <1>0, <1>1, <2>3, <2>4, <2>6, InvPartsNext DEF StorePackage
<1>2. ASSUME StoreArtifact(p) PROVE Inv'
  <2> DEFINE r == [party[p] EXCEPT !.pc = "receipting"]
  <2>1. /\ p \in Calls /\ p \notin Sessions /\ party[p].pc = "storing"
        /\ party[p].got = party[p].body /\ party[p].id \in Ids
        /\ party[p].op \in {"distribute", "artifact"}
        /\ \E a \in Artifacts : party[p].body = Published[a]
    BY <1>0, <1>2 DEF StoreArtifact, PartyIsSound
  <2>2. party[p].body \in Payloads /\ party[p].got \in Seq(Data \cup {Nil})
    BY <1>0, <2>1, PayloadFacts DEF PartyTypes
  <2>3. /\ r \in PartyTypes /\ r.pc = "receipting" /\ r.body = party[p].body
        /\ r.op = party[p].op /\ r.id = party[p].id
    BY <1>0 DEF PartyTypes
  <2>4. Become(p, r)
    BY <1>2 DEF StoreArtifact, GoTo
  <2> HIDE DEF r
  <2>5. Good(p, r)
    BY <2>1, <2>2, <2>3 DEF Good, PartyIsSound
  <2>6. FramesAreTrue' /\ PartiesAreGood'
    BY <1>0, <1>2, <2>4, <2>5, WireUnchanged, BecomeGood DEF StoreArtifact
  <2>7. StoresAreTyped'
    BY <1>0, <1>2, <2>1, <2>2 DEF StoreArtifact, StoresAreTyped
  <2>8. /\ artifacts'[party[p].id] = party[p].body
        /\ \A a \in Ids \ {party[p].id} : artifacts'[a] = artifacts[a]
    BY <1>0, <1>2, <2>1 DEF StoreArtifact, StoresAreTyped
  <2>9. StoredPayloadsAreWhole'
    BY <1>0, <1>2, <2>1, <2>8 DEF StoreArtifact, StoredPayloadsAreWhole
  <2> QED BY <1>0, <1>2, <2>6, <2>7, <2>9, InvPartsNext DEF StoreArtifact
<1>3. ASSUME StoreReceipt(p) PROVE Inv'
  <2>1. /\ party[p].pc = "receipting" /\ party[p].body \in Payloads
    BY <1>0, <1>3 DEF StoreReceipt, PartyIsSound
  <2>2. FramesAreTrue' /\ PartiesAreGood'
    BY <1>0, <1>3, <2>1, WireUnchanged, ReturnGood DEF StoreReceipt
  <2>3. StoresAreTyped'
    BY <1>0, <1>3, <2>1 DEF StoreReceipt, StoresAreTyped
  <2>4. StoredPayloadsAreWhole'
    BY <1>0, <1>3 DEF StoreReceipt, StoredPayloadsAreWhole
  <2> QED BY <1>0, <1>3, <2>2, <2>3, <2>4, InvPartsNext DEF StoreReceipt
<1> QED BY <1>1, <1>2, <1>3

-----------------------------------------------------------------------------
\* Every step preserves the inductive invariant.
LEMMA NextInv == Inv /\ [Next]_vars => Inv'
<1> SUFFICES ASSUME Inv, [Next]_vars PROVE Inv'
  OBVIOUS
<1>0. FramesAreTrue /\ PartiesAreGood /\ drops \in 0 .. MaxDrops /\ quiet \in Calls \cup {Nil}
  BY InvParts
<1>1. ASSUME NEW p \in Parties, Step(p) PROVE Inv'
  <2>1. ASSUME SendFrameFails(p) PROVE Inv'
    <3>1. FramesAreTrue'
      BY <1>0, <2>1, PartyNodes, SendFailsTrue DEF SendFrameFails
    <3>2. PartiesAreGood'
      BY <1>0, <2>1, ReturnGood DEF SendFrameFails, Fail
    <3> QED BY <2>1, <3>1, <3>2, StoresAside DEF SendFrameFails
  <2> QED BY <1>1, <2>1, ReceiveInv, SendInv, StoreInv DEF Step
<1>2. ASSUME NEW p \in Parties, GiveUp(p) PROVE Inv'
  <2>1. FramesAreTrue' /\ PartiesAreGood'
    BY <1>0, <1>2, WireUnchanged, ReturnGood DEF GiveUp, Fail
  <2> QED BY <1>2, <2>1, StoresAside DEF GiveUp
<1>3. ASSUME NEW n \in Nodes, DropLink(n) PROVE Inv'
  <2>1. FramesAreTrue'
    BY <1>0, <1>3 DEF DropLink, FailNext, FramesAreTrue, WireTypeOK, HelloIsTrue,
                      IsPackage, IsArtifact
  <2>2. PartiesAreGood'
    BY <1>0, <1>3 DEF DropLink, PartiesAreGood, Good, PartyIsSound, IsPackage, IsArtifact
  <2>3. StoresAreTyped' /\ StoredPayloadsAreWhole'
    BY <1>3, InvParts, StoresUnchanged DEF DropLink
  <2>4. drops' \in 0 .. MaxDrops /\ quiet' \in Calls \cup {Nil}
    BY <1>0, <1>3, PartyAssumption DEF DropLink
  <2> QED BY <2>1, <2>2, <2>3, <2>4, InvPartsNext
<1>4. CASE UNCHANGED vars
  <2>1. FramesAreTrue'
    BY <1>0, <1>4, WireUnchanged DEF vars
  <2>2. PartiesAreGood'
    BY <1>0, <1>4 DEF vars, PartiesAreGood, Good, PartyIsSound, IsPackage, IsArtifact
  <2> QED BY <1>4, <2>1, <2>2, StoresAside DEF vars
<1> QED BY <1>1, <1>2, <1>3, <1>4, StartInv DEF Next

\* The inductive invariant: every hello on the wire is true, every party sends what
\* it has and receives what was announced, and the stores hold whole payloads.
THEOREM InvCorrect == Spec => []Inv
<1> QED BY InitInv, NextInv, PTL DEF Spec

\* The wire, the calls, the sessions and the stores keep their types, for every
\* set of packages and artifacts.
THEOREM TypeCorrect == Spec => []TypeOK
<1>1. Inv => TypeOK
  BY DEF Inv
<1> QED BY <1>1, InvCorrect, PTL

\* However the frames of any number of concurrent, failed and abandoned exchanges
\* mix, the peer stores only whole packages under their own ids and the
\* distributor only whole published artifacts.
THEOREM StoresAreWhole == Spec => []StoredPayloadsAreWhole
<1>1. Inv => StoredPayloadsAreWhole
  BY DEF Inv
<1> QED BY <1>1, InvCorrect, PTL
-----------------------------------------------------------------------------
(***************************************************************************)
(* Exchanges that nothing disturbs.  The invariant follows the call and    *)
(* the one session it is alone with through the protocol: what each waits  *)
(* for and what is in the two inboxes.                                     *)
(***************************************************************************)
In(p) == inbox[Here(p)]

\* What is on the way to the receiver of payload b, before and after the close.
IsChunk(m, b) == \E k \in DOMAIN b : m = ChunkFrame(k, b[k])
OnlyChunks(s, b) == \A i \in 1 .. Len(s) : IsChunk(s[i], b)
ChunksThenClose(s, b) ==
    /\ s # << >>
    /\ s[Len(s)] = CloseFrame
    /\ \A i \in 1 .. Len(s) - 1 : IsChunk(s[i], b)

OnTheWay(s, m) == \E i \in 1 .. Len(s) : s[i] = m

\* Sender p has sent everything.
HasSent(p) == IF p \in Calls THEN party[p].pc \in {"receipting", "returned"}
              ELSE party[p].pc = "returned"

\* Every chunk that p does not have to send any more is received or on the way.
Conserved(p, q, b) ==
    /\ DOMAIN party[q].got = DOMAIN b
    /\ \A k \in DOMAIN b \ party[p].left :
          \/ party[q].got[k] = b[k]
          \/ OnTheWay(In(q), ChunkFrame(k, b[k]))

\* Party p sends payload b to party q.
Pipe(p, q, b) ==
    /\ party[q].body = b
    /\ \/ /\ party[p].pc = "waiting" /\ party[p].body = b
          /\ In(q) = << >> /\ DOMAIN party[q].got = DOMAIN b
          /\ \/ party[q].pc = "offering" /\ In(p) = << >>
             \/ party[q].pc = "reading" /\ In(p) = <<Offer({})>>
       \/ /\ party[p].pc = "pushing" /\ party[p].body = b
          /\ party[q].pc = "reading" /\ OnlyChunks(In(q), b) /\ Conserved(p, q, b)
       \/ /\ HasSent(p) /\ party[p].left = {}
          /\ \/ /\ party[q].pc = "reading"
                /\ ChunksThenClose(In(q), b) /\ Conserved(p, q, b)
             \/ party[q].pc = "storing"

\* Call c distributes payload b to session s.
Distributing(c, s, b) ==
    LET id == party[c].id IN
    /\ party[c].op = "distribute"
    /\ party[c].pc # "returned" => party[c].body = b
    /\ party[c].pc = "returned" => party[c].ok /\ receipts[Key("distribute", id)] = b
    /\ \/ /\ party[c].pc = "greeting" /\ party[c].helloId = id
          /\ party[s].pc = "listening" /\ In(s) = << >> /\ In(c) = << >>
       \/ /\ party[c].pc = "waiting" /\ party[s].pc = "listening"
          /\ In(s) = <<Hello("workpackage", id, b)>> /\ In(c) = << >>
       \/ party[s].helloId = id /\ Pipe(c, s, b)
       \/ HasSent(c) /\ party[s].pc = "returned" /\ packages[id] = b

\* Call c asks session s for an artifact; the peer does not have it; the peer
\* sends it.
Asking(c, s) ==
    LET id == party[c].id IN
    /\ party[c].op = "artifact"
    /\ \/ /\ party[c].pc = "requesting" /\ party[s].pc = "listening"
          /\ In(s) = << >> /\ In(c) = << >>
       \/ /\ party[c].pc = "expecting" /\ party[s].pc = "listening"
          /\ In(s) = <<Request(id)>> /\ In(c) = << >>

Refused(c, s) ==
    /\ party[c].op = "artifact" /\ party[c].id \notin Artifacts
    /\ \/ party[c].pc = "expecting" /\ party[s].pc = "refusing" /\ In(c) = << >>
       \/ party[c].pc = "expecting" /\ party[s].pc = "returned" /\ In(c) = <<CloseFrame>>
       \/ party[c].pc = "returned" /\ ~party[c].ok

Fetching(c, s) ==
    LET id == party[c].id
        b == Published[id]
    IN
    /\ party[c].op = "artifact" /\ id \in Artifacts
    /\ \/ /\ party[c].pc = "expecting" /\ In(c) = << >> /\ In(s) = << >>
          /\ party[s].pc = "greeting" /\ party[s].helloId = id /\ party[s].body = b
       \/ /\ party[c].pc = "expecting" /\ In(c) = <<Hello("artifact", id, b)>> /\ In(s) = << >>
          /\ party[s].pc = "waiting" /\ party[s].body = b
       \/ Pipe(s, c, b)
       \/ party[c].pc = "receipting" /\ artifacts[id] = b
       \/ party[c].pc = "returned" /\ party[c].ok /\ artifacts[id] = b

\* The call and the session are the only ones under way.
Undisturbed(c, s) ==
    /\ \A p \in Parties \ {c, s} : ~Active(p)
    /\ \/ \E b \in Payloads : Distributing(c, s, b)
       \/ Asking(c, s)
       \/ Refused(c, s)
       \/ Fetching(c, s)

QuietInv == quiet # Nil => \E s \in Sessions : Undisturbed(quiet, s)

-----------------------------------------------------------------------------
\* Append and Tail, for the frames on the way.
LEMMA AppendWay ==
    ASSUME NEW s \in Seq(Frames), NEW m \in Frames, NEW b
    PROVE  /\ OnlyChunks(s, b) /\ IsChunk(m, b) => OnlyChunks(Append(s, m), b)
           /\ OnlyChunks(s, b) /\ m = CloseFrame => ChunksThenClose(Append(s, m), b)
           /\ \A f : OnTheWay(s, f) \/ f = m => OnTheWay(Append(s, m), f)
<1>1. PICK n \in Nat : n = Len(s)
  OBVIOUS
<1>2. /\ Len(Append(s, m)) = n + 1 /\ Append(s, m)[n + 1] = m /\ Append(s, m) # << >>
      /\ \A i \in 1 .. n : Append(s, m)[i] = s[i]
  BY <1>1
<1>3. PICK t : t = Append(s, m)
  OBVIOUS
<1>4. /\ Len(t) = n + 1 /\ t[n + 1] = m /\ t # << >>
      /\ \A i \in 1 .. n : t[i] = s[i]
  BY <1>2, <1>3
<1>5. ASSUME OnlyChunks(s, b), IsChunk(m, b) PROVE OnlyChunks(t, b)
  <2>1. ASSUME NEW i \in 1 .. n + 1 PROVE IsChunk(t[i], b)
    <3>1. CASE i \in 1 .. n
      BY <1>1, <1>4, <1>5, <3>1 DEF OnlyChunks
    <3>2. CASE i = n + 1
      BY <1>4, <1>5, <3>2
    <3>3. i \in 1 .. n \/ i = n + 1
      BY <2>1
    <3> QED BY <3>1, <3>2, <3>3, Zenon
  <2> QED BY <2>1, <1>4 DEF OnlyChunks
<1>6. ASSUME OnlyChunks(s, b), m = CloseFrame PROVE ChunksThenClose(t, b)
  <2>1. ASSUME NEW i \in 1 .. Len(t) - 1 PROVE IsChunk(t[i], b)
    BY <1>1, <1>4, <1>6, <2>1 DEF OnlyChunks
  <2>2. t[Len(t)] = CloseFrame
    BY <1>4, <1>6
  <2> QED BY <1>4, <2>1, <2>2 DEF ChunksThenClose
<1>7. ASSUME NEW f, OnTheWay(s, f) \/ f = m PROVE OnTheWay(t, f)
  <2>1. CASE f = m
    <3>1. n + 1 \in 1 .. Len(t)
      BY <1>4
    <3> QED BY <2>1, <3>1, <1>4 DEF OnTheWay
  <2>2. CASE OnTheWay(s, f)
    <3>1. PICK i \in 1 .. n : s[i] = f
      BY <2>2, <1>1 DEF OnTheWay
    <3>2. i \in 1 .. Len(t) /\ t[i] = f
      BY <3>1, <1>4
    <3> QED BY <3>2 DEF OnTheWay
  <2> QED BY <1>7, <2>1, <2>2
<1> QED BY <1>3, <1>5, <1>6, <1>7

LEMMA TailWay ==
    ASSUME NEW s \in Seq(Frames), s # << >>, NEW b
    PROVE  /\ OnlyChunks(s, b) => IsChunk(Head(s), b) /\ OnlyChunks(Tail(s), b)
           /\ ChunksThenClose(s, b) =>
                 \/ Head(s) = CloseFrame /\ Tail(s) = << >>
                 \/ IsChunk(Head(s), b) /\ ChunksThenClose(Tail(s), b)
           /\ \A f : OnTheWay(s, f) => f = Head(s) \/ OnTheWay(Tail(s), f)
<1>1. PICK n \in Nat : n = Len(s)
  OBVIOUS
<1>0. Tail(s) \in Seq(Frames)
  OBVIOUS
<1>2. PICK t \in Seq(Frames) : t = Tail(s)
  BY <1>0, Zenon
<1>3. /\ n > 0 /\ Head(s) = s[1] /\ Len(t) = n - 1
      /\ \A i \in 1 .. n - 1 : t[i] = s[i + 1]
  BY <1>1, <1>2
<1>4. ASSUME OnlyChunks(s, b) PROVE IsChunk(Head(s), b) /\ OnlyChunks(t, b)
  <2>1. IsChunk(s[1], b) /\ \A i \in 1 .. n - 1 : IsChunk(s[i + 1], b)
    BY <1>1, <1>3, <1>4 DEF OnlyChunks
  <2> QED BY <2>1, <1>3 DEF OnlyChunks
<1>5. ASSUME ChunksThenClose(s, b)
      PROVE  \/ Head(s) = CloseFrame /\ t = << >>
             \/ IsChunk(Head(s), b) /\ ChunksThenClose(t, b)
  <2>0. s[n] = CloseFrame /\ \A i \in 1 .. n - 1 : IsChunk(s[i], b)
    BY <1>1, <1>5 DEF ChunksThenClose
  <2>1. CASE n = 1
    <3>1. \A u \in Seq(Frames) : Len(u) = 0 => u = << >>
      OBVIOUS
    <3>2. Len(t) = 0
      BY <1>3, <2>1
    <3> QED BY <1>3, <2>0, <2>1, <3>1, <3>2
  <2>2. CASE n > 1
    <3>1. IsChunk(Head(s), b) /\ t[n - 1] = CloseFrame /\ t # << >>
      <4>1. 1 \in 1 .. n - 1 /\ n - 1 \in 1 .. n - 1 /\ (n - 1) + 1 = n
        BY <2>2
      <4> QED BY <4>1, <2>0, <1>3
    <3>2. ASSUME NEW i \in 1 .. Len(t) - 1 PROVE IsChunk(t[i], b)
      <4>1. i \in 1 .. n - 1 /\ i + 1 \in 1 .. n - 1
        BY <2>2, <1>3, <3>2
      <4> QED BY <4>1, <2>0, <1>3
    <3> QED BY <3>1, <3>2, <1>3 DEF ChunksThenClose
  <2> QED BY <1>3, <2>1, <2>2
<1>6. ASSUME NEW f, OnTheWay(s, f) PROVE f = Head(s) \/ OnTheWay(t, f)
  <2>1. PICK i \in 1 .. n : s[i] = f
    BY <1>1, <1>6 DEF OnTheWay
  <2>2. CASE i = 1
    BY <2>1, <2>2, <1>3
  <2>3. CASE i # 1
    <3>1. i - 1 \in 1 .. n - 1 /\ (i - 1) + 1 = i
      BY <2>1, <2>3
    <3>2. t[i - 1] = f /\ i - 1 \in 1 .. Len(t)
      BY <3>1, <2>1, <1>3
    <3> QED BY <3>2 DEF OnTheWay
  <2> QED BY <2>2, <2>3
<1> QED BY <1>2, <1>4, <1>5, <1>6

\* What the steps a party can take in each state are, when none of them fails.
LEMMA StepsOfAParty ==
    ASSUME Inv, NEW p \in Parties, Step(p), quiet' # Nil
    PROVE  /\ party[p].pc \notin {"idle", "returned"}
           /\ party[p].pc = "listening" =>
                 p \in Sessions /\ \E m : ServeHello(p, m) \/ ServeRequest(p, m) \/ ServeOther(p, m)
           /\ party[p].pc = "expecting" => \E m : FetchHello(p, m)
           /\ party[p].pc = "waiting" => \E m : AwaitOffer(p, m)
           /\ party[p].pc = "reading" => \E m : ReadChunk(p, m) \/ ReadEnd(p, m)
           /\ party[p].pc = "greeting" => SendHello(p)
           /\ party[p].pc = "requesting" => SendRequest(p)
           /\ party[p].pc = "refusing" => SendRefusal(p)
           /\ party[p].pc = "offering" => SendOffer(p)
           /\ party[p].pc = "pushing" => SendChunk(p) \/ SendClose(p)
           /\ party[p].pc = "storing" => StorePackage(p) \/ StoreArtifact(p)
           /\ party[p].pc = "receipting" => StoreReceipt(p)
<1>1. ~SendFrameFails(p)
  BY DEF SendFrameFails
<1>2. CASE ReceiveStep(p)
  BY <1>2 DEF ReceiveStep, ServeHello, ServeRequest, ServeOther, FetchHello, AwaitOffer, ReadChunk,
              ReadEnd, Take
<1>3. CASE SendStep(p)
  BY <1>3 DEF SendStep, SendHello, SendRequest, SendRefusal, SendOffer, SendChunk, SendClose
<1>4. CASE StorePackage(p) \/ StoreArtifact(p) \/ StoreReceipt(p)
  BY <1>4 DEF StorePackage, StoreArtifact, StoreReceipt
<1> QED BY <1>1, <1>2, <1>3, <1>4 DEF Step

\* What receiving, sending and becoming do to the parties and the inboxes.
LEMMA Takes ==
    ASSUME Inv, NEW p \in Parties, NEW pc, NEW m, Take(p, pc, m)
    PROVE  /\ party[p].pc = pc /\ m \in Frames
           /\ In(p) \in Seq(Frames) /\ In(p) # << >> /\ m = Head(In(p))
           /\ inbox'[Here(p)] = Tail(In(p))
           /\ \A n \in Nodes \ {Here(p)} : inbox'[n] = inbox[n]
<1>1. Here(p) \in Nodes /\ inbox \in [Nodes -> Seq(Frames)]
  BY PartyNodes DEF Inv, TypeOK, WireTypeOK
<1>2. party[p].pc = pc /\ m \in Frames
  BY TakeTrue
<1> QED BY <1>1, <1>2 DEF Take, Receive, In

LEMMA Sends ==
    ASSUME Inv, NEW p \in Parties, NEW m \in Frames, Send(There(p), m)
    PROVE  /\ inbox[There(p)] \in Seq(Frames)
           /\ inbox'[There(p)] = Append(inbox[There(p)], m)
           /\ \A n \in Nodes \ {There(p)} : inbox'[n] = inbox[n]
<1>1. There(p) \in Nodes /\ inbox \in [Nodes -> Seq(Frames)]
  BY PartyNodes DEF Inv, TypeOK, WireTypeOK
<1> QED BY <1>1 DEF Send

LEMMA Becomes ==
    ASSUME Inv, NEW p \in Parties, NEW r, Become(p, r)
    PROVE  party'[p] = r /\ \A q \in Parties \ {p} : party'[q] = party[q]
BY DEF Inv, TypeOK, Become

\* A call and a session are on different nodes.
Opposite(p, q) ==
    \/ p \in Calls /\ q \in Sessions
    \/ p \in Sessions /\ q \in Calls

LEMMA OppositeNodes ==
    ASSUME NEW p, NEW q, Opposite(p, q)
    PROVE  /\ p \in Parties /\ q \in Parties /\ p # q
           /\ There(p) = Here(q) /\ There(q) = Here(p) /\ Here(p) # Here(q)
           /\ Here(p) \in Nodes /\ Here(q) \in Nodes
BY PartyAssumption, NodeAssumption DEF Opposite, Parties, Here, There
-----------------------------------------------------------------------------
\* A received chunk of the payload is kept in its place.
LEMMA ChunkIsKept ==
    ASSUME Inv, NEW p \in Parties, NEW m, ReadChunk(p, m),
           DOMAIN party[p].got = DOMAIN party[p].body
    PROVE  /\ m.index \in DOMAIN party[p].body /\ m.data = party[p].body[m.index]
           /\ DOMAIN party'[p].got = DOMAIN party[p].body
           /\ party'[p].got[m.index] = m.data
           /\ \A k \in DOMAIN party[p].body \ {m.index} : party'[p].got[k] = party[p].got[k]
           /\ party'[p].pc = "reading" /\ party'[p].body = party[p].body
           /\ party'[p].op = party[p].op /\ party'[p].id = party[p].id
           /\ party'[p].helloId = party[p].helloId
<1>1. party[p] \in PartyTypes /\ party[p].pc = "reading"
  BY InvParts, PartyFields DEF ReadChunk, Take
<1>2. m.index \in DOMAIN party[p].body /\ m.data = party[p].body[m.index]
  BY DEF ReadChunk, Acceptable
<1> DEFINE g == [party[p].got EXCEPT ![m.index] = m.data]
<1>3. party'[p] = [party[p] EXCEPT !.got = g]
  BY Becomes DEF ReadChunk
<1>4. /\ DOMAIN g = DOMAIN party[p].body
      /\ g[m.index] = m.data
      /\ \A k \in DOMAIN party[p].body \ {m.index} : g[k] = party[p].got[k]
  BY <1>1, <1>2 DEF PartyTypes
<1>5. ASSUME NEW h, party'[p] = [party[p] EXCEPT !.got = h]
      PROVE  /\ party'[p].got = h /\ party'[p].pc = "reading" /\ party'[p].body = party[p].body
             /\ party'[p].op = party[p].op /\ party'[p].id = party[p].id
             /\ party'[p].helloId = party[p].helloId
  BY <1>1, <1>5 DEF PartyTypes
<1>6. party'[p].got = g
  BY <1>3, <1>5
<1> HIDE DEF g
<1> QED BY <1>2, <1>3, <1>4, <1>5, <1>6

\* A whole payload is the payload.
LEMMA Whole ==
    ASSUME NEW g \in Seq(Data \cup {Nil}), NEW b \in Payloads, DOMAIN g = DOMAIN b,
           \A k \in DOMAIN b : g[k] = b[k]
    PROVE  g = b
<1>1. b \in Seq(Data)
  BY PayloadFacts
<1>2. g = [k \in DOMAIN g |-> g[k]] /\ b = [k \in DOMAIN b |-> b[k]]
  BY <1>1
<1> QED BY <1>2

\* The sender of an undisturbed transfer: it waits for the offer, pushes the
\* chunks and closes.
LEMMA PipeSender ==
    ASSUME Inv, NEW p, NEW q, Opposite(p, q), NEW b \in Payloads, Pipe(p, q, b),
           party[p].pc \in {"waiting", "pushing"}, Step(p), quiet' # Nil
    PROVE  /\ Pipe(p, q, b)' /\ party'[q] = party[q] /\ UNCHANGED <<stores, quiet>>
           /\ p \in Calls => /\ party'[p].op = party[p].op /\ party'[p].id = party[p].id
                             /\ party'[p].body = party[p].body /\ party'[p].pc # "returned"
<1>0. /\ p \in Parties /\ q \in Parties /\ p # q /\ There(p) = Here(q) /\ Here(p) # Here(q)
      /\ Here(p) \in Nodes /\ Here(q) \in Nodes
  BY OppositeNodes
<1>1. /\ party[p] \in PartyTypes /\ party[q] \in PartyTypes /\ PartyIsSound(p, party[p])
      /\ party[p].body = b /\ party[q].body = b
  BY <1>0, InvParts, PartyFields DEF Pipe, HasSent
<1>2. CASE party[p].pc = "waiting"
  <2>1. PICK m : AwaitOffer(p, m)
    BY <1>0, <1>2, StepsOfAParty
  <2>2. /\ In(q) = << >> /\ DOMAIN party[q].got = DOMAIN b
        /\ \/ party[q].pc = "offering" /\ In(p) = << >>
           \/ party[q].pc = "reading" /\ In(p) = <<Offer({})>>
    BY <1>2 DEF Pipe, HasSent
  <2>3. /\ In(p) # << >> /\ m = Head(In(p)) /\ inbox'[Here(q)] = inbox[Here(q)]
    BY <1>0, <2>1, Takes DEF AwaitOffer
  <2>4. party[q].pc = "reading" /\ m = Offer({})
    BY <2>2, <2>3
  <2>5. m.kind = "ack" /\ m.have = {}
    BY <2>4 DEF Offer
  <2>6. Become(p, [party[p] EXCEPT !.pc = "pushing", !.left = DOMAIN party[p].body \ m.have])
        /\ UNCHANGED <<stores, quiet>>
    BY <2>1, <2>5 DEF AwaitOffer
  <2>7. /\ party'[p] = [party[p] EXCEPT !.pc = "pushing", !.left = DOMAIN party[p].body \ m.have]
        /\ party'[q] = party[q]
    BY <1>0, <2>6, Becomes
  <2>8. /\ party'[p].pc = "pushing" /\ party'[p].left = DOMAIN b /\ party'[p].body = b
        /\ party'[p].op = party[p].op /\ party'[p].id = party[p].id
    BY <1>1, <2>5, <2>7 DEF PartyTypes
  <2>9. In(q)' = << >>
    BY <2>2, <2>3 DEF In
  <2>10. OnlyChunks(In(q), b)' /\ Conserved(p, q, b)'
    <3>1. OnlyChunks(In(q), b)'
      BY <2>9 DEF OnlyChunks
    <3>2. Conserved(p, q, b)'
      BY <2>2, <2>7, <2>8 DEF Conserved
    <3> QED BY <3>1, <3>2
  <2>11. Pipe(p, q, b)'
    BY <1>1, <2>4, <2>7, <2>8, <2>10 DEF Pipe
  <2> QED BY <1>1, <2>6, <2>7, <2>8, <2>11
<1>3. CASE party[p].pc = "pushing"
  <2>1. /\ party[q].pc = "reading" /\ OnlyChunks(In(q), b) /\ Conserved(p, q, b)
        /\ DOMAIN party[q].got = DOMAIN b
    BY <1>3 DEF Pipe, HasSent, Conserved
  <2>2. CASE SendChunk(p)
    <3>1. PICK i \in party[p].left :
              Transmit(p, ChunkFrame(i, party[p].body[i]), [party[p] EXCEPT !.left = @ \ {i}])
      BY <2>2 DEF SendChunk
    <3>2. i \in DOMAIN b
      BY <1>1, <1>3 DEF PartyIsSound
    <3>3. PICK m \in Frames : m = ChunkFrame(i, b[i]) /\ IsChunk(m, b)
      BY <3>2, FrameFacts DEF IsChunk
    <3>4. /\ Send(There(p), m) /\ Become(p, [party[p] EXCEPT !.left = party[p].left \ {i}])
          /\ UNCHANGED <<stores, quiet>>
      BY <1>1, <3>1, <3>3 DEF Transmit
    <3>5. /\ party'[p] = [party[p] EXCEPT !.left = party[p].left \ {i}]
          /\ party'[q] = party[q]
      BY <1>0, <3>4, Becomes
    <3>6. /\ party'[p].pc = "pushing" /\ party'[p].left = party[p].left \ {i}
          /\ party'[p].body = b /\ party'[p].op = party[p].op /\ party'[p].id = party[p].id
      BY <1>1, <1>3, <3>5 DEF PartyTypes
    <3>7. In(q) \in Seq(Frames) /\ In(q)' = Append(In(q), m)
      BY <1>0, <3>4, Sends DEF In
    <3>8. OnlyChunks(In(q), b)'
      <4>1. OnlyChunks(Append(In(q), m), b)
        BY <2>1, <3>3, <3>7, AppendWay
      <4> QED BY <3>7, <4>1 DEF OnlyChunks, IsChunk, ChunkFrame
    <3>9. ASSUME NEW k \in DOMAIN b \ party'[p].left
          PROVE  party'[q].got[k] = b[k] \/ OnTheWay(In(q)', ChunkFrame(k, b[k]))
      <4>1. CASE k = i
        <5>1. OnTheWay(Append(In(q), m), m)
          BY <3>7, AppendWay
        <5> QED BY <3>3, <3>7, <4>1, <5>1
      <4>2. CASE k # i
        <5>1. party[q].got[k] = b[k] \/ OnTheWay(In(q), ChunkFrame(k, b[k]))
          BY <2>1, <3>6, <3>9, <4>2 DEF Conserved
        <5>2. OnTheWay(In(q), ChunkFrame(k, b[k])) => OnTheWay(Append(In(q), m), ChunkFrame(k, b[k]))
          BY <3>7, AppendWay
        <5> QED BY <3>5, <3>7, <5>1, <5>2
      <4> QED BY <4>1, <4>2
    <3>10. Conserved(p, q, b)'
      BY <2>1, <3>5, <3>9 DEF Conserved, OnTheWay, ChunkFrame
    <3>11. Pipe(p, q, b)'
      BY <1>1, <2>1, <3>5, <3>6, <3>8, <3>10 DEF Pipe
    <3> QED BY <1>1, <3>4, <3>5, <3>6, <3>11
  <2>3. CASE SendClose(p)
    <3>1. PICK m \in Frames : m = CloseFrame
      BY FrameFacts
    <3> DEFINE r == IF p \in Calls THEN [party[p] EXCEPT !.pc = "receipting"]
                    ELSE Returned("serve", Nil, TRUE)
    <3>2. /\ party[p].left = {} /\ Send(There(p), m) /\ Become(p, r) /\ UNCHANGED <<stores, quiet>>
      BY <2>3, <3>1 DEF SendClose, Transmit
    <3>3. party'[p] = r /\ party'[q] = party[q]
      BY <1>0, <3>2, Becomes
    <3>4. /\ HasSent(p)' /\ party'[p].left = {}
          /\ p \in Calls => /\ party'[p].op = party[p].op /\ party'[p].id = party[p].id
                            /\ party'[p].body = party[p].body /\ party'[p].pc # "returned"
      BY <1>1, <3>2, <3>3 DEF HasSent, PartyTypes, Returned
    <3>5. In(q) \in Seq(Frames) /\ In(q)' = Append(In(q), m)
      BY <1>0, <3>2, Sends DEF In
    <3>6. ChunksThenClose(In(q), b)'
      <4>1. ChunksThenClose(Append(In(q), m), b)
        BY <2>1, <3>1, <3>5, AppendWay
      <4> QED BY <3>5, <4>1 DEF ChunksThenClose, IsChunk, ChunkFrame, CloseFrame
    <3>7. ASSUME NEW k \in DOMAIN b
          PROVE  party'[q].got[k] = b[k] \/ OnTheWay(In(q)', ChunkFrame(k, b[k]))
      <4>1. party[q].got[k] = b[k] \/ OnTheWay(In(q), ChunkFrame(k, b[k]))
        BY <2>1, <3>2 DEF Conserved
      <4>2. OnTheWay(In(q), ChunkFrame(k, b[k])) => OnTheWay(Append(In(q), m), ChunkFrame(k, b[k]))
        BY <3>5, AppendWay
      <4> QED BY <3>3, <3>5, <4>1, <4>2
    <3>8. Conserved(p, q, b)'
      BY <2>1, <3>3, <3>7 DEF Conserved, OnTheWay, ChunkFrame
    <3>9. Pipe(p, q, b)'
      BY <1>1, <2>1, <3>3, <3>4, <3>6, <3>8 DEF Pipe
    <3> QED BY <3>2, <3>3, <3>4, <3>9
  <2> QED BY <1>0, <1>3, <2>2, <2>3, StepsOfAParty
<1> QED BY <1>2, <1>3
\* The receiver of an undisturbed transfer: it offers, keeps the chunks, and at
\* the close frame has them all.
LEMMA PipeReceiver ==
    ASSUME Inv, NEW p, NEW q, Opposite(p, q), NEW b \in Payloads, Pipe(p, q, b),
           party[q].pc \in {"offering", "reading"}, Step(q), quiet' # Nil
    PROVE  /\ Pipe(p, q, b)' /\ party'[p] = party[p] /\ UNCHANGED <<stores, quiet>>
           /\ party'[q].op = party[q].op /\ party'[q].id = party[q].id
           /\ party'[q].helloId = party[q].helloId /\ party'[q].pc # "returned"
<1>0. /\ p \in Parties /\ q \in Parties /\ p # q /\ There(q) = Here(p) /\ Here(p) # Here(q)
      /\ Here(p) \in Nodes /\ Here(q) \in Nodes
  BY OppositeNodes
<1>1. party[q] \in PartyTypes /\ party[q].body = b
  BY <1>0, InvParts, PartyFields DEF Pipe
<1>2. CASE party[q].pc = "offering"
  <2>1. /\ SendOffer(q) /\ party[p].pc = "waiting" /\ party[p].body = b
        /\ In(q) = << >> /\ In(p) = << >> /\ DOMAIN party[q].got = DOMAIN b
    BY <1>0, <1>2, StepsOfAParty DEF Pipe
  <2>2. PICK m \in Frames : m = Offer({})
    BY FrameFacts
  <2>3. /\ Send(There(q), m) /\ Become(q, [party[q] EXCEPT !.pc = "reading"])
        /\ UNCHANGED <<stores, quiet>>
    BY <2>1, <2>2 DEF SendOffer, Transmit
  <2>4. party'[q] = [party[q] EXCEPT !.pc = "reading"] /\ party'[p] = party[p]
    BY <1>0, <2>3, Becomes
  <2>5. /\ party'[q].pc = "reading" /\ party'[q].body = b /\ party'[q].got = party[q].got
        /\ party'[q].op = party[q].op /\ party'[q].id = party[q].id
        /\ party'[q].helloId = party[q].helloId
    BY <1>1, <2>4 DEF PartyTypes
  <2>6. In(p)' = Append(In(p), m) /\ In(q)' = << >>
    BY <1>0, <2>1, <2>3, Sends DEF In
  <2>7. In(p)' = <<Offer({})>>
    BY <2>1, <2>2, <2>6
  <2>8. Pipe(p, q, b)'
    BY <2>1, <2>4, <2>5, <2>6, <2>7 DEF Pipe, Offer
  <2> QED BY <2>3, <2>4, <2>5, <2>8
<1>3. CASE party[q].pc = "reading"
  <2>1. PICK m : ReadChunk(q, m) \/ ReadEnd(q, m)
    BY <1>0, <1>3, StepsOfAParty
  <2>2. /\ In(q) \in Seq(Frames) /\ In(q) # << >> /\ m = Head(In(q))
        /\ In(q)' = Tail(In(q)) /\ In(p)' = In(p) /\ UNCHANGED <<stores, quiet>>
    BY <1>0, <2>1, Takes DEF ReadChunk, ReadEnd, In
  <2>3. CASE party[p].pc = "waiting"
    BY <1>3, <2>2, <2>3 DEF Pipe, HasSent
  <2>4. CASE party[p].pc # "waiting"
    <3>1. /\ Conserved(p, q, b) /\ DOMAIN party[q].got = DOMAIN b
          /\ \/ party[p].pc = "pushing" /\ party[p].body = b /\ OnlyChunks(In(q), b)
             \/ HasSent(p) /\ party[p].left = {} /\ ChunksThenClose(In(q), b)
      BY <1>3, <2>4 DEF Pipe, Conserved
    <3>2. \A f : OnTheWay(In(q), f) => f = m \/ OnTheWay(In(q)', f)
      BY <2>2, TailWay
    <3>3. CASE IsChunk(m, b)
      <4>1. PICK j \in DOMAIN b : m = ChunkFrame(j, b[j])
        BY <3>3 DEF IsChunk
      <4>2. m.kind = "chunk" /\ m.index = j /\ m.data = b[j]
        BY <4>1 DEF ChunkFrame
      <4>3. ReadChunk(q, m)
        BY <1>1, <2>1, <4>2 DEF ReadEnd, Acceptable
      <4>4. /\ DOMAIN party'[q].got = DOMAIN b
            /\ party'[q].got[j] = b[j]
            /\ \A k \in DOMAIN b \ {j} : party'[q].got[k] = party[q].got[k]
            /\ party'[q].pc = "reading" /\ party'[q].body = b
            /\ party'[q].op = party[q].op /\ party'[q].id = party[q].id
            /\ party'[q].helloId = party[q].helloId
        <5>1. DOMAIN party[q].got = DOMAIN party[q].body
          BY <1>1, <3>1
        <5>2. /\ DOMAIN party'[q].got = DOMAIN party[q].body
              /\ party'[q].got[m.index] = m.data
              /\ \A k \in DOMAIN party[q].body \ {m.index} : party'[q].got[k] = party[q].got[k]
              /\ party'[q].pc = "reading" /\ party'[q].body = party[q].body
              /\ party'[q].op = party[q].op /\ party'[q].id = party[q].id
              /\ party'[q].helloId = party[q].helloId
          BY <1>0, <4>3, <5>1, ChunkIsKept, Zenon
        <5> QED BY <1>1, <4>2, <5>2
      <4>5. party'[p] = party[p]
        BY <1>0, <4>3, Becomes DEF ReadChunk
      <4>6. ASSUME NEW k \in DOMAIN b \ party'[p].left
            PROVE  party'[q].got[k] = b[k] \/ OnTheWay(In(q)', ChunkFrame(k, b[k]))
        <5>1. CASE k = j
          BY <4>4, <5>1
        <5>2. CASE k # j
          <6>1. party[q].got[k] = b[k] \/ OnTheWay(In(q), ChunkFrame(k, b[k]))
            BY <3>1, <4>5, <4>6 DEF Conserved
          <6>2. ChunkFrame(k, b[k]) # m
            <7>1. ChunkFrame(k, b[k]).index = k
              BY DEF ChunkFrame
            <7> QED BY <4>2, <5>2, <7>1
          <6> QED BY <3>2, <4>4, <5>2, <6>1, <6>2
        <5> QED BY <5>1, <5>2
      <4>7. Conserved(p, q, b)'
        BY <4>4, <4>6 DEF Conserved, OnTheWay, ChunkFrame
      <4>8. CASE party[p].pc = "pushing" /\ party[p].body = b /\ OnlyChunks(In(q), b)
        <5>1. OnlyChunks(Tail(In(q)), b)
          BY <2>2, <4>8, TailWay
        <5>2. OnlyChunks(In(q), b)'
          BY <2>2, <5>1 DEF OnlyChunks, IsChunk, ChunkFrame
        <5>3. Pipe(p, q, b)'
          BY <4>4, <4>5, <4>7, <4>8, <5>2 DEF Pipe
        <5> QED BY <2>2, <4>4, <4>5, <5>3
      <4>9. CASE HasSent(p) /\ party[p].left = {} /\ ChunksThenClose(In(q), b)
        <5>1. m # CloseFrame
          BY <4>2 DEF CloseFrame
        <5>2. ChunksThenClose(Tail(In(q)), b)
          BY <2>2, <4>9, <5>1, TailWay
        <5>3. ChunksThenClose(In(q), b)'
          BY <2>2, <5>2 DEF ChunksThenClose, IsChunk, ChunkFrame, CloseFrame
        <5>4. Pipe(p, q, b)'
          BY <4>4, <4>5, <4>7, <4>9, <5>3 DEF Pipe, HasSent
        <5> QED BY <2>2, <4>4, <4>5, <5>4
      <4> QED BY <3>1, <4>8, <4>9
    <3>4. CASE ~IsChunk(m, b)
      <4>1. /\ HasSent(p) /\ party[p].left = {} /\ m = CloseFrame /\ Tail(In(q)) = << >>
        BY <2>2, <3>1, <3>4, TailWay
      <4>2. m.kind = "close"
        BY <4>1 DEF CloseFrame
      <4>3. ReadEnd(q, m)
        BY <2>1, <4>2 DEF ReadChunk, Acceptable
      <4>4. ASSUME NEW k \in DOMAIN b PROVE party[q].got[k] = b[k]
        <5>1. ChunkFrame(k, b[k]) # m
          BY <4>2 DEF ChunkFrame
        <5>2. ~OnTheWay(In(q)', ChunkFrame(k, b[k]))
          BY <2>2, <4>1 DEF OnTheWay
        <5> QED BY <3>1, <3>2, <4>1, <5>1, <5>2 DEF Conserved
      <4>5. party[q].got = b
        BY <1>1, <3>1, <4>4, Whole DEF PartyTypes
      <4>6. Become(q, [party[q] EXCEPT !.pc = "storing"])
        BY <1>1, <4>2, <4>3, <4>5 DEF ReadEnd, GoTo
      <4>7. party'[q] = [party[q] EXCEPT !.pc = "storing"] /\ party'[p] = party[p]
        BY <1>0, <4>6, Becomes
      <4>8. /\ party'[q].pc = "storing" /\ party'[q].body = b
            /\ party'[q].op = party[q].op /\ party'[q].id = party[q].id
            /\ party'[q].helloId = party[q].helloId
        BY <1>1, <4>7 DEF PartyTypes
      <4>9. Pipe(p, q, b)'
        BY <4>1, <4>7, <4>8 DEF Pipe, HasSent
      <4> QED BY <2>2, <4>7, <4>8, <4>9
    <3> QED BY <3>3, <3>4
  <2> QED BY <2>3, <2>4
<1> QED BY <1>2, <1>3

-----------------------------------------------------------------------------
\* The steps of the call and the session of an undisturbed Distribute.
LEMMA DistributingStep ==
    ASSUME Inv, NEW c \in Calls, NEW s \in Sessions, NEW b \in Payloads, Distributing(c, s, b),
           NEW p \in {c, s}, Step(p), quiet' # Nil
    PROVE  Distributing(c, s, b)' /\ quiet' = quiet
<1>0. /\ c \in Parties /\ s \in Parties /\ c # s /\ Opposite(c, s)
      /\ There(c) = Here(s) /\ There(s) = Here(c) /\ Here(c) # Here(s)
      /\ Here(c) \in Nodes /\ Here(s) \in Nodes /\ s \notin Calls
  BY OppositeNodes, PartyAssumption DEF Opposite
<1>1. /\ party[c] \in PartyTypes /\ party[s] \in PartyTypes /\ PartyIsSound(s, party[s])
      /\ PartyIsSound(c, party[c]) /\ party[c].op = "distribute"
  BY <1>0, InvParts, PartyFields DEF Distributing
<1>2. PICK id : id = party[c].id
  OBVIOUS
<1>3. /\ party[c].pc # "returned" => party[c].body = b
      /\ party[c].pc = "returned" => party[c].ok /\ receipts[Key("distribute", id)] = b
  BY <1>2 DEF Distributing
<1>4. party[p].pc \notin {"idle", "returned"}
  BY <1>0, StepsOfAParty
<1>5. CASE /\ party[c].pc = "greeting" /\ party[c].helloId = id
           /\ party[s].pc = "listening" /\ In(s) = << >> /\ In(c) = << >>
  <2>1. p = c
    <3>1. ASSUME p = s PROVE FALSE
      <4>1. PICK m : ServeHello(s, m) \/ ServeRequest(s, m) \/ ServeOther(s, m)
        BY <1>0, <1>5, <3>1, StepsOfAParty
      <4> QED BY <1>0, <1>5, <4>1, Takes DEF ServeHello, ServeRequest, ServeOther
    <3> QED BY <3>1
  <2>2. SendHello(c) /\ id \in Ids
    BY <1>0, <1>1, <1>2, <1>5, <2>1, StepsOfAParty DEF PartyIsSound
  <2>3. PICK m \in Frames : m = Hello("workpackage", id, b)
    BY <2>2, FrameFacts
  <2>4. /\ Send(There(c), m) /\ Become(c, [party[c] EXCEPT !.pc = "waiting"])
        /\ quiet' = quiet /\ receipts' = receipts
    BY <1>3, <1>5, <2>2, <2>3 DEF SendHello, Transmit, stores
  <2>5. party'[c] = [party[c] EXCEPT !.pc = "waiting"] /\ party'[s] = party[s]
    BY <1>0, <2>4, Becomes
  <2>6. /\ party'[c].pc = "waiting" /\ party'[c].body = b /\ party'[c].op = "distribute"
        /\ party'[c].id = id
    BY <1>1, <1>2, <1>3, <1>5, <2>5 DEF PartyTypes
  <2>7. In(s)' = Append(In(s), m) /\ In(c)' = In(c)
    BY <1>0, <2>4, Sends DEF In
  <2>8. In(s)' = <<Hello("workpackage", id, b)>> /\ In(c)' = << >>
    BY <1>5, <2>3, <2>7
  <2> QED BY <1>5, <2>4, <2>5, <2>6, <2>8 DEF Distributing, Hello
<1>6. CASE /\ party[c].pc = "waiting" /\ party[s].pc = "listening"
           /\ In(s) = <<Hello("workpackage", id, b)>> /\ In(c) = << >>
  <2>1. p = s
    <3>1. ASSUME p = c PROVE FALSE
      <4>1. PICK m : AwaitOffer(c, m)
        BY <1>0, <1>6, <3>1, StepsOfAParty
      <4> QED BY <1>0, <1>6, <4>1, Takes DEF AwaitOffer
    <3> QED BY <3>1
  <2>2. PICK m : ServeHello(s, m) \/ ServeRequest(s, m) \/ ServeOther(s, m)
    BY <1>0, <1>6, <2>1, StepsOfAParty
  <2>3. /\ m = Head(In(s)) /\ In(s)' = Tail(In(s)) /\ In(c)' = In(c) /\ UNCHANGED <<stores, quiet>>
    BY <1>0, <2>2, Takes DEF ServeHello, ServeRequest, ServeOther, In
  <2>4. m = Hello("workpackage", id, b)
    BY <1>6, <2>3
  <2>5. m.kind = "hello" /\ m.object = "workpackage" /\ m.id = id /\ m.body = b
    BY <2>4 DEF Hello
  <2>6. Become(s, [party[s] EXCEPT !.pc = "offering", !.helloId = id, !.body = b,
                                   !.got = [i \in DOMAIN b |-> Nil]])
    BY <2>2, <2>5 DEF ServeHello, ServeRequest, ServeOther
  <2>7. /\ party'[s] = [party[s] EXCEPT !.pc = "offering", !.helloId = id, !.body = b,
                                        !.got = [i \in DOMAIN b |-> Nil]]
        /\ party'[c] = party[c]
    BY <1>0, <2>6, Becomes
  <2>8. ASSUME NEW g, party'[s] = [party[s] EXCEPT !.pc = "offering", !.helloId = id, !.body = b,
                                                   !.got = g]
        PROVE  /\ party'[s].pc = "offering" /\ party'[s].helloId = id /\ party'[s].body = b
               /\ party'[s].got = g
    BY <1>1, <2>8 DEF PartyTypes
  <2>9. /\ party'[s].pc = "offering" /\ party'[s].helloId = id /\ party'[s].body = b
        /\ party'[s].got = [i \in DOMAIN b |-> Nil]
    BY <2>7, <2>8
  <2>10. DOMAIN party'[s].got = DOMAIN b
    BY <2>9
  <2>11. In(s)' = << >> /\ In(c)' = << >>
    BY <1>6, <2>3
  <2>12. Pipe(c, s, b)'
    BY <1>3, <1>6, <2>7, <2>9, <2>10, <2>11 DEF Pipe
  <2> QED BY <1>1, <1>2, <1>3, <1>6, <2>3, <2>7, <2>9, <2>12 DEF Distributing
<1>7. CASE party[s].helloId = id /\ Pipe(c, s, b)
  <2>1. CASE p = c /\ party[c].pc \in {"waiting", "pushing"}
    <3>1. /\ Pipe(c, s, b)' /\ party'[s] = party[s] /\ UNCHANGED <<stores, quiet>>
          /\ party'[c].op = party[c].op /\ party'[c].id = party[c].id
          /\ party'[c].body = party[c].body /\ party'[c].pc # "returned"
      BY <1>0, <1>7, <2>1, PipeSender
    <3> QED BY <1>1, <1>2, <1>3, <1>7, <2>1, <3>1 DEF Distributing
  <2>2. CASE p = c /\ party[c].pc \notin {"waiting", "pushing"}
    <3>1. HasSent(c) /\ party[c].left = {} /\ party[c].pc = "receipting"
      BY <1>4, <1>7, <2>2 DEF Pipe, HasSent
    <3>2. StoreReceipt(c)
      BY <1>0, <2>2, <3>1, StepsOfAParty
    <3>3. /\ Become(c, Returned("distribute", id, TRUE)) /\ inbox' = inbox /\ quiet' = quiet
          /\ receipts' = [receipts EXCEPT ![Key("distribute", id)] = b]
      BY <1>1, <1>2, <1>3, <3>1, <3>2 DEF StoreReceipt, Return, wireVars
    <3>4. party'[c] = Returned("distribute", id, TRUE) /\ party'[s] = party[s]
      BY <1>0, <3>3, Becomes
    <3>5. /\ party'[c].pc = "returned" /\ party'[c].ok /\ party'[c].left = {}
          /\ party'[c].op = "distribute" /\ party'[c].id = id
      BY <3>4 DEF Returned
    <3>6. receipts'[Key("distribute", id)] = b
      <4>1. id \in Ids
        BY <1>1, <1>2, <3>1 DEF PartyIsSound
      <4>2. Key("distribute", id) \in Keys
        BY <4>1 DEF Keys
      <4> QED BY <3>3, <4>2 DEF Inv, TypeOK
    <3>7. HasSent(c)' /\ In(s)' = In(s)
      BY <3>3, <3>5 DEF HasSent, In
    <3>8. Conserved(c, s, b) => Conserved(c, s, b)'
      BY <3>1, <3>4, <3>5, <3>7 DEF Conserved, OnTheWay, ChunkFrame
    <3>9. ChunksThenClose(In(s), b) => ChunksThenClose(In(s), b)'
      BY <3>7 DEF ChunksThenClose, IsChunk, ChunkFrame, CloseFrame
    <3>10. Pipe(c, s, b)'
      BY <1>7, <3>1, <3>4, <3>5, <3>7, <3>8, <3>9 DEF Pipe
    <3> QED BY <1>7, <3>3, <3>4, <3>5, <3>6, <3>10 DEF Distributing, Key
  <2>3. CASE p = s /\ party[s].pc \in {"offering", "reading"}
    <3>1. /\ Pipe(c, s, b)' /\ party'[c] = party[c] /\ UNCHANGED <<stores, quiet>>
          /\ party'[s].helloId = party[s].helloId
      BY <1>0, <1>7, <2>3, PipeReceiver
    <3> QED BY <1>1, <1>2, <1>3, <1>7, <3>1 DEF Distributing, stores, Key
  <2>4. CASE p = s /\ party[s].pc \notin {"offering", "reading"}
    <3>1. HasSent(c) /\ party[s].pc = "storing" /\ party[s].body = b
      BY <1>7, <2>4 DEF Pipe
    <3>2. StorePackage(s) /\ party[s].got = b
      BY <1>0, <1>1, <2>4, <3>1, StepsOfAParty DEF PartyIsSound, StoreArtifact
    <3>3. /\ packages' = [packages EXCEPT ![id] = b] /\ Return(s, TRUE)
          /\ quiet' = quiet /\ receipts' = receipts
      BY <1>7, <3>2 DEF StorePackage
    <3>4. party'[s] = Returned(party[s].op, party[s].id, TRUE) /\ party'[c] = party[c]
      BY <1>0, <3>3, Becomes DEF Return
    <3>5. party'[s].pc = "returned"
      BY <3>4 DEF Returned
    <3>6. packages'[id] = b
      <4>1. id \in Ids
        BY <1>1, <1>2, <3>1 DEF HasSent, PartyIsSound
      <4> QED BY <3>3, <4>1 DEF Inv, TypeOK
    <3> QED BY <1>1, <1>2, <1>3, <3>1, <3>3, <3>4, <3>5, <3>6 DEF Distributing, HasSent, Key
  <2> QED BY <2>1, <2>2, <2>3, <2>4
<1>8. CASE HasSent(c) /\ party[s].pc = "returned" /\ packages[id] = b
  <2>1. p = c /\ party[c].pc = "receipting"
    BY <1>0, <1>4, <1>8 DEF HasSent
  <2>2. StoreReceipt(c)
    BY <1>0, <2>1, StepsOfAParty
  <2>3. /\ Become(c, Returned("distribute", id, TRUE)) /\ quiet' = quiet /\ packages' = packages
        /\ receipts' = [receipts EXCEPT ![Key("distribute", id)] = b]
    BY <1>1, <1>2, <1>3, <2>1, <2>2 DEF StoreReceipt, Return
  <2>4. party'[c] = Returned("distribute", id, TRUE) /\ party'[s] = party[s]
    BY <1>0, <2>3, Becomes
  <2>5. /\ party'[c].pc = "returned" /\ party'[c].ok
        /\ party'[c].op = "distribute" /\ party'[c].id = id
    BY <2>4 DEF Returned
  <2>6. receipts'[Key("distribute", id)] = b
    <3>1. id \in Ids
      BY <1>1, <1>2, <2>1 DEF PartyIsSound
    <3>2. Key("distribute", id) \in Keys
      BY <3>1 DEF Keys
    <3> QED BY <2>3, <3>2 DEF Inv, TypeOK
  <2> QED BY <1>0, <1>8, <2>3, <2>4, <2>5, <2>6 DEF Distributing, HasSent, Key
<1> QED BY <1>2, <1>5, <1>6, <1>7, <1>8 DEF Distributing
\* The steps of the call and the session while an artifact is asked for.
LEMMA AskingStep ==
    ASSUME Inv, NEW c \in Calls, NEW s \in Sessions, Asking(c, s),
           NEW p \in {c, s}, Step(p), quiet' # Nil
    PROVE  (Asking(c, s) \/ Refused(c, s) \/ Fetching(c, s))' /\ quiet' = quiet
<1>0. /\ c \in Parties /\ s \in Parties /\ c # s /\ Opposite(c, s)
      /\ There(c) = Here(s) /\ There(s) = Here(c) /\ Here(c) # Here(s)
      /\ Here(c) \in Nodes /\ Here(s) \in Nodes
  BY OppositeNodes DEF Opposite
<1>1. /\ party[c] \in PartyTypes /\ party[s] \in PartyTypes /\ PartyIsSound(c, party[c])
      /\ party[c].op = "artifact"
  BY <1>0, InvParts, PartyFields DEF Asking
<1>2. PICK id : id = party[c].id
  OBVIOUS
<1>3. CASE /\ party[c].pc = "requesting" /\ party[s].pc = "listening"
           /\ In(s) = << >> /\ In(c) = << >>
  <2>1. p = c
    <3>1. ASSUME p = s PROVE FALSE
      <4>1. PICK m : ServeHello(s, m) \/ ServeRequest(s, m) \/ ServeOther(s, m)
        BY <1>0, <1>3, <3>1, StepsOfAParty
      <4> QED BY <1>0, <1>3, <4>1, Takes DEF ServeHello, ServeRequest, ServeOther
    <3> QED BY <3>1
  <2>2. SendRequest(c) /\ id \in Ids
    BY <1>0, <1>1, <1>2, <1>3, <2>1, StepsOfAParty DEF PartyIsSound
  <2>3. PICK m \in Frames : m = Request(id)
    BY <2>2, FrameFacts
  <2>4. /\ Send(There(c), m) /\ Become(c, [party[c] EXCEPT !.pc = "expecting"])
        /\ quiet' = quiet
    BY <1>2, <2>2, <2>3 DEF SendRequest, Transmit
  <2>5. party'[c] = [party[c] EXCEPT !.pc = "expecting"] /\ party'[s] = party[s]
    BY <1>0, <2>4, Becomes
  <2>6. party'[c].pc = "expecting" /\ party'[c].op = "artifact" /\ party'[c].id = id
    BY <1>1, <1>2, <2>5 DEF PartyTypes
  <2>7. In(s)' = Append(In(s), m) /\ In(c)' = In(c)
    BY <1>0, <2>4, Sends DEF In
  <2>8. In(s)' = <<Request(id)>> /\ In(c)' = << >>
    BY <1>3, <2>3, <2>7
  <2>9. Asking(c, s)'
    BY <1>3, <2>5, <2>6, <2>8 DEF Asking, Request
  <2> QED BY <2>4, <2>9
<1>4. CASE /\ party[c].pc = "expecting" /\ party[s].pc = "listening"
           /\ In(s) = <<Request(id)>> /\ In(c) = << >>
  <2>1. p = s
    <3>1. ASSUME p = c PROVE FALSE
      <4>1. PICK m : FetchHello(c, m)
        BY <1>0, <1>4, <3>1, StepsOfAParty
      <4> QED BY <1>0, <1>4, <4>1, Takes DEF FetchHello
    <3> QED BY <3>1
  <2>2. PICK m : ServeHello(s, m) \/ ServeRequest(s, m) \/ ServeOther(s, m)
    BY <1>0, <1>4, <2>1, StepsOfAParty
  <2>3. /\ m = Head(In(s)) /\ In(s)' = Tail(In(s)) /\ In(c)' = In(c) /\ quiet' = quiet
    BY <1>0, <2>2, Takes DEF ServeHello, ServeRequest, ServeOther, In
  <2>4. m = Request(id)
    BY <1>4, <2>3
  <2>5. m.kind = "request" /\ m.id = id
    BY <2>4 DEF Request
  <2>6. ServeRequest(s, m)
    BY <2>2, <2>5 DEF ServeHello, ServeOther
  <2>7. In(s)' = << >> /\ In(c)' = << >>
    BY <1>4, <2>3
  <2>8. CASE id \in Artifacts
    <3>1. Become(s, [party[s] EXCEPT !.pc = "greeting", !.helloId = id, !.body = Published[id]])
      BY <2>5, <2>6, <2>8 DEF ServeRequest
    <3>2. /\ party'[s] = [party[s] EXCEPT !.pc = "greeting", !.helloId = id, !.body = Published[id]]
          /\ party'[c] = party[c]
      BY <1>0, <3>1, Becomes
    <3>3. party'[s].pc = "greeting" /\ party'[s].helloId = id /\ party'[s].body = Published[id]
      BY <1>1, <3>2 DEF PartyTypes
    <3>4. Fetching(c, s)'
      BY <1>1, <1>2, <1>4, <2>7, <2>8, <3>2, <3>3 DEF Fetching
    <3> QED BY <2>3, <3>4
  <2>9. CASE id \notin Artifacts
    <3>1. Become(s, [party[s] EXCEPT !.pc = "refusing"])
      BY <2>5, <2>6, <2>9 DEF ServeRequest, GoTo
    <3>2. party'[s] = [party[s] EXCEPT !.pc = "refusing"] /\ party'[c] = party[c]
      BY <1>0, <3>1, Becomes
    <3>3. party'[s].pc = "refusing"
      BY <1>1, <3>2 DEF PartyTypes
    <3>4. Refused(c, s)'
      BY <1>1, <1>2, <1>4, <2>7, <2>9, <3>2, <3>3 DEF Refused
    <3> QED BY <2>3, <3>4
  <2> QED BY <2>8, <2>9
<1> QED BY <1>2, <1>3, <1>4 DEF Asking

\* The steps of the call and the session when the artifact is not published.
LEMMA RefusedStep ==
    ASSUME Inv, NEW c \in Calls, NEW s \in Sessions, Refused(c, s),
           NEW p \in {c, s}, Step(p), quiet' # Nil
    PROVE  Refused(c, s)' /\ quiet' = quiet
<1>0. /\ c \in Parties /\ s \in Parties /\ c # s /\ Opposite(c, s)
      /\ There(c) = Here(s) /\ There(s) = Here(c) /\ Here(c) # Here(s)
      /\ Here(c) \in Nodes /\ Here(s) \in Nodes
  BY OppositeNodes DEF Opposite
<1>1. /\ party[c] \in PartyTypes /\ party[s] \in PartyTypes /\ PartyIsSound(c, party[c])
      /\ party[c].op = "artifact" /\ party[c].id \notin Artifacts
  BY <1>0, InvParts, PartyFields DEF Refused
<1>2. party[p].pc \notin {"idle", "returned"}
  BY <1>0, StepsOfAParty
<1>3. CASE party[c].pc = "expecting" /\ party[s].pc = "refusing" /\ In(c) = << >>
  <2>1. p = s
    <3>1. ASSUME p = c PROVE FALSE
      <4>1. PICK m : FetchHello(c, m)
        BY <1>0, <1>3, <3>1, StepsOfAParty
      <4> QED BY <1>0, <1>3, <4>1, Takes DEF FetchHello
    <3> QED BY <3>1
  <2>2. SendRefusal(s)
    BY <1>0, <1>3, <2>1, StepsOfAParty
  <2>3. PICK m \in Frames : m = CloseFrame
    BY FrameFacts
  <2>4. Send(There(s), m) /\ Become(s, Returned("serve", Nil, FALSE)) /\ quiet' = quiet
    BY <2>2, <2>3 DEF SendRefusal, Transmit
  <2>5. party'[s] = Returned("serve", Nil, FALSE) /\ party'[c] = party[c]
    BY <1>0, <2>4, Becomes
  <2>6. party'[s].pc = "returned"
    BY <2>5 DEF Returned
  <2>7. In(c)' = Append(In(c), m)
    BY <1>0, <2>4, Sends DEF In
  <2>8. In(c)' = <<CloseFrame>>
    BY <1>3, <2>3, <2>7
  <2> QED BY <1>1, <1>3, <2>4, <2>5, <2>6, <2>8 DEF Refused, CloseFrame
<1>4. CASE party[c].pc = "expecting" /\ party[s].pc = "returned" /\ In(c) = <<CloseFrame>>
  <2>1. p = c
    BY <1>2, <1>4
  <2>2. PICK m : FetchHello(c, m)
    BY <1>0, <1>4, <2>1, StepsOfAParty
  <2>3. m = Head(In(c)) /\ quiet' = quiet
    BY <1>0, <2>2, Takes DEF FetchHello
  <2>4. m.kind = "close"
    BY <1>4, <2>3 DEF CloseFrame
  <2>5. Become(c, Returned(party[c].op, party[c].id, FALSE))
    BY <2>2, <2>4 DEF FetchHello, Fail, Return
  <2>6. party'[c] = Returned(party[c].op, party[c].id, FALSE)
    BY <1>0, <2>5, Becomes
  <2>7. /\ party'[c].pc = "returned" /\ ~party'[c].ok /\ party'[c].op = party[c].op
        /\ party'[c].id = party[c].id
    BY <2>6 DEF Returned
  <2> QED BY <1>1, <2>3, <2>7 DEF Refused
<1>5. CASE party[c].pc = "returned" /\ ~party[c].ok
  <2>1. p = s
    BY <1>2, <1>5
  <2>2. party'[c] = party[c] /\ quiet' = quiet
    <3>1. \E r : Become(s, r)
      BY <2>1 DEF Step, ReceiveStep, SendStep, ServeHello, ServeRequest, ServeOther, FetchHello,
         AwaitOffer, ReadChunk, ReadEnd, SendHello, SendRequest, SendRefusal, SendOffer, SendChunk,
         SendClose, Transmit, SendFrameFails, StorePackage, StoreArtifact, StoreReceipt, Fail,
         Return, GoTo
    <3>2. party'[c] = party[c]
      BY <1>0, <3>1, Becomes
    <3>3. quiet' = quiet
      BY <2>1 DEF Step, ReceiveStep, SendStep, ServeHello, ServeRequest, ServeOther, FetchHello,
         AwaitOffer, ReadChunk, ReadEnd, SendHello, SendRequest, SendRefusal, SendOffer, SendChunk,
         SendClose, Transmit, SendFrameFails, StorePackage, StoreArtifact, StoreReceipt
    <3> QED BY <3>2, <3>3
  <2> QED BY <1>1, <1>5, <2>2 DEF Refused
<1> QED BY <1>3, <1>4, <1>5 DEF Refused
\* The steps of the call and the session when the artifact is published.
LEMMA FetchingStep ==
    ASSUME Inv, NEW c \in Calls, NEW s \in Sessions, Fetching(c, s),
           NEW p \in {c, s}, Step(p), quiet' # Nil
    PROVE  Fetching(c, s)' /\ quiet' = quiet
<1>0. /\ c \in Parties /\ s \in Parties /\ c # s /\ Opposite(s, c)
      /\ There(c) = Here(s) /\ There(s) = Here(c) /\ Here(c) # Here(s)
      /\ Here(c) \in Nodes /\ Here(s) \in Nodes /\ s \notin Calls /\ c \notin Sessions
  BY OppositeNodes, PartyAssumption DEF Opposite
<1>1. /\ party[c] \in PartyTypes /\ party[s] \in PartyTypes
      /\ PartyIsSound(c, party[c]) /\ PartyIsSound(s, party[s]) /\ party[c].op = "artifact"
  BY <1>0, InvParts, PartyFields DEF Fetching
<1>2. PICK id : id = party[c].id
  OBVIOUS
<1>3. id \in Artifacts /\ id \in Ids /\ Published[id] \in Payloads
  BY <1>2, PayloadFacts DEF Fetching
<1>4. PICK b \in Payloads : b = Published[id]
  BY <1>3
<1>5. party[p].pc \notin {"idle", "returned"}
  BY <1>0, StepsOfAParty
<1>6. CASE /\ party[c].pc = "expecting" /\ In(c) = << >> /\ In(s) = << >>
           /\ party[s].pc = "greeting" /\ party[s].helloId = id /\ party[s].body = b
  <2>1. p = s
    <3>1. ASSUME p = c PROVE FALSE
      <4>1. PICK m : FetchHello(c, m)
        BY <1>0, <1>6, <3>1, StepsOfAParty
      <4> QED BY <1>0, <1>6, <4>1, Takes DEF FetchHello
    <3> QED BY <3>1
  <2>2. SendHello(s)
    BY <1>0, <1>6, <2>1, StepsOfAParty
  <2>3. PICK m \in Frames : m = Hello("artifact", id, b)
    BY <1>3, FrameFacts
  <2>4. /\ Send(There(s), m) /\ Become(s, [party[s] EXCEPT !.pc = "waiting"]) /\ quiet' = quiet
    BY <1>0, <1>6, <2>2, <2>3 DEF SendHello, Transmit
  <2>5. party'[s] = [party[s] EXCEPT !.pc = "waiting"] /\ party'[c] = party[c]
    BY <1>0, <2>4, Becomes
  <2>6. party'[s].pc = "waiting" /\ party'[s].body = b
    BY <1>1, <1>6, <2>5 DEF PartyTypes
  <2>7. In(c)' = Append(In(c), m) /\ In(s)' = In(s)
    BY <1>0, <2>4, Sends DEF In
  <2>8. In(c)' = <<Hello("artifact", id, b)>> /\ In(s)' = << >>
    BY <1>6, <2>3, <2>7
  <2> QED BY <1>1, <1>2, <1>3, <1>4, <1>6, <2>4, <2>5, <2>6, <2>8 DEF Fetching, Hello
<1>7. CASE /\ party[c].pc = "expecting" /\ In(c) = <<Hello("artifact", id, b)>> /\ In(s) = << >>
           /\ party[s].pc = "waiting" /\ party[s].body = b
  <2>1. p = c
    <3>1. ASSUME p = s PROVE FALSE
      <4>1. PICK m : AwaitOffer(s, m)
        BY <1>0, <1>7, <3>1, StepsOfAParty
      <4> QED BY <1>0, <1>7, <4>1, Takes DEF AwaitOffer
    <3> QED BY <3>1
  <2>2. PICK m : FetchHello(c, m)
    BY <1>0, <1>7, <2>1, StepsOfAParty
  <2>3. /\ m = Head(In(c)) /\ In(c)' = Tail(In(c)) /\ In(s)' = In(s) /\ quiet' = quiet
    BY <1>0, <2>2, Takes DEF FetchHello, In
  <2>4. m = Hello("artifact", id, b)
    BY <1>7, <2>3
  <2>5. m.kind = "hello" /\ m.id = id /\ m.body = b
    BY <2>4 DEF Hello
  <2>6. Become(c, [party[c] EXCEPT !.pc = "offering", !.helloId = id, !.body = b,
                                   !.got = [i \in DOMAIN b |-> Nil]])
    BY <2>2, <2>5 DEF FetchHello
  <2>7. /\ party'[c] = [party[c] EXCEPT !.pc = "offering", !.helloId = id, !.body = b,
                                        !.got = [i \in DOMAIN b |-> Nil]]
        /\ party'[s] = party[s]
    BY <1>0, <2>6, Becomes
  <2>8. ASSUME NEW g, party'[c] = [party[c] EXCEPT !.pc = "offering", !.helloId = id, !.body = b,
                                                   !.got = g]
        PROVE  /\ party'[c].pc = "offering" /\ party'[c].body = b /\ party'[c].got = g
               /\ party'[c].op = "artifact" /\ party'[c].id = id
    BY <1>1, <1>2, <2>8 DEF PartyTypes
  <2>9. /\ party'[c].pc = "offering" /\ party'[c].body = b
        /\ party'[c].got = [i \in DOMAIN b |-> Nil]
        /\ party'[c].op = "artifact" /\ party'[c].id = id
    BY <2>7, <2>8
  <2>10. DOMAIN party'[c].got = DOMAIN b
    BY <2>9
  <2>11. In(c)' = << >> /\ In(s)' = << >>
    BY <1>7, <2>3
  <2>12. Pipe(s, c, b)'
    BY <1>7, <2>7, <2>9, <2>10, <2>11 DEF Pipe
  <2>13. Pipe(s, c, Published[id])'
    BY <1>4, <2>12
  <2> QED BY <1>3, <2>3, <2>9, <2>13 DEF Fetching
<1>8. CASE Pipe(s, c, b)
  <2>1. CASE p = s
    <3>1. party[s].pc \in {"waiting", "pushing"}
      BY <1>0, <1>5, <1>8, <2>1 DEF Pipe, HasSent
    <3>2. Pipe(s, c, b)' /\ party'[c] = party[c] /\ UNCHANGED <<stores, quiet>>
      BY <1>0, <1>8, <2>1, <3>1, PipeSender
    <3> QED BY <1>1, <1>2, <1>3, <1>4, <3>2 DEF Fetching
  <2>2. CASE p = c /\ party[c].pc \in {"offering", "reading"}
    <3>1. /\ Pipe(s, c, b)' /\ quiet' = quiet
          /\ party'[c].op = party[c].op /\ party'[c].id = party[c].id
      BY <1>0, <1>8, <2>2, PipeReceiver
    <3> QED BY <1>1, <1>2, <1>3, <1>4, <3>1 DEF Fetching
  <2>3. CASE p = c /\ party[c].pc \notin {"offering", "reading"}
    <3>1. party[c].pc = "storing" /\ party[c].body = b /\ party[c].got = b
      BY <1>1, <1>8, <2>3 DEF Pipe, PartyIsSound
    <3>2. StoreArtifact(c)
      BY <1>0, <2>3, <3>1, StepsOfAParty DEF StorePackage
    <3>3. /\ artifacts' = [artifacts EXCEPT ![id] = b] /\ quiet' = quiet
          /\ Become(c, [party[c] EXCEPT !.pc = "receipting"])
      BY <1>2, <3>1, <3>2 DEF StoreArtifact, GoTo
    <3>4. party'[c] = [party[c] EXCEPT !.pc = "receipting"]
      BY <1>0, <3>3, Becomes
    <3>5. party'[c].pc = "receipting" /\ party'[c].op = "artifact" /\ party'[c].id = id
      BY <1>1, <1>2, <3>4 DEF PartyTypes
    <3>6. artifacts'[id] = b
      BY <1>3, <3>3 DEF Inv, TypeOK
    <3> QED BY <1>3, <1>4, <3>3, <3>5, <3>6 DEF Fetching
  <2> QED BY <2>1, <2>2, <2>3
<1>9. CASE p = s /\ party[c].pc \in {"receipting", "returned"} /\ artifacts[id] = b
           /\ (party[c].pc = "returned" => party[c].ok)
  <2>1. \E r : Become(s, r)
    BY <1>9 DEF Step, ReceiveStep, SendStep, ServeHello, ServeRequest, ServeOther, FetchHello,
       AwaitOffer, ReadChunk, ReadEnd, SendHello, SendRequest, SendRefusal, SendOffer, SendChunk,
       SendClose, Transmit, SendFrameFails, StorePackage, StoreArtifact, StoreReceipt, Fail,
       Return, GoTo
  <2>2. party'[c] = party[c]
    BY <1>0, <2>1, Becomes
  <2>3. quiet' = quiet /\ artifacts' = artifacts
    BY <1>0, <1>9 DEF Step, ReceiveStep, SendStep, ServeHello, ServeRequest, ServeOther, FetchHello,
       AwaitOffer, ReadChunk, ReadEnd, SendHello, SendRequest, SendRefusal, SendOffer, SendChunk,
       SendClose, Transmit, SendFrameFails, StorePackage, StoreArtifact, StoreReceipt, stores
  <2> QED BY <1>1, <1>2, <1>3, <1>4, <1>9, <2>2, <2>3 DEF Fetching
<1>10. CASE p = c /\ party[c].pc = "receipting" /\ artifacts[id] = b
  <2>1. StoreReceipt(c)
    BY <1>0, <1>10, StepsOfAParty
  <2>2. /\ Become(c, Returned("artifact", id, TRUE)) /\ quiet' = quiet /\ artifacts' = artifacts
    BY <1>1, <1>2, <2>1 DEF StoreReceipt, Return
  <2>3. party'[c] = Returned("artifact", id, TRUE)
    BY <1>0, <2>2, Becomes
  <2>4. /\ party'[c].pc = "returned" /\ party'[c].ok /\ party'[c].op = "artifact"
        /\ party'[c].id = id
    BY <2>3 DEF Returned
  <2> QED BY <1>3, <1>4, <1>10, <2>2, <2>4 DEF Fetching
<1>11. p = c => party[c].pc # "returned"
  BY <1>5
<1> QED BY <1>2, <1>4, <1>6, <1>7, <1>8, <1>9, <1>10, <1>11 DEF Fetching

-----------------------------------------------------------------------------
\* A call that finds itself alone with a listening session starts an undisturbed
\* exchange.
LEMMA QuietBegin ==
    ASSUME Inv, NEW c \in Calls, NEW op, NEW id, NEW rec, Begin(c, op, id, rec), quiet' # Nil
    PROVE  \E s \in Sessions :
              /\ quiet' = c /\ party' = [party EXCEPT ![c] = rec]
              /\ party'[c] = rec /\ party'[s].pc = "listening"
              /\ In(s)' = << >> /\ In(c)' = << >>
              /\ \A p \in Parties \ {c, s} : ~Active(p)'
<1>1. /\ quiet' = c /\ Alone(c) /\ Become(c, rec) /\ inbox' = inbox
  BY DEF Begin, wireVars
<1>2. PICK s \in Sessions : /\ party[s].pc = "listening"
                            /\ \A t \in Sessions \ {s} : ~Active(t)
  BY <1>1 DEF Alone
<1>3. c \in Parties /\ s \in Parties /\ c # s /\ Here(c) \in Nodes /\ Here(s) \in Nodes
  BY PartyNodes, PartyAssumption DEF Parties
<1>4. party'[c] = rec /\ \A q \in Parties \ {c} : party'[q] = party[q]
  BY <1>1, <1>3, Becomes
<1>5. In(s)' = << >> /\ In(c)' = << >>
  BY <1>1, <1>3 DEF Alone, In
<1>6. ASSUME NEW p \in Parties \ {c, s} PROVE ~Active(p)'
  BY <1>1, <1>2, <1>4 DEF Alone, Parties, Active
<1> QED BY <1>1, <1>2, <1>3, <1>4, <1>5, <1>6 DEF Become

\* Every step keeps an undisturbed exchange on its way, or disturbs it.
LEMMA QuietStep ==
    ASSUME Inv, QuietInv, [Next]_vars
    PROVE  QuietInv'
<1> SUFFICES ASSUME quiet' # Nil PROVE \E s \in Sessions : Undisturbed(quiet, s)'
  BY DEF QuietInv, Undisturbed
<1>1. ASSUME NEW c \in Calls, NEW w \in Packages, Distribute(c, w)
      PROVE  \E s \in Sessions : Undisturbed(quiet, s)'
  <2> DEFINE rec == NewParty("greeting", "distribute", w.id, w.id, w.body)
  <2>1. Begin(c, "distribute", w.id, rec)
    BY <1>1 DEF Distribute
  <2>2. PICK s \in Sessions :
            /\ quiet' = c /\ party'[c] = rec /\ party'[s].pc = "listening"
            /\ In(s)' = << >> /\ In(c)' = << >>
            /\ \A p \in Parties \ {c, s} : ~Active(p)'
    BY <2>1, QuietBegin
  <2>3. PICK b \in Payloads : b = w.body
    BY PayloadFacts
  <2>4. /\ party'[c].pc = "greeting" /\ party'[c].op = "distribute" /\ party'[c].id = w.id
        /\ party'[c].helloId = w.id /\ party'[c].body = b
    BY <2>2, <2>3 DEF NewParty
  <2>5. Distributing(c, s, b)'
    BY <2>2, <2>4 DEF Distributing
  <2>6. Undisturbed(c, s)'
    BY <2>2, <2>5 DEF Undisturbed
  <2> QED BY <2>2, <2>6
<1>2. ASSUME NEW c \in Calls, NEW a \in Wanted, FetchArtifact(c, a)
      PROVE  \E s \in Sessions : Undisturbed(quiet, s)'
  <2> DEFINE rec == NewParty("requesting", "artifact", a, Nil, Nil)
  <2>1. Begin(c, "artifact", a, rec)
    BY <1>2 DEF FetchArtifact
  <2>2. PICK s \in Sessions :
            /\ quiet' = c /\ party'[c] = rec /\ party'[s].pc = "listening"
            /\ In(s)' = << >> /\ In(c)' = << >>
            /\ \A p \in Parties \ {c, s} : ~Active(p)'
    BY <2>1, QuietBegin
  <2>3. party'[c].pc = "requesting" /\ party'[c].op = "artifact"
    BY <2>2 DEF NewParty
  <2>4. Asking(c, s)'
    BY <2>2, <2>3 DEF Asking
  <2>5. Undisturbed(c, s)'
    BY <2>2, <2>4 DEF Undisturbed
  <2> QED BY <2>2, <2>5
<1>3. ASSUME NEW s \in Sessions, Serve(s) PROVE FALSE
  BY <1>3 DEF Serve
<1>4. ASSUME NEW p \in Parties, GiveUp(p) PROVE FALSE
  BY <1>4 DEF GiveUp
<1>5. ASSUME NEW p \in Parties, Step(p) PROVE \E s \in Sessions : Undisturbed(quiet, s)'
  <2>1. quiet' = quiet
    BY <1>5 DEF Step, ReceiveStep, SendStep, ServeHello, ServeRequest, ServeOther, FetchHello,
       AwaitOffer, ReadChunk, ReadEnd, SendHello, SendRequest, SendRefusal, SendOffer, SendChunk,
       SendClose, Transmit, SendFrameFails, StorePackage, StoreArtifact, StoreReceipt
  <2>2. PICK c \in Calls : c = quiet
    BY <2>1 DEF Inv, TypeOK
  <2>3. PICK s \in Sessions : Undisturbed(c, s)
    BY <2>1, <2>2 DEF QuietInv
  <2>4. p \in {c, s}
    <3>1. Active(p)
      BY <1>5, StepsOfAParty DEF Active
    <3> QED BY <2>3, <3>1 DEF Undisturbed
  <2>5. \A q \in Parties \ {c, s} : ~Active(q)'
    <3>1. \E r : Become(p, r)
      BY <1>5 DEF Step, ReceiveStep, SendStep, ServeHello, ServeRequest, ServeOther, FetchHello,
         AwaitOffer, ReadChunk, ReadEnd, SendHello, SendRequest, SendRefusal, SendOffer, SendChunk,
         SendClose, Transmit, SendFrameFails, StorePackage, StoreArtifact, StoreReceipt, Fail,
         Return, GoTo
    <3>2. \A q \in Parties \ {c, s} : party'[q] = party[q]
      BY <2>4, <3>1, Becomes
    <3> QED BY <2>3, <3>2 DEF Undisturbed, Active
  <2>6. \/ \E b \in Payloads : Distributing(c, s, b)'
        \/ Asking(c, s)'
        \/ Refused(c, s)'
        \/ Fetching(c, s)'
    <3>1. ASSUME NEW b \in Payloads, Distributing(c, s, b) PROVE Distributing(c, s, b)'
      BY <1>5, <2>4, <3>1, DistributingStep
    <3>2. ASSUME Asking(c, s) PROVE Asking(c, s)' \/ Refused(c, s)' \/ Fetching(c, s)'
      BY <1>5, <2>4, <3>2, AskingStep
    <3>3. ASSUME Refused(c, s) PROVE Refused(c, s)'
      BY <1>5, <2>4, <3>3, RefusedStep
    <3>4. ASSUME Fetching(c, s) PROVE Fetching(c, s)'
      BY <1>5, <2>4, <3>4, FetchingStep
    <3> QED BY <2>3, <3>1, <3>2, <3>3, <3>4 DEF Undisturbed
  <2>7. Undisturbed(c, s)'
    BY <2>5, <2>6 DEF Undisturbed
  <2> QED BY <2>1, <2>2, <2>7
<1>6. ASSUME UNCHANGED <<party, inbox, stores, quiet>>
      PROVE  \E s \in Sessions : Undisturbed(quiet, s)'
  <2>1. PICK c \in Calls : c = quiet
    BY <1>6 DEF Inv, TypeOK
  <2>2. PICK s \in Sessions : Undisturbed(c, s)
    BY <1>6, <2>1 DEF QuietInv
  <2>3. /\ party' = party /\ inbox' = inbox /\ quiet' = quiet
        /\ packages' = packages /\ artifacts' = artifacts /\ receipts' = receipts
    BY <1>6 DEF stores
  <2>4. ASSUME NEW a, NEW d, NEW b, Pipe(a, d, b) PROVE Pipe(a, d, b)'
    BY <2>3, <2>4 DEF Pipe, In, HasSent, Conserved, OnTheWay, OnlyChunks, ChunksThenClose, IsChunk
  <2>5. \A b \in Payloads : Distributing(c, s, b) => Distributing(c, s, b)'
    BY <2>3, <2>4 DEF Distributing, Parties, In, HasSent, OnTheWay
  <2>6. Asking(c, s) => Asking(c, s)'
    BY <2>3, <2>4 DEF Asking, Parties, In, HasSent, OnTheWay
  <2>7. Refused(c, s) => Refused(c, s)'
    BY <2>3, <2>4 DEF Refused, Parties, In, HasSent, OnTheWay
  <2>8. Fetching(c, s) => Fetching(c, s)'
    BY <2>3, <2>4 DEF Fetching, Parties, In, HasSent, OnTheWay
  <2>9. \A q \in Parties : Active(q)' = Active(q)
    BY <2>3 DEF Active
  <2>10. Undisturbed(c, s)'
    BY <2>2, <2>5, <2>6, <2>7, <2>8, <2>9 DEF Undisturbed
  <2> QED BY <2>1, <2>3, <2>10
<1>7. ASSUME NEW n \in Nodes, DropLink(n) PROVE \E s \in Sessions : Undisturbed(quiet, s)'
  BY <1>6, <1>7 DEF DropLink, FailNext
<1>8. CASE UNCHANGED vars
  BY <1>6, <1>8 DEF vars, wireVars
<1> QED BY <1>1, <1>2, <1>3, <1>4, <1>5, <1>7, <1>8 DEF Next

\* A Distribute or FetchArtifact that is alone with one listening session, and
\* meets no failed send and no expired context, does what it says: whatever the
\* packages and artifacts are and whatever was exchanged before.
THEOREM QuietExchangesDeliver == Spec => []UndisturbedExchangesDeliver
<1>1. Init => QuietInv
  BY DEF Init, QuietInv
<1>2. Inv /\ QuietInv => UndisturbedExchangesDeliver
  <2> SUFFICES ASSUME Inv, QuietInv, NEW c \in Calls, quiet = c, party[c].pc = "returned"
               PROVE  /\ party[c].op = "artifact" /\ party[c].id \in Artifacts =>
                            party[c].ok /\ artifacts[party[c].id] = Published[party[c].id]
                      /\ party[c].op = "artifact" /\ party[c].id \notin Artifacts => ~party[c].ok
                      /\ party[c].op = "distribute" =>
                            /\ party[c].ok
                            /\ \/ packages[party[c].id] = receipts[Key("distribute", party[c].id)]
                               \/ \E s \in Sessions :
                                     /\ Active(s) /\ party[s].helloId = party[c].id
                                     /\ party[s].body = receipts[Key("distribute", party[c].id)]
    BY DEF UndisturbedExchangesDeliver
  <2>1. PICK s \in Sessions : Undisturbed(c, s)
    BY PayloadAssumption DEF QuietInv
  <2>2. s \notin Calls
    BY PartyAssumption
  <2>3. ASSUME NEW b \in Payloads, Distributing(c, s, b)
        PROVE  /\ party[c].op = "distribute" /\ party[c].ok
               /\ receipts[Key("distribute", party[c].id)] = b
               /\ \/ packages[party[c].id] = b
                  \/ Active(s) /\ party[s].helloId = party[c].id /\ party[s].body = b
    BY <2>3 DEF Distributing, Pipe, Active
  <2>4. ASSUME Asking(c, s) PROVE FALSE
    BY <2>4 DEF Asking
  <2>5. ASSUME Refused(c, s)
        PROVE  party[c].op = "artifact" /\ party[c].id \notin Artifacts /\ ~party[c].ok
    BY <2>5 DEF Refused
  <2>6. ASSUME Fetching(c, s)
        PROVE  /\ party[c].op = "artifact" /\ party[c].id \in Artifacts /\ party[c].ok
               /\ artifacts[party[c].id] = Published[party[c].id]
    BY <2>6 DEF Fetching, Pipe
  <2> QED BY <2>1, <2>3, <2>4, <2>5, <2>6 DEF Undisturbed
<1> QED BY <1>1, <1>2, QuietStep, InvCorrect, PTL DEF Spec
=============================================================================
