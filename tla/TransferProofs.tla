--------------------------- MODULE TransferProofs ---------------------------
(***************************************************************************)
(* The safety part of Transfer for every payload, every set of sources,    *)
(* every number of calls and every inbox capacity.                         *)
(***************************************************************************)
EXTENDS Transfer, TLAPS

\* Append adds its element to the elements of a sequence.
LEMMA AppendElements ==
    ASSUME NEW S, NEW s \in Seq(S), NEW m \in S
    PROVE  {Append(s, m)[i] : i \in DOMAIN Append(s, m)} = {s[i] : i \in DOMAIN s} \cup {m}
<1>1. Len(Append(s, m)) = Len(s) + 1 /\ Len(s) \in Nat /\ DOMAIN s = 1 .. Len(s)
      /\ DOMAIN Append(s, m) = 1 .. Len(s) + 1
  OBVIOUS
<1>2. \A i \in 1 .. Len(s) : Append(s, m)[i] = s[i]
  OBVIOUS
<1>3. Append(s, m)[Len(s) + 1] = m
  OBVIOUS
<1> QED BY <1>1, <1>2, <1>3

\* The elements of a sequence are its head and the elements of its tail.
LEMMA TailElements ==
    ASSUME NEW S, NEW s \in Seq(S), s # << >>
    PROVE  /\ Head(s) \in S
           /\ Tail(s) \in Seq(S)
           /\ Len(Tail(s)) = Len(s) - 1
           /\ {s[i] : i \in DOMAIN s} = {Tail(s)[i] : i \in DOMAIN Tail(s)} \cup {Head(s)}
<1>1. Len(s) \in Nat \ {0} /\ DOMAIN s = 1 .. Len(s) /\ Head(s) = s[1]
  OBVIOUS
<1>2. Tail(s) \in Seq(S) /\ Len(Tail(s)) = Len(s) - 1
      /\ DOMAIN Tail(s) = 1 .. Len(s) - 1
  BY <1>1
<1>3. \A i \in 1 .. Len(s) - 1 : Tail(s)[i] = s[i + 1]
  BY <1>1
<1>4. Head(s) \in S
  BY <1>1
<1>5. {s[i] : i \in DOMAIN s} = {Tail(s)[i] : i \in DOMAIN Tail(s)} \cup {Head(s)}
  <2>1. ASSUME NEW i \in 1 .. Len(s)
        PROVE  s[i] \in {Tail(s)[j] : j \in DOMAIN Tail(s)} \cup {Head(s)}
    <3>1. CASE i = 1
      BY <3>1, <1>1
    <3>2. CASE i # 1
      <4>1. i - 1 \in 1 .. Len(s) - 1 /\ Tail(s)[i - 1] = s[i]
        BY <3>2, <1>1, <1>3
      <4> QED BY <4>1, <1>2
    <3> QED BY <3>1, <3>2
  <2>2. ASSUME NEW j \in 1 .. Len(s) - 1
        PROVE  Tail(s)[j] \in {s[i] : i \in DOMAIN s}
    <3>1. j + 1 \in 1 .. Len(s) /\ Tail(s)[j] = s[j + 1]
      BY <1>1, <1>3
    <3> QED BY <3>1, <1>1
  <2>3. Head(s) \in {s[i] : i \in DOMAIN s}
    BY <1>1
  <2> QED BY <2>1, <2>2, <2>3, <1>1, <1>2
<1> QED BY <1>2, <1>4, <1>5

\* The frames the protocol sends are frames, and kinds tell them apart.
LEMMA FrameFacts ==
    /\ CloseFrame \in Frames
    /\ \A h \in SUBSET Chunks : Offer(h) \in Frames
    /\ \A s \in Sources \cup {Manifest} : \A i \in DOMAIN s : ChunkFrame(i, s[i]) \in Frames
BY DEF Frames

\* A chunk of the manifest is acceptable, with its own index.
LEMMA ManifestChunks ==
    ASSUME NEW i \in Chunks
    PROVE  /\ Acceptable(ChunkFrame(i, Manifest[i]))
           /\ ChunkFrame(i, Manifest[i]).index = i
           /\ ChunkFrame(i, Manifest[i]) # NoFrame
           /\ ChunkFrame(i, Manifest[i]).kind = "chunk"
BY DEF Acceptable, ChunkFrame, NoFrame

\* Wire.Send adds one message to one inbox.
LEMMA SendEffect ==
    ASSUME WireTypeOK(Frames), NEW n \in Nodes, NEW m \in Frames, Send(n, m)
    PROVE  /\ WireTypeOK(Frames)'
           /\ InFlight(n)' = InFlight(n) \cup {m}
           /\ \A k \in Nodes \ {n} : InFlight(k)' = InFlight(k)
<1> USE CapacityAssumption
<1>1. inbox[n] \in Seq(Frames) /\ inbox'[n] = Append(inbox[n], m)
      /\ \A k \in Nodes \ {n} : inbox'[k] = inbox[k]
  BY DEF WireTypeOK, Send
<1>2. WireTypeOK(Frames)'
  <2>1. inbox' \in [Nodes -> Seq(Frames)]
    BY <1>1 DEF WireTypeOK, Send
  <2>2. Len(inbox'[n]) <= Capacity
    BY <1>1 DEF WireTypeOK, Send
  <2> QED BY <1>1, <2>1, <2>2 DEF WireTypeOK, Send
<1>3. InFlight(n)' = InFlight(n) \cup {m}
  <2>1. InFlight(n)' = {Append(inbox[n], m)[i] : i \in DOMAIN Append(inbox[n], m)}
    BY <1>1 DEF InFlight
  <2> QED BY <2>1, <1>1, AppendElements DEF InFlight
<1> QED BY <1>1, <1>2, <1>3 DEF InFlight

\* A failed send leaves the inboxes alone.
LEMMA SendFailsEffect ==
    ASSUME WireTypeOK(Frames), NEW n \in Nodes, SendFails(n)
    PROVE  WireTypeOK(Frames)' /\ \A k \in Nodes : InFlight(k)' = InFlight(k)
BY DEF WireTypeOK, SendFails, InFlight

\* Wire.Receive takes one message from one inbox.
LEMMA ReceiveEffect ==
    ASSUME WireTypeOK(Frames), NEW n \in Nodes, NEW m \in Frames, Receive(n, m)
    PROVE  /\ WireTypeOK(Frames)'
           /\ InFlight(n) = InFlight(n)' \cup {m}
           /\ \A k \in Nodes \ {n} : InFlight(k)' = InFlight(k)
<1> USE CapacityAssumption
<1>1. inbox[n] \in Seq(Frames) /\ inbox[n] # << >> /\ m = Head(inbox[n])
      /\ inbox'[n] = Tail(inbox[n])
      /\ \A k \in Nodes \ {n} : inbox'[k] = inbox[k]
  BY DEF WireTypeOK, Receive
<1>2. /\ Tail(inbox[n]) \in Seq(Frames)
      /\ Len(Tail(inbox[n])) = Len(inbox[n]) - 1
      /\ {inbox[n][i] : i \in DOMAIN inbox[n]}
           = {Tail(inbox[n])[i] : i \in DOMAIN Tail(inbox[n])} \cup {m}
  BY <1>1, TailElements
<1>3. WireTypeOK(Frames)'
  <2>1. inbox' \in [Nodes -> Seq(Frames)]
    BY <1>1, <1>2 DEF WireTypeOK, Receive
  <2>2. Len(inbox[n]) \in Nat /\ Len(inbox[n]) <= Capacity
    BY <1>1 DEF WireTypeOK
  <2>3. Len(inbox'[n]) <= Capacity
    BY <1>1, <1>2, <2>2
  <2> QED BY <1>1, <2>1, <2>3 DEF WireTypeOK, Receive
<1>4. InFlight(n) = InFlight(n)' \cup {m}
  BY <1>1, <1>2 DEF InFlight
<1> QED BY <1>1, <1>3, <1>4 DEF InFlight

-----------------------------------------------------------------------------
\* A disturbance changes the history of the calls only.
LEMMA DisturbedFacts ==
    ASSUME call \in [Calls -> CallRecords]
    PROVE  /\ Disturbed \in [Calls -> CallRecords]
           /\ \A d \in Calls : /\ Disturbed[d].pc = call[d].pc /\ Disturbed[d].src = call[d].src
                               /\ Disturbed[d].left = call[d].left /\ Disturbed[d].ok = call[d].ok
<1>1. ASSUME NEW d \in Calls
      PROVE  Disturbed[d] = [pc |-> call[d].pc, src |-> call[d].src, left |-> call[d].left,
                             ok |-> call[d].ok, quiet |-> call[d].quiet /\ ~Active(d)]
  BY DEF Disturbed, CallRecords
<1>2. ASSUME NEW d \in Calls PROVE Disturbed[d] \in CallRecords
  <2>1. (call[d].quiet /\ ~Active(d)) \in BOOLEAN
    OBVIOUS
  <2>2. \A q \in BOOLEAN : [pc |-> call[d].pc, src |-> call[d].src, left |-> call[d].left,
                            ok |-> call[d].ok, quiet |-> q] \in CallRecords
    BY DEF CallRecords
  <2> QED BY <1>1, <2>1, <2>2, Zenon
<1>3. Disturbed \in [Calls -> CallRecords]
  BY <1>2 DEF Disturbed
<1> QED BY <1>1, <1>3

\* The inductive invariant holds initially.
LEMMA InitInv == Init => Inv
<1> SUFFICES ASSUME Init PROVE Inv
  OBVIOUS
<1> USE NodeAssumption, PayloadAssumption, BoundAssumption, CapacityAssumption
<1>1. WireTypeOK(Frames) /\ \A n \in Nodes : InFlight(n) = {}
  BY DEF Init, WireInit, WireTypeOK, InFlight
<1>2. TypeOK
  <2>1. run \in [Calls -> RunRecords] /\ call \in [Calls -> CallRecords]
    BY DEF Init, RunRecords, CallRecords
  <2>2. \A c \in Calls : call[c].left \subseteq DOMAIN call[c].src
    BY DEF Init
  <2>3. crashed \in BOOLEAN
    BY DEF Init
  <2>4. held \subseteq Chunks /\ expired \subseteq Calls /\ drops \in 0 .. MaxDrops
    BY DEF Init
  <2> QED BY <1>1, <2>1, <2>2, <2>3, <2>4 DEF TypeOK
<1> QED BY <1>1, <1>2 DEF Init, Inv, HandsAreEmpty, OffersAreHeld, NothingIsLost, SuccessIsWhole

\* Every step preserves the inductive invariant.
LEMMA NextInv == Inv /\ [Next]_vars => Inv'
<1> SUFFICES ASSUME Inv, [Next]_vars PROVE Inv'
  OBVIOUS
<1> USE NodeAssumption, PayloadAssumption, BoundAssumption
<1>0. /\ TypeOK /\ HandsAreEmpty /\ OffersAreHeld /\ NothingIsLost /\ SuccessIsWhole
      /\ WireTypeOK(Frames)
      /\ run \in [Calls -> RunRecords] /\ call \in [Calls -> CallRecords]
      /\ held \subseteq Chunks
  BY DEF Inv, TypeOK
<1>1. ASSUME NEW c \in Calls, NEW s \in Sources, Start(c, s) PROVE Inv'
  <2>1. /\ call'[c].pc = "waiting" /\ call'[c].ok = FALSE
        /\ \A d \in Calls \ {c} : call'[d] = call[d]
    BY <1>0, <1>1 DEF Start
  <2>2. /\ run[c].pc = "idle"
        /\ \A d \in Calls : run'[d].frame = run[d].frame /\ run'[d].ok = run[d].ok
        /\ \A d \in Calls \ {c} : run'[d] = run[d]
    BY <1>0, <1>1 DEF Start, HandsAreEmpty, RunRecords
  <2>3. UNCHANGED held /\ \A n \in Nodes : InFlight(n)' = InFlight(n)
    BY <1>1 DEF Start, wireVars, InFlight
  <2>4. TypeOK'
    <3>1. call'[c] \in CallRecords /\ call'[c].left = {}
      <4>1. \A q \in BOOLEAN : [pc |-> "waiting", src |-> s, left |-> {}, ok |-> FALSE,
                                quiet |-> q] \in CallRecords
        BY DEF CallRecords
      <4>2. (Quiet /\ s = Manifest) \in BOOLEAN
        BY Zenon
      <4>3. PICK q \in BOOLEAN :
                call' = [call EXCEPT ![c] = [pc |-> "waiting", src |-> s, left |-> {},
                                             ok |-> FALSE, quiet |-> q]]
        BY <1>1, <4>2, Zenon DEF Start
      <4>4. call'[c] = [pc |-> "waiting", src |-> s, left |-> {}, ok |-> FALSE, quiet |-> q]
        BY <1>0, <4>3
      <4> QED BY <4>1, <4>4
    <3>2. call' \in [Calls -> CallRecords]
      <4>1. call' = [d \in Calls |-> call'[d]]
        BY <1>0, <1>1, Zenon DEF Start
      <4> QED BY <2>1, <3>1, <4>1, <1>0
    <3>3. run' \in [Calls -> RunRecords]
      BY <1>0, <1>1 DEF Start, RunRecords
    <3>4. \A d \in Calls : call'[d].left \subseteq DOMAIN call'[d].src
      BY <1>0, <2>1, <3>1 DEF TypeOK
    <3>5. WireTypeOK(Frames)'
      BY <1>0, <1>1 DEF Start, wireVars, WireTypeOK
    <3> QED BY <1>0, <1>1, <3>2, <3>3, <3>4, <3>5 DEF TypeOK, Start
  <2>5. HandsAreEmpty' /\ OffersAreHeld' /\ SuccessIsWhole'
    BY <1>0, <2>1, <2>2, <2>3 DEF HandsAreEmpty, OffersAreHeld, SuccessIsWhole
  <2>6. NothingIsLost'
    BY <1>0, <2>1, <2>2, <2>3 DEF NothingIsLost
  <2> QED BY <2>4, <2>5, <2>6 DEF Inv
<1>2. ASSUME NEW c \in Calls, RunOffers(c) PROVE Inv'
  <2>1. Offer(held) \in Frames /\ Send("sender", Offer(held))
    BY <1>0, <1>2, FrameFacts DEF RunOffers
  <2>2. /\ WireTypeOK(Frames)'
        /\ InFlight("sender")' = InFlight("sender") \cup {Offer(held)}
        /\ InFlight("receiver")' = InFlight("receiver")
    BY <2>1, <1>0, SendEffect
  <2>3. TypeOK'
    BY <1>0, <1>2, <2>2 DEF TypeOK, RunOffers, RunRecords
  <2>4. HandsAreEmpty' /\ SuccessIsWhole'
    BY <1>0, <1>2 DEF HandsAreEmpty, SuccessIsWhole, RunOffers, RunRecords
  <2>5. OffersAreHeld'
    BY <1>0, <1>2, <2>2 DEF OffersAreHeld, RunOffers, Offer
  <2>6. NothingIsLost'
    BY <1>0, <1>2, <2>2 DEF NothingIsLost, RunOffers, RunRecords
  <2> QED BY <2>3, <2>4, <2>5, <2>6 DEF Inv
<1>3. ASSUME NEW c \in Calls, RunOfferFails(c) PROVE Inv'
  <2>1. WireTypeOK(Frames)' /\ \A n \in Nodes : InFlight(n)' = InFlight(n)
    BY <1>0, <1>3, SendFailsEffect DEF RunOfferFails
  <2>2. call' = Disturbed /\ UNCHANGED held
    BY <1>3 DEF RunOfferFails
  <2>3. \A d \in Calls : /\ run'[d].frame = run[d].frame /\ run'[d].ok = run[d].ok
                         /\ run'[d].pc \in {run[d].pc, "done"}
                         /\ run[d].pc = "idle" => run'[d].pc = "idle"
                         /\ run[d].pc = "holding" => run'[d].pc = "holding"
    BY <1>0, <1>3 DEF RunOfferFails, RunRecords
  <2>4. TypeOK'
    <3>1. run' \in [Calls -> RunRecords]
      BY <1>0, <1>3 DEF RunOfferFails, RunRecords
    <3> QED BY <1>0, <1>3, <2>1, <2>2, <3>1, DisturbedFacts DEF TypeOK, RunOfferFails
  <2>5. HandsAreEmpty' /\ SuccessIsWhole'
    BY <1>0, <2>2, <2>3, DisturbedFacts DEF HandsAreEmpty, SuccessIsWhole
  <2>6. OffersAreHeld'
    BY <1>0, <2>1, <2>2 DEF OffersAreHeld
  <2>7. NothingIsLost'
    BY <1>0, <2>1, <2>2, <2>3, DisturbedFacts DEF NothingIsLost
  <2> QED BY <2>4, <2>5, <2>6, <2>7 DEF Inv
<1>4. ASSUME NEW c \in Calls, RunReceives(c) PROVE Inv'
  <2>1. PICK m \in Frames : /\ Receive("receiver", m)
                            /\ run' = [run EXCEPT ![c].pc = "holding", ![c].frame = m]
    BY <1>4 DEF RunReceives
  <2>2. /\ WireTypeOK(Frames)'
        /\ InFlight("receiver") = InFlight("receiver")' \cup {m}
        /\ InFlight("sender")' = InFlight("sender")
    BY <2>1, <1>0, ReceiveEffect
  <2>3. run[c].frame = NoFrame /\ run'[c].frame = m /\ run'[c].ok = run[c].ok
        /\ \A d \in Calls \ {c} : run'[d] = run[d]
    BY <1>0, <1>4, <2>1 DEF RunReceives, HandsAreEmpty, RunRecords
  <2>4. TypeOK'
    <3>1. run' \in [Calls -> RunRecords]
      BY <1>0, <2>1 DEF RunRecords
    <3> QED BY <1>0, <1>4, <2>2, <3>1 DEF TypeOK, RunReceives
  <2>5. HandsAreEmpty' /\ SuccessIsWhole'
    BY <1>0, <1>4, <2>1, <2>3 DEF HandsAreEmpty, SuccessIsWhole, RunReceives, RunRecords
  <2>6. OffersAreHeld'
    BY <1>0, <1>4, <2>2 DEF OffersAreHeld, RunReceives
  <2>7. NothingIsLost'
    <3>1. UNCHANGED <<call, held>>
      BY <1>4 DEF RunReceives
    <3>2. ASSUME NEW i \in Chunks, NEW d \in Calls, run[d].frame = ChunkFrame(i, Manifest[i])
          PROVE  run'[d].frame = ChunkFrame(i, Manifest[i])
      BY <2>3, <3>2, ManifestChunks
    <3> QED BY <1>0, <2>2, <2>3, <3>1, <3>2 DEF NothingIsLost
  <2> QED BY <2>4, <2>5, <2>6, <2>7 DEF Inv
<1>5. ASSUME NEW c \in Calls, RunExpires(c) PROVE Inv'
  <2>1. TypeOK'
    BY <1>0, <1>5 DEF TypeOK, RunExpires, wireVars, WireTypeOK, RunRecords
  <2>2. HandsAreEmpty' /\ OffersAreHeld' /\ SuccessIsWhole'
    BY <1>0, <1>5 DEF HandsAreEmpty, OffersAreHeld, SuccessIsWhole, RunExpires, wireVars, InFlight,
                      RunRecords
  <2>3. NothingIsLost'
    BY <1>0, <1>5 DEF NothingIsLost, RunExpires, wireVars, InFlight, RunRecords
  <2> QED BY <2>1, <2>2, <2>3 DEF Inv
<1>6. ASSUME NEW c \in Calls, RunAccepts(c) PROVE Inv'
  <2> DEFINE m == run[c].frame
  <2>1. /\ Acceptable(m) /\ m.index \in Chunks /\ held' = held \cup {m.index}
        /\ held' \subseteq Chunks
    BY <1>0, <1>6 DEF RunAccepts, Acceptable
  <2>2. \A n \in Nodes : InFlight(n)' = InFlight(n)
    BY <1>6 DEF RunAccepts, wireVars, InFlight
  <2>3. TypeOK'
    BY <1>0, <1>6, <2>1 DEF TypeOK, RunAccepts, wireVars, WireTypeOK, RunRecords
  <2>4. HandsAreEmpty'
    BY <1>0, <1>6 DEF HandsAreEmpty, RunAccepts, RunRecords
  <2>5. SuccessIsWhole'
    BY <1>0, <1>6, <2>1 DEF SuccessIsWhole, RunAccepts, RunRecords
  <2>6. OffersAreHeld'
    BY <1>0, <2>1, <2>2 DEF OffersAreHeld
  <2>7. NothingIsLost'
    <3>1. \A d \in Calls \ {c} : run'[d] = run[d]
      BY <1>0, <1>6 DEF RunAccepts, RunRecords
    <3> QED BY <1>0, <1>6, <2>1, <2>2, <3>1, ManifestChunks DEF NothingIsLost, RunAccepts
  <2> QED BY <2>3, <2>4, <2>5, <2>6, <2>7 DEF Inv
<1>7. ASSUME NEW c \in Calls, RunEnds(c) PROVE Inv'
  <2> DEFINE m == run[c].frame
  <2>1. \A n \in Nodes : InFlight(n)' = InFlight(n)
    BY <1>7 DEF RunEnds, wireVars, InFlight
  <2>2. TypeOK'
    BY <1>0, <1>7 DEF TypeOK, RunEnds, wireVars, WireTypeOK, RunRecords
  <2>3. HandsAreEmpty' /\ SuccessIsWhole'
    BY <1>0, <1>7 DEF HandsAreEmpty, SuccessIsWhole, RunEnds, RunRecords
  <2>4. OffersAreHeld'
    BY <1>0, <1>7, <2>1 DEF OffersAreHeld, RunEnds
  <2>5. NothingIsLost'
    <3>1. ~Acceptable(m) /\ \A d \in Calls \ {c} : run'[d] = run[d]
      BY <1>0, <1>7 DEF RunEnds, RunRecords
    <3>2. \A i \in Chunks : m # ChunkFrame(i, Manifest[i])
      BY <3>1, ManifestChunks
    <3> QED BY <1>0, <1>7, <2>1, <3>1, <3>2 DEF NothingIsLost, RunEnds
  <2> QED BY <2>2, <2>3, <2>4, <2>5 DEF Inv
<1>8. ASSUME NEW c \in Calls, ServeOffer(c) PROVE Inv'
  <2>1. PICK m \in Frames :
            /\ Receive("sender", m)
            /\ call' = [call EXCEPT ![c].pc = IF m.kind = "ack" THEN "pushing" ELSE "returned",
                                    ![c].left = IF m.kind = "ack" THEN ToSend(c, m.have) ELSE {}]
    BY <1>8 DEF ServeOffer
  <2>2. /\ WireTypeOK(Frames)'
        /\ InFlight("sender") = InFlight("sender")' \cup {m}
        /\ InFlight("receiver")' = InFlight("receiver")
    BY <2>1, <1>0, ReceiveEffect
  <2>3. m.kind = "ack" /\ m.have \subseteq held
    BY <2>2, <1>0 DEF OffersAreHeld
  <2>4. /\ call'[c] = [call[c] EXCEPT !.pc = "pushing", !.left = DOMAIN call[c].src \ m.have]
        /\ \A d \in Calls \ {c} : call'[d] = call[d]
    BY <2>1, <2>3, <1>0 DEF ToSend, CallRecords
  <2>5. TypeOK'
    <3>1. call[c].src \in Seq(Data) /\ DOMAIN call[c].src \subseteq Nat
      BY <1>0 DEF CallRecords
    <3>2. call' \in [Calls -> CallRecords]
      <4>1. DOMAIN call[c].src \ m.have \in SUBSET Nat
        BY <3>1
      <4>2. call'[c] \in CallRecords
        BY <2>4, <4>1, <1>0 DEF CallRecords
      <4>3. call' = [d \in Calls |-> call'[d]]
        BY <2>1, <1>0
      <4> QED BY <2>4, <4>2, <4>3, <1>0
    <3>3. \A d \in Calls : call'[d].left \subseteq DOMAIN call'[d].src
      <4>1. call'[c].left = DOMAIN call[c].src \ m.have /\ call'[c].src = call[c].src
        BY <2>4, <1>0 DEF CallRecords
      <4> QED BY <1>0, <2>4, <4>1 DEF TypeOK
    <3> QED BY <1>0, <1>8, <2>2, <3>2, <3>3 DEF TypeOK, ServeOffer
  <2>6. HandsAreEmpty' /\ OffersAreHeld'
    BY <1>0, <1>8, <2>2 DEF HandsAreEmpty, OffersAreHeld, ServeOffer
  <2>7. SuccessIsWhole'
    BY <1>0, <1>8, <2>4 DEF SuccessIsWhole, ServeOffer, CallRecords
  <2>8. NothingIsLost'
    <3>1. call'[c].src = Manifest => Chunks \ call'[c].left \subseteq held
      BY <2>3, <2>4, <1>0 DEF CallRecords, Chunks
    <3> QED BY <1>0, <1>8, <2>2, <2>4, <3>1 DEF NothingIsLost, ServeOffer
  <2> QED BY <2>5, <2>6, <2>7, <2>8 DEF Inv
<1>9. ASSUME NEW c \in Calls, ServeExpires(c) PROVE Inv'
  <2>1. TypeOK'
    BY <1>0, <1>9 DEF TypeOK, ServeExpires, wireVars, WireTypeOK, CallRecords
  <2>2. HandsAreEmpty' /\ OffersAreHeld' /\ SuccessIsWhole'
    BY <1>0, <1>9 DEF HandsAreEmpty, OffersAreHeld, SuccessIsWhole, ServeExpires, wireVars,
                      InFlight, CallRecords
  <2>3. NothingIsLost'
    BY <1>0, <1>9 DEF NothingIsLost, ServeExpires, wireVars, InFlight, CallRecords
  <2> QED BY <2>1, <2>2, <2>3 DEF Inv
<1>10. ASSUME NEW c \in Calls, Push(c) PROVE Inv'
  <2>1. CASE call[c].left = {}
    <3>1. /\ Send("receiver", CloseFrame)
          /\ call' = [call EXCEPT ![c].pc = "joining"]
          /\ UNCHANGED <<held, run, expired, drops, crashed>>
      BY <1>10, <2>1 DEF Push
    <3>2. /\ WireTypeOK(Frames)'
          /\ InFlight("receiver")' = InFlight("receiver") \cup {CloseFrame}
          /\ InFlight("sender")' = InFlight("sender")
      BY <3>1, <1>0, SendEffect, FrameFacts
    <3>3. TypeOK'
      BY <1>0, <3>1, <3>2 DEF TypeOK, CallRecords
    <3>4. HandsAreEmpty' /\ OffersAreHeld' /\ SuccessIsWhole'
      BY <1>0, <3>1, <3>2 DEF HandsAreEmpty, OffersAreHeld, SuccessIsWhole, CallRecords
    <3>5. NothingIsLost'
      BY <1>0, <1>10, <3>1, <3>2 DEF NothingIsLost, CallRecords, Push
    <3> QED BY <3>3, <3>4, <3>5 DEF Inv
  <2>2. CASE call[c].left # {}
    <3>1. PICK i \in call[c].left :
              /\ Send("receiver", ChunkFrame(i, call[c].src[i]))
              /\ call' = [call EXCEPT ![c].left = call[c].left \ {i}]
      BY <1>10, <2>2 DEF Push
    <3>2. UNCHANGED <<held, run, expired, drops, crashed>> /\ call[c].pc = "pushing"
      BY <1>10 DEF Push
    <3> DEFINE m == ChunkFrame(i, call[c].src[i])
    <3>3. m \in Frames
      BY <1>0, FrameFacts DEF TypeOK, CallRecords
    <3>4. /\ WireTypeOK(Frames)'
          /\ InFlight("receiver")' = InFlight("receiver") \cup {m}
          /\ InFlight("sender")' = InFlight("sender")
      BY <3>1, <3>3, <1>0, SendEffect
    <3>5. TypeOK'
      BY <1>0, <3>1, <3>2, <3>4 DEF TypeOK, CallRecords
    <3>6. HandsAreEmpty' /\ OffersAreHeld' /\ SuccessIsWhole'
      BY <1>0, <3>1, <3>2, <3>4 DEF HandsAreEmpty, OffersAreHeld, SuccessIsWhole, CallRecords
    <3>7. NothingIsLost'
      <4>1. /\ call'[c] = [call[c] EXCEPT !.left = call[c].left \ {i}]
            /\ \A d \in Calls \ {c} : call'[d] = call[d]
        BY <3>1, <1>0 DEF CallRecords
      <4>2. call[c].src = Manifest => m = ChunkFrame(i, Manifest[i])
        OBVIOUS
      <4> QED BY <1>0, <3>2, <3>4, <4>1, <4>2 DEF NothingIsLost, CallRecords
    <3> QED BY <3>5, <3>6, <3>7 DEF Inv
  <2> QED BY <2>1, <2>2
<1>11. ASSUME NEW c \in Calls, PushFails(c) PROVE Inv'
  <2>1. WireTypeOK(Frames)' /\ \A n \in Nodes : InFlight(n)' = InFlight(n)
    BY <1>0, <1>11, SendFailsEffect DEF PushFails
  <2>2. call' = [Disturbed EXCEPT ![c].pc = "returned"]
    BY <1>11 DEF PushFails
  <2>3. /\ call' \in [Calls -> CallRecords]
        /\ \A d \in Calls : /\ call'[d].src = call[d].src /\ call'[d].left = call[d].left
                            /\ call'[d].ok = call[d].ok
                            /\ call'[d].pc \in {call[d].pc, "returned"}
    BY <1>0, <2>2, DisturbedFacts DEF CallRecords
  <2>4. TypeOK'
    BY <1>0, <1>11, <2>1, <2>3 DEF TypeOK, PushFails
  <2>5. HandsAreEmpty' /\ SuccessIsWhole' /\ OffersAreHeld'
    BY <1>0, <1>11, <2>1, <2>3 DEF HandsAreEmpty, SuccessIsWhole, OffersAreHeld, PushFails
  <2>6. NothingIsLost'
    BY <1>0, <1>11, <2>1, <2>3 DEF NothingIsLost, PushFails
  <2> QED BY <2>4, <2>5, <2>6 DEF Inv
<1>12. ASSUME NEW c \in Calls, Join(c) PROVE Inv'
  <2>1. /\ call' = [call EXCEPT ![c].pc = "returned", ![c].ok = run[c].ok]
        /\ UNCHANGED <<held, run>> /\ run[c].ok \in BOOLEAN
    BY <1>0, <1>12 DEF Join, RunRecords
  <2>2. /\ call' \in [Calls -> CallRecords]
        /\ call'[c].pc = "returned" /\ call'[c].ok = run[c].ok
        /\ call'[c].src = call[c].src /\ call'[c].left = call[c].left
        /\ \A d \in Calls \ {c} : call'[d] = call[d]
    BY <1>0, <2>1 DEF CallRecords
  <2>3. \A n \in Nodes : InFlight(n)' = InFlight(n)
    BY <1>12 DEF Join, wireVars, InFlight
  <2>4. TypeOK'
    BY <1>0, <1>12, <2>2 DEF TypeOK, Join, wireVars, WireTypeOK
  <2>5. HandsAreEmpty' /\ OffersAreHeld' /\ SuccessIsWhole'
    BY <1>0, <2>1, <2>2, <2>3 DEF HandsAreEmpty, OffersAreHeld, SuccessIsWhole
  <2>6. NothingIsLost'
    BY <1>0, <2>1, <2>2, <2>3 DEF NothingIsLost
  <2> QED BY <2>4, <2>5, <2>6 DEF Inv
<1>13. ASSUME NEW c \in Calls, NEW d \in Calls, MapFault(c, d) PROVE Inv'
  BY <1>0, <1>13 DEF MapFault, wireVars, Inv, TypeOK, WireTypeOK, HandsAreEmpty, OffersAreHeld,
                     NothingIsLost, SuccessIsWhole, InFlight
<1>14. ASSUME NEW c \in Calls, Expire(c) PROVE Inv'
  <2>0. call' = [call EXCEPT ![c].quiet = call[c].quiet /\ ~Active(c)]
        /\ (call[c].quiet /\ ~Active(c)) \in BOOLEAN
    BY <1>0, <1>14 DEF Expire, CallRecords
  <2>1. call' \in [Calls -> CallRecords]
    <3>1. \A q \in BOOLEAN : [call EXCEPT ![c].quiet = q] \in [Calls -> CallRecords]
      BY <1>0 DEF CallRecords
    <3> QED BY <2>0, <3>1, Zenon
  <2>2. \A d \in Calls : /\ call'[d].src = call[d].src /\ call'[d].left = call[d].left
                         /\ call'[d].ok = call[d].ok /\ call'[d].pc = call[d].pc
    BY <1>0, <2>0 DEF CallRecords
  <2>3. TypeOK'
    BY <1>0, <1>14, <2>1, <2>2 DEF TypeOK, Expire, wireVars, WireTypeOK
  <2>4. HandsAreEmpty' /\ SuccessIsWhole' /\ OffersAreHeld'
    BY <1>0, <1>14, <2>2 DEF HandsAreEmpty, SuccessIsWhole, OffersAreHeld, Expire, wireVars, InFlight
  <2>5. NothingIsLost'
    BY <1>0, <1>14, <2>2 DEF NothingIsLost, Expire, wireVars, InFlight
  <2> QED BY <2>3, <2>4, <2>5 DEF Inv
<1>15. ASSUME NEW n \in Nodes, DropLink(n) PROVE Inv'
  <2>1. WireTypeOK(Frames)' /\ \A k \in Nodes : InFlight(k)' = InFlight(k)
    BY <1>0, <1>15 DEF DropLink, FailNext, WireTypeOK, InFlight
  <2>2. TypeOK'
    BY <1>0, <1>15, <2>1 DEF TypeOK, DropLink
  <2>3. HandsAreEmpty' /\ SuccessIsWhole' /\ OffersAreHeld' /\ NothingIsLost'
    BY <1>0, <1>15, <2>1 DEF HandsAreEmpty, SuccessIsWhole, OffersAreHeld, NothingIsLost, DropLink
  <2> QED BY <2>2, <2>3 DEF Inv
<1>16. CASE UNCHANGED vars
  BY <1>0, <1>16 DEF vars, wireVars, Inv, TypeOK, WireTypeOK, HandsAreEmpty, OffersAreHeld,
                     NothingIsLost, SuccessIsWhole, InFlight
<1> QED
  BY <1>1, <1>2, <1>3, <1>4, <1>5, <1>6, <1>7, <1>8, <1>9, <1>10, <1>11, <1>12, <1>13, <1>14,
     <1>15, <1>16 DEF Next, RunStep, CallStep

-----------------------------------------------------------------------------
\* The inductive invariant of the receiver, its goroutines and the calls holds in
\* every reachable state, for every payload, set of sources and number of calls.
THEOREM InvCorrect == Spec => []Inv
BY InitInv, NextInv, PTL DEF Spec

\* The wire, Receiver.Run and Transfer keep their types.
THEOREM TypeCorrect == Spec => []TypeOK
<1>1. Inv => TypeOK
  BY DEF Inv
<1> QED BY <1>1, InvCorrect, PTL

\* WaitOffer never acts on an offer that names a chunk the receiver lacks.
THEOREM OffersAreSafe == Spec => []OffersAreHeld
<1>1. Inv => OffersAreHeld
  BY DEF Inv
<1> QED BY <1>1, InvCorrect, PTL

\* Between push and Accept no chunk is lost, whichever goroutine reads it.
THEOREM ChunksAreConserved == Spec => []NothingIsLost
<1>1. Inv => NothingIsLost
  BY DEF Inv
<1> QED BY <1>1, InvCorrect, PTL

\* Transfer returns nil only when the receiver holds the whole payload.
THEOREM SuccessIsComplete == Spec => []SuccessIsWhole
<1>1. Inv => SuccessIsWhole
  BY DEF Inv
<1> QED BY <1>1, InvCorrect, PTL
-----------------------------------------------------------------------------
(***************************************************************************)
(* Calls that nothing disturbs.  The invariant follows such a call through *)
(* its exchange: it is alone with its goroutine, what is on the way to the *)
(* receiver are chunks of the manifest and then the close frame, and when  *)
(* that frame is read NothingIsLost says that every chunk is held.         *)
(***************************************************************************)
\* Calls are made one after the other, and only a call that was made expires.
CallsAreInOrder ==
    /\ \A c, d \in Calls : d < c /\ call[c].pc # "idle" => call[d].pc = "returned"
    /\ \A c \in Calls : call[c].pc = "idle" => c \notin expired

\* What is on the way to the receiver while chunks are pushed, and after the close.
OnlyChunks(s) == \A i \in 1 .. Len(s) : Acceptable(s[i])
ChunksThenClose(s) ==
    /\ s # << >>
    /\ s[Len(s)] = CloseFrame
    /\ \A i \in 1 .. Len(s) - 1 : Acceptable(s[i])

\* The goroutine of call c waits for a frame, or has a chunk of the manifest.
TakesChunks(c) ==
    \/ run[c].pc = "reading"
    \/ run[c].pc = "holding" /\ Acceptable(run[c].frame)

Exchange(c) ==
    \/ /\ call[c].pc = "waiting"
       /\ inbox["receiver"] = << >>
       /\ \/ run[c].pc = "reading"
          \/ run[c].pc = "offering" /\ inbox["sender"] = << >>
    \/ /\ call[c].pc = "pushing"
       /\ OnlyChunks(inbox["receiver"])
       /\ TakesChunks(c)
    \/ /\ call[c].pc = "joining"
       /\ call[c].left = {}
       /\ \/ ChunksThenClose(inbox["receiver"]) /\ TakesChunks(c)
          \/ /\ inbox["receiver"] = << >>
             /\ run[c].pc = "holding"
             /\ run[c].frame = CloseFrame
          \/ run[c].pc = "done" /\ run[c].ok

QuietCall(c) ==
    /\ call[c].src = Manifest
    /\ c \notin expired
    /\ \A d \in Calls \ {c} : ~Alive(d)
    /\ Exchange(c)

UndisturbedCall(c) ==
    /\ call[c].quiet /\ Active(c) => QuietCall(c)
    /\ call[c].quiet /\ call[c].pc = "returned" => call[c].ok

QuietInv == CallsAreInOrder /\ \A c \in Calls : UndisturbedCall(c)

\* Two calls are never active together.
LEMMA OneIsActive ==
    ASSUME CallsAreInOrder, NEW c \in Calls, NEW d \in Calls, c # d, Active(c)
    PROVE  ~Active(d)
<1>1. c < d \/ d < c
  BY BoundAssumption DEF Calls
<1> QED BY <1>1 DEF CallsAreInOrder, Active

\* A call with a living goroutine is the only one that may be undisturbed.
LEMMA OneIsAlive ==
    ASSUME QuietInv, NEW c \in Calls, NEW d \in Calls, c # d, Alive(c)
    PROVE  ~(call[d].quiet /\ Active(d))
BY DEF QuietInv, UndisturbedCall, QuietCall

\* A call that is not under way, and does not move, stays as it is.
LEMMA AtRest ==
    ASSUME NEW c \in Calls, UndisturbedCall(c), call'[c] = call[c],
           ~(call[c].quiet /\ Active(c))
    PROVE  UndisturbedCall(c)'
BY DEF UndisturbedCall, Active

\* What a step does to the order of the calls.
LEMMA CallProgress ==
    ASSUME Inv, [Next]_vars,
           ~ \E c \in Calls, s \in Sources : Start(c, s)
    PROVE  \A d \in Calls : /\ call'[d].pc = "idle" <=> call[d].pc = "idle"
                            /\ call[d].pc = "returned" => call'[d].pc = "returned"
                            /\ d \in expired' => d \in expired \/ call[d].pc # "idle"
<1> DEFINE Goal == \A d \in Calls : /\ call'[d].pc = "idle" <=> call[d].pc = "idle"
                                    /\ call[d].pc = "returned" => call'[d].pc = "returned"
                                    /\ d \in expired' => d \in expired \/ call[d].pc # "idle"
<1>0. call \in [Calls -> CallRecords]
  BY DEF Inv, TypeOK
<1>1. ASSUME UNCHANGED <<call, expired>> PROVE Goal
  BY <1>1
<1>2. ASSUME NEW c \in Calls, RunStep(c) PROVE Goal
  <2>1. CASE RunOfferFails(c)
    <3>1. call' = Disturbed /\ expired' = expired
      BY <2>1 DEF RunOfferFails
    <3> QED BY <3>1, <1>0, DisturbedFacts
  <2>2. CASE ~RunOfferFails(c)
    <3>1. UNCHANGED <<call, expired>>
      BY <1>2, <2>2 DEF RunStep, RunOffers, RunReceives, RunExpires, RunAccepts, RunEnds
    <3> QED BY <3>1, <1>1
  <2> QED BY <2>1, <2>2
<1>3. ASSUME NEW c \in Calls, CallStep(c) PROVE Goal
  <2>1. CASE ServeOffer(c)
    BY <2>1, <1>0 DEF ServeOffer, CallRecords
  <2>2. CASE ServeExpires(c)
    BY <2>2, <1>0 DEF ServeExpires, CallRecords
  <2>3. CASE Push(c)
    BY <2>3, <1>0 DEF Push, CallRecords
  <2>4. CASE PushFails(c)
    <3>1. call' = [Disturbed EXCEPT ![c].pc = "returned"] /\ expired' = expired
          /\ call[c].pc = "pushing"
      BY <2>4 DEF PushFails
    <3>2. Disturbed \in [Calls -> CallRecords] /\ \A d \in Calls : Disturbed[d].pc = call[d].pc
      BY <1>0, DisturbedFacts
    <3> HIDE DEF Disturbed
    <3> QED BY <3>1, <3>2 DEF CallRecords
  <2>5. CASE Join(c)
    BY <2>5, <1>0 DEF Join, CallRecords
  <2> QED BY <1>3, <2>1, <2>2, <2>3, <2>4, <2>5 DEF CallStep
<1>4. ASSUME NEW c \in Calls, Expire(c) PROVE Goal
  <2>1. \A d \in Calls : call'[d].pc = call[d].pc
    BY <1>4, <1>0 DEF Expire, CallRecords
  <2> QED BY <2>1, <1>4 DEF Expire
<1>5. ASSUME NEW c \in Calls, NEW d \in Calls, MapFault(c, d) PROVE Goal
  BY <1>1, <1>5 DEF MapFault
<1>6. ASSUME NEW n \in Nodes, DropLink(n) PROVE Goal
  BY <1>1, <1>6 DEF DropLink
<1>7. CASE UNCHANGED vars
  BY <1>1, <1>7 DEF vars
<1> QED BY <1>2, <1>3, <1>4, <1>5, <1>6, <1>7 DEF Next

\* Transfer is called again only when it has returned.
LEMMA OrderStep ==
    ASSUME Inv, CallsAreInOrder, [Next]_vars
    PROVE  CallsAreInOrder'
<1>1. CASE \E c \in Calls, s \in Sources : Start(c, s)
  <2>1. PICK c \in Calls, s \in Sources : Start(c, s)
    BY <1>1
  <2>2. /\ call[c].pc = "idle" /\ (c > 1 => call[c - 1].pc = "returned") /\ expired' = expired
        /\ call'[c].pc = "waiting" /\ \A d \in Calls \ {c} : call'[d] = call[d]
    BY <2>1 DEF Start, Inv, TypeOK
  <2>3. ASSUME NEW a \in Calls, NEW d \in Calls, d < a, call'[a].pc # "idle"
        PROVE  call'[d].pc = "returned"
    <3>1. CASE a = c
      <4>1. c > 1 /\ c - 1 \in Calls /\ (d = c - 1 \/ d < c - 1) /\ d # c
        BY <2>3, <3>1, BoundAssumption DEF Calls
      <4>2. call[c - 1].pc = "returned"
        BY <4>1, <2>2
      <4>3. call[d].pc = "returned"
        BY <4>1, <4>2 DEF CallsAreInOrder
      <4> QED BY <4>1, <4>3, <2>2
    <3>2. CASE a # c
      <4>1. call[d].pc = "returned"
        BY <2>2, <2>3, <3>2 DEF CallsAreInOrder
      <4> QED BY <4>1, <2>2
    <3> QED BY <3>1, <3>2
  <2>4. ASSUME NEW a \in Calls, call'[a].pc = "idle" PROVE a \notin expired'
    BY <2>2, <2>4 DEF CallsAreInOrder
  <2> QED BY <2>3, <2>4 DEF CallsAreInOrder
<1>2. CASE ~ \E c \in Calls, s \in Sources : Start(c, s)
  BY <1>2, CallProgress DEF CallsAreInOrder
<1> QED BY <1>1, <1>2
\* What Append and Tail do to the frames on the way to the receiver.
LEMMA FramesOnTheWay ==
    ASSUME NEW s \in Seq(Frames)
    PROVE  /\ ~Acceptable(CloseFrame)
           /\ OnlyChunks(<< >>)
           /\ \A m \in Frames : OnlyChunks(s) /\ Acceptable(m) => OnlyChunks(Append(s, m))
           /\ OnlyChunks(s) => ChunksThenClose(Append(s, CloseFrame))
           /\ OnlyChunks(s) /\ s # << >> => Acceptable(Head(s)) /\ OnlyChunks(Tail(s))
           /\ ChunksThenClose(s) =>
                 \/ Head(s) = CloseFrame /\ Tail(s) = << >>
                 \/ Acceptable(Head(s)) /\ ChunksThenClose(Tail(s))
<1>1. ~Acceptable(CloseFrame)
  BY DEF Acceptable, CloseFrame
<1>2. OnlyChunks(<< >>)
  BY DEF OnlyChunks
<1>3. PICK n \in Nat : n = Len(s)
  OBVIOUS
<1>4. ASSUME NEW m \in Frames
      PROVE  /\ Len(Append(s, m)) = n + 1 /\ Append(s, m)[n + 1] = m
             /\ \A i \in 1 .. n : Append(s, m)[i] = s[i]
             /\ Append(s, m) # << >>
  BY <1>3
<1>5. ASSUME NEW m \in Frames, OnlyChunks(s), Acceptable(m) PROVE OnlyChunks(Append(s, m))
  <2>1. ASSUME NEW i \in 1 .. n + 1 PROVE Acceptable(Append(s, m)[i])
    <3>1. CASE i \in 1 .. n
      BY <1>3, <1>4, <1>5, <3>1 DEF OnlyChunks
    <3>2. CASE i = n + 1
      BY <1>4, <1>5, <3>2
    <3>3. i \in 1 .. n \/ i = n + 1
      BY <2>1
    <3> QED BY <3>1, <3>2, <3>3, Zenon
  <2> QED BY <2>1, <1>4 DEF OnlyChunks
<1>6. ASSUME OnlyChunks(s) PROVE ChunksThenClose(Append(s, CloseFrame))
  <2>0. \A m \in Frames : Append(s, m) \in Seq(Frames)
    OBVIOUS
  <2>1. PICK t \in Seq(Frames) : t = Append(s, CloseFrame)
    BY <2>0, FrameFacts, Zenon
  <2>2. Len(t) = n + 1 /\ t[n + 1] = CloseFrame /\ t # << >> /\ \A i \in 1 .. n : t[i] = s[i]
    BY <2>1, <1>4, FrameFacts
  <2>3. ASSUME NEW i \in 1 .. Len(t) - 1 PROVE Acceptable(t[i])
    BY <2>2, <2>3, <1>3, <1>6 DEF OnlyChunks
  <2> QED BY <2>1, <2>2, <2>3 DEF ChunksThenClose
<1>7. ASSUME s # << >>
      PROVE  /\ n > 0 /\ Head(s) = s[1] /\ Tail(s) \in Seq(Frames) /\ Len(Tail(s)) = n - 1
             /\ \A i \in 1 .. n - 1 : Tail(s)[i] = s[i + 1]
  BY <1>3, <1>7
<1>8. ASSUME OnlyChunks(s), s # << >> PROVE Acceptable(Head(s)) /\ OnlyChunks(Tail(s))
  <2>1. Acceptable(s[1]) /\ \A i \in 1 .. n - 1 : Acceptable(s[i + 1])
    BY <1>3, <1>7, <1>8 DEF OnlyChunks
  <2> QED BY <2>1, <1>7, <1>8 DEF OnlyChunks
<1>9. ASSUME ChunksThenClose(s)
      PROVE  \/ Head(s) = CloseFrame /\ Tail(s) = << >>
             \/ Acceptable(Head(s)) /\ ChunksThenClose(Tail(s))
  <2>0. s # << >> /\ s[n] = CloseFrame /\ \A i \in 1 .. n - 1 : Acceptable(s[i])
    BY <1>3, <1>9 DEF ChunksThenClose
  <2>1. CASE n = 1
    <3>1. Len(Tail(s)) = 0 /\ Tail(s) \in Seq(Frames)
      BY <1>7, <2>0, <2>1
    <3>2. \A t \in Seq(Frames) : Len(t) = 0 => t = << >>
      OBVIOUS
    <3>3. Tail(s) = << >>
      BY <3>1, <3>2, Zenon
    <3> QED BY <1>7, <2>0, <2>1, <3>3
  <2>2. CASE n > 1
    <3>1. PICK t \in Seq(Frames) : t = Tail(s)
      BY <1>7, <2>0
    <3>2. /\ Len(t) = n - 1 /\ Head(s) = s[1]
          /\ \A i \in 1 .. n - 1 : t[i] = s[i + 1]
      BY <1>7, <2>0, <3>1
    <3>3. Acceptable(Head(s)) /\ t[n - 1] = CloseFrame /\ t # << >>
      <4>1. 1 \in 1 .. n - 1 /\ n - 1 \in 1 .. n - 1 /\ (n - 1) + 1 = n
        BY <2>2
      <4> QED BY <4>1, <2>0, <3>2
    <3>4. ASSUME NEW i \in 1 .. Len(t) - 1 PROVE Acceptable(t[i])
      <4>1. i \in 1 .. n - 1 /\ i + 1 \in 1 .. n - 1
        BY <2>2, <3>2, <3>4
      <4> QED BY <4>1, <2>0, <3>2
    <3> QED BY <3>1, <3>2, <3>3, <3>4 DEF ChunksThenClose
  <2> QED BY <1>7, <2>0, <2>1, <2>2
<1> QED BY <1>1, <1>2, <1>5, <1>6, <1>8, <1>9

\* A failure elsewhere ends the claim of the calls under way and of no other.
LEMMA DisturbedRest ==
    ASSUME call \in [Calls -> CallRecords], NEW e \in Calls, UndisturbedCall(e),
           call'[e] = Disturbed[e]
    PROVE  UndisturbedCall(e)'
<1>1. /\ call'[e].pc = call[e].pc /\ call'[e].ok = call[e].ok
      /\ call'[e].quiet = (call[e].quiet /\ ~Active(e))
  BY DEF Disturbed, CallRecords
<1>2. Active(e)' = Active(e)
  BY <1>1 DEF Active
<1> QED BY <1>1, <1>2 DEF UndisturbedCall

\* Nothing a call depends on has changed.
LEMMA Undisturbed ==
    ASSUME NEW e \in Calls, UndisturbedCall(e), UNCHANGED <<call, run, inbox, expired>>
    PROVE  UndisturbedCall(e)'
BY DEF UndisturbedCall, QuietCall, Active, Alive, Exchange, TakesChunks, OnlyChunks,
       ChunksThenClose

\* When the close frame of an undisturbed call is read, every chunk is held.
LEMMA CloseFindsEverything ==
    ASSUME Inv, NEW c \in Calls, QuietCall(c), call[c].pc = "joining", call[c].left = {},
           inbox["receiver"] = << >>, run[c].frame = CloseFrame
    PROVE  held = Chunks
<1>1. InFlight("receiver") = {}
  BY DEF InFlight
<1>2. ASSUME NEW i \in Chunks, NEW d \in Calls PROVE run[d].frame # ChunkFrame(i, Manifest[i])
  <2>1. CASE d = c
    BY <2>1 DEF CloseFrame, ChunkFrame
  <2>2. CASE d # c
    <3>1. run[d].frame = NoFrame
      BY <2>2 DEF QuietCall, Alive, Inv, HandsAreEmpty
    <3> QED BY <3>1, ManifestChunks
  <2> QED BY <2>1, <2>2
<1>3. \A i \in Chunks : i \in held
  BY <1>1, <1>2 DEF Inv, NothingIsLost, QuietCall
<1> QED BY <1>3 DEF Inv, TypeOK

\* The steps of a goroutine.
LEMMA QuietRunStep ==
    ASSUME Inv, QuietInv, NEW c \in Calls, RunStep(c), NEW e \in Calls
    PROVE  UndisturbedCall(e)'
<1>0. /\ UndisturbedCall(c) /\ UndisturbedCall(e)
      /\ run \in [Calls -> RunRecords] /\ call \in [Calls -> CallRecords]
      /\ inbox["receiver"] \in Seq(Frames) /\ inbox \in [Nodes -> Seq(Frames)]
  BY NodeAssumption DEF QuietInv, Inv, TypeOK, WireTypeOK
<1>1. CASE RunOfferFails(c)
  <2>1. call'[e] = Disturbed[e]
    BY <1>1 DEF RunOfferFails
  <2> QED BY <2>1, <1>0, DisturbedRest
<1>2. CASE ~RunOfferFails(c)
  <2>1. call' = call /\ expired' = expired /\ Alive(c)
    BY <1>2 DEF RunStep, RunOffers, RunReceives, RunExpires, RunAccepts, RunEnds, Alive
  <2>2. CASE ~(call[e].quiet /\ Active(e))
    BY <1>0, <2>1, <2>2, AtRest
  <2>3. CASE call[e].quiet /\ Active(e)
    <3>1. e = c
      BY <2>1, <2>3, OneIsAlive
    <3>2. QuietCall(c)
      BY <1>0, <2>3, <3>1 DEF UndisturbedCall
    <3>3. \A d \in Calls \ {c} : run'[d] = run[d]
      BY <1>0, <1>2 DEF RunStep, RunOffers, RunReceives, RunExpires, RunAccepts, RunEnds
    <3>4. Active(c)' /\ call'[c].pc # "returned"
      BY <2>1, <2>3, <3>1 DEF Active
    <3>5. SUFFICES Exchange(c)'
      <4>1. \A d \in Calls \ {c} : ~Alive(d)'
        BY <3>2, <3>3 DEF QuietCall, Alive
      <4>2. Exchange(c)' => QuietCall(c)'
        BY <2>1, <3>2, <4>1 DEF QuietCall, Alive
      <4> QED BY <3>1, <3>4, <4>2 DEF UndisturbedCall
    <3>6. Exchange(c)
      BY <3>2 DEF QuietCall
    <3>7. CASE RunOffers(c)
      <4>1. run[c].pc = "offering" /\ run'[c].pc = "reading"
            /\ inbox'["receiver"] = inbox["receiver"]
        BY <1>0, <3>7, NodeAssumption DEF RunOffers, Send, RunRecords
      <4>2. call[c].pc = "waiting" /\ inbox["receiver"] = << >>
        BY <4>1, <3>6 DEF Exchange, TakesChunks
      <4> QED BY <2>1, <4>1, <4>2 DEF Exchange
    <3>8. CASE RunReceives(c)
      <4>1. PICK m \in Frames : /\ Receive("receiver", m)
                                /\ run' = [run EXCEPT ![c].pc = "holding", ![c].frame = m]
        BY <3>8 DEF RunReceives
      <4>2. /\ run[c].pc = "reading" /\ run'[c].pc = "holding" /\ run'[c].frame = m
            /\ inbox["receiver"] # << >> /\ m = Head(inbox["receiver"])
            /\ inbox'["receiver"] = Tail(inbox["receiver"])
        BY <1>0, <3>8, <4>1, NodeAssumption DEF RunReceives, Receive, RunRecords
      <4>3. CASE call[c].pc = "pushing"
        <5>1. OnlyChunks(inbox["receiver"])
          BY <3>6, <4>3 DEF Exchange
        <5>2. Acceptable(m) /\ OnlyChunks(Tail(inbox["receiver"]))
          BY <1>0, <4>2, <5>1, FramesOnTheWay
        <5>3. OnlyChunks(inbox["receiver"])' /\ TakesChunks(c)'
          BY <4>2, <5>2 DEF OnlyChunks, TakesChunks, Acceptable
        <5> QED BY <2>1, <4>3, <5>3 DEF Exchange
      <4>4. CASE call[c].pc = "joining"
        <5>1. ChunksThenClose(inbox["receiver"]) /\ call[c].left = {}
          BY <3>6, <4>2, <4>4 DEF Exchange
        <5>2. \/ m = CloseFrame /\ Tail(inbox["receiver"]) = << >>
              \/ Acceptable(m) /\ ChunksThenClose(Tail(inbox["receiver"]))
          BY <1>0, <4>2, <5>1, FramesOnTheWay
        <5>3. CASE m = CloseFrame /\ Tail(inbox["receiver"]) = << >>
          BY <2>1, <4>2, <4>4, <5>1, <5>3 DEF Exchange, CloseFrame
        <5>4. CASE Acceptable(m) /\ ChunksThenClose(Tail(inbox["receiver"]))
          <6>1. ChunksThenClose(inbox["receiver"])' /\ TakesChunks(c)'
            BY <4>2, <5>4 DEF ChunksThenClose, TakesChunks, Acceptable, CloseFrame
          <6> QED BY <2>1, <4>4, <5>1, <6>1 DEF Exchange
        <5> QED BY <5>2, <5>3, <5>4
      <4> QED BY <3>6, <4>2, <4>3, <4>4 DEF Exchange
    <3>9. CASE RunExpires(c)
      BY <3>2, <3>9 DEF RunExpires, QuietCall
    <3>10. CASE RunAccepts(c)
      <4>1. run[c].pc = "holding" /\ Acceptable(run[c].frame) /\ run'[c].pc = "reading"
            /\ inbox' = inbox
        BY <1>0, <3>10 DEF RunAccepts, RunRecords, wireVars
      <4>2. TakesChunks(c)'
        BY <4>1 DEF TakesChunks
      <4>3. ~Acceptable(CloseFrame)
        BY DEF Acceptable, CloseFrame
      <4>4. \/ call[c].pc = "pushing" /\ OnlyChunks(inbox["receiver"])
            \/ call[c].pc = "joining" /\ call[c].left = {} /\ ChunksThenClose(inbox["receiver"])
        BY <3>6, <4>1, <4>3 DEF Exchange
      <4> QED BY <2>1, <4>1, <4>2, <4>4 DEF Exchange, OnlyChunks, ChunksThenClose
    <3>11. CASE RunEnds(c)
      <4>1. /\ run[c].pc = "holding" /\ ~Acceptable(run[c].frame) /\ run'[c].pc = "done"
            /\ run'[c].ok = (run[c].frame.kind = "close" /\ held = Chunks)
        BY <1>0, <3>11 DEF RunEnds, RunRecords
      <4>2. /\ call[c].pc = "joining" /\ call[c].left = {}
            /\ inbox["receiver"] = << >> /\ run[c].frame = CloseFrame
        BY <3>6, <4>1 DEF Exchange, TakesChunks
      <4>3. held = Chunks
        BY <3>2, <4>2, CloseFindsEverything
      <4>4. run'[c].ok
        <5>1. run[c].frame.kind = "close"
          BY <4>2 DEF CloseFrame
        <5> QED BY <4>1, <4>3, <5>1, Zenon
      <4> QED BY <2>1, <4>1, <4>2, <4>4 DEF Exchange
    <3> QED BY <1>2, <3>7, <3>8, <3>9, <3>10, <3>11 DEF RunStep
  <2> QED BY <2>2, <2>3
<1> QED BY <1>1, <1>2

\* The steps of a call.
LEMMA QuietCallStep ==
    ASSUME Inv, QuietInv, NEW c \in Calls, CallStep(c), NEW e \in Calls
    PROVE  UndisturbedCall(e)'
<1>0. /\ UndisturbedCall(c) /\ UndisturbedCall(e) /\ CallsAreInOrder
      /\ run \in [Calls -> RunRecords] /\ call \in [Calls -> CallRecords]
      /\ inbox["receiver"] \in Seq(Frames) /\ inbox \in [Nodes -> Seq(Frames)]
  BY NodeAssumption DEF QuietInv, Inv, TypeOK, WireTypeOK
<1>1. CASE PushFails(c)
  <2>1. call' = [Disturbed EXCEPT ![c].pc = "returned"] /\ Active(c)
    BY <1>1 DEF PushFails, Active
  <2>2. CASE e # c
    <3>1. call'[e] = Disturbed[e]
      BY <2>1, <2>2, <1>0, DisturbedFacts DEF CallRecords
    <3> QED BY <3>1, <1>0, DisturbedRest
  <2>3. CASE e = c
    <3>1. Disturbed[c].quiet = FALSE
      BY <2>1, <1>0 DEF Disturbed, CallRecords
    <3>2. Disturbed \in [Calls -> CallRecords]
      BY <1>0, DisturbedFacts
    <3> HIDE DEF Disturbed
    <3>3. call'[c].quiet = FALSE
      BY <2>1, <3>1, <3>2 DEF CallRecords
    <3> QED BY <2>3, <3>3 DEF UndisturbedCall
  <2> QED BY <2>2, <2>3
<1>2. CASE ~PushFails(c)
  <2>1. /\ Active(c) /\ run' = run /\ expired' = expired
        /\ \A d \in Calls \ {c} : call'[d] = call[d]
        /\ call'[c].quiet = call[c].quiet /\ call'[c].src = call[c].src
    <3>1. CASE ServeOffer(c)
      BY <1>0, <3>1 DEF ServeOffer, Active, CallRecords
    <3>2. CASE ServeExpires(c)
      BY <1>0, <3>2 DEF ServeExpires, Active, CallRecords
    <3>3. CASE Push(c)
      BY <1>0, <3>3 DEF Push, Active, CallRecords
    <3>4. CASE Join(c)
      BY <1>0, <3>4 DEF Join, Active, CallRecords
    <3> QED BY <1>2, <3>1, <3>2, <3>3, <3>4 DEF CallStep
  <2>2. CASE e # c
    <3>1. ~Active(e)
      BY <1>0, <2>1, <2>2, OneIsActive
    <3> QED BY <1>0, <2>1, <2>2, <3>1, AtRest
  <2>3. CASE e = c /\ ~call[c].quiet
    BY <2>1, <2>3 DEF UndisturbedCall
  <2>4. CASE e = c /\ call[c].quiet
    <3>1. QuietCall(c) /\ Exchange(c)
      BY <1>0, <2>1, <2>4 DEF UndisturbedCall, QuietCall
    <3>2. ASSUME Exchange(c)', call'[c].pc # "returned" PROVE UndisturbedCall(e)'
      <4>1. \A d \in Calls \ {c} : ~Alive(d)'
        BY <2>1, <3>1 DEF QuietCall, Alive
      <4>2. QuietCall(c)'
        BY <2>1, <3>1, <3>2, <4>1 DEF QuietCall, Alive
      <4> QED BY <2>4, <3>2, <4>2 DEF UndisturbedCall
    <3>3. CASE ServeOffer(c)
      <4>1. PICK m \in Frames :
                /\ Receive("sender", m)
                /\ call' = [call EXCEPT ![c].pc = IF m.kind = "ack" THEN "pushing" ELSE "returned",
                                        ![c].left = IF m.kind = "ack" THEN ToSend(c, m.have) ELSE {}]
        BY <3>3 DEF ServeOffer
      <4>2. InFlight("sender") = InFlight("sender")' \cup {m}
        BY <4>1, NodeAssumption, ReceiveEffect DEF Inv, TypeOK
      <4>3. m.kind = "ack"
        BY <4>2 DEF Inv, OffersAreHeld
      <4>4. call'[c].pc = "pushing" /\ call[c].pc = "waiting" /\ inbox["sender"] # << >>
            /\ inbox'["receiver"] = inbox["receiver"]
        BY <1>0, <3>3, <4>1, <4>3, NodeAssumption DEF ServeOffer, Receive, CallRecords
      <4>5. inbox["receiver"] = << >> /\ run[c].pc = "reading"
        BY <3>1, <4>4 DEF Exchange
      <4>6. OnlyChunks(inbox["receiver"])' /\ TakesChunks(c)'
        BY <2>1, <4>4, <4>5 DEF OnlyChunks, TakesChunks
      <4>7. Exchange(c)'
        BY <4>4, <4>6 DEF Exchange
      <4> QED BY <3>2, <4>4, <4>7
    <3>4. CASE ServeExpires(c)
      BY <3>1, <3>4 DEF ServeExpires, QuietCall
    <3>5. CASE Push(c)
      <4>0. /\ call[c].pc = "pushing" /\ OnlyChunks(inbox["receiver"]) /\ TakesChunks(c)
            /\ call[c].src = Manifest /\ call[c].left \subseteq Chunks
        <5>1. call[c].pc = "pushing"
          BY <3>5 DEF Push
        <5>2. call[c].left \subseteq DOMAIN Manifest /\ DOMAIN Manifest = Chunks
          BY <3>1, PayloadAssumption DEF Inv, TypeOK, QuietCall, Chunks
        <5> QED BY <5>1, <5>2, <3>1 DEF Exchange, QuietCall
      <4>1. CASE call[c].left = {}
        <5>1. /\ call' = [call EXCEPT ![c].pc = "joining"]
              /\ inbox'["receiver"] = Append(inbox["receiver"], CloseFrame)
          BY <1>0, <3>5, <4>1, NodeAssumption DEF Push, Send
        <5>2. call'[c].pc = "joining" /\ call'[c].left = {}
          BY <1>0, <4>1, <5>1 DEF CallRecords
        <5>3. ChunksThenClose(Append(inbox["receiver"], CloseFrame))
          BY <1>0, <4>0, FramesOnTheWay
        <5>4. ChunksThenClose(inbox["receiver"])' /\ TakesChunks(c)'
          BY <2>1, <4>0, <5>1, <5>3 DEF ChunksThenClose, TakesChunks, CloseFrame, Acceptable
        <5>5. Exchange(c)'
          BY <5>2, <5>4 DEF Exchange
        <5> QED BY <3>2, <5>2, <5>5
      <4>2. CASE call[c].left # {}
        <5>1. PICK i \in call[c].left :
                  /\ Send("receiver", ChunkFrame(i, call[c].src[i]))
                  /\ call' = [call EXCEPT ![c].left = call[c].left \ {i}]
          BY <3>5, <4>2 DEF Push
        <5>2. PICK m \in Frames : m = ChunkFrame(i, Manifest[i]) /\ Acceptable(m)
          BY <4>0, ManifestChunks, FrameFacts, PayloadAssumption DEF Chunks
        <5>3. inbox'["receiver"] = Append(inbox["receiver"], m)
          BY <1>0, <4>0, <5>1, <5>2, NodeAssumption DEF Send
        <5>4. call'[c].pc = "pushing"
          BY <1>0, <4>0, <5>1 DEF CallRecords
        <5>5. OnlyChunks(Append(inbox["receiver"], m))
          BY <1>0, <4>0, <5>2, FramesOnTheWay
        <5>6. OnlyChunks(inbox["receiver"])' /\ TakesChunks(c)'
          BY <2>1, <4>0, <5>3, <5>5 DEF OnlyChunks, TakesChunks, Acceptable
        <5>7. Exchange(c)'
          BY <5>4, <5>6 DEF Exchange
        <5> QED BY <3>2, <5>4, <5>7
      <4> QED BY <4>1, <4>2
    <3>6. CASE Join(c)
      <4>1. call[c].pc = "joining" /\ run[c].pc = "done" /\ call'[c].pc = "returned"
            /\ call'[c].ok = run[c].ok
        BY <1>0, <3>6 DEF Join, CallRecords
      <4>2. run[c].ok
        BY <3>1, <4>1 DEF Exchange, TakesChunks
      <4> QED BY <2>4, <4>1, <4>2 DEF UndisturbedCall, Active
    <3> QED BY <1>2, <3>3, <3>4, <3>5, <3>6 DEF CallStep
  <2> QED BY <2>2, <2>3, <2>4
<1> QED BY <1>1, <1>2

\* A call that starts on a quiet link is undisturbed so far.
LEMMA QuietStart ==
    ASSUME Inv, QuietInv, NEW c \in Calls, NEW s \in Sources, Start(c, s), NEW e \in Calls
    PROVE  UndisturbedCall(e)'
<1>0. /\ UndisturbedCall(e) /\ CallsAreInOrder
      /\ run \in [Calls -> RunRecords] /\ call \in [Calls -> CallRecords]
  BY DEF QuietInv, Inv, TypeOK
<1>1. /\ call[c].pc = "idle" /\ (c > 1 => call[c - 1].pc = "returned")
      /\ \A d \in Calls \ {c} : call'[d] = call[d] /\ run'[d] = run[d]
      /\ call'[c].pc = "waiting" /\ call'[c].src = s
      /\ call'[c].quiet = (Quiet /\ s = Manifest)
      /\ run'[c].pc = "offering" /\ inbox' = inbox /\ expired' = expired
  BY <1>0 DEF Start, wireVars, RunRecords
<1>2. CASE e # c
  <2>1. ~Active(e)
    <3>1. CASE c < e
      BY <1>0, <1>1, <3>1 DEF CallsAreInOrder, Active
    <3>2. CASE e < c
      <4>1. c > 1 /\ c - 1 \in Calls /\ (e = c - 1 \/ e < c - 1)
        BY <3>2, BoundAssumption DEF Calls
      <4>2. call[c - 1].pc = "returned"
        BY <1>1, <4>1
      <4>3. call[e].pc = "returned"
        BY <1>0, <4>1, <4>2 DEF CallsAreInOrder
      <4> QED BY <4>3 DEF Active
    <3>3. c < e \/ e < c
      BY <1>2, BoundAssumption DEF Calls
    <3> QED BY <3>1, <3>2, <3>3
  <2> QED BY <1>0, <1>1, <1>2, <2>1, AtRest
<1>3. CASE e = c
  <2>1. ASSUME call'[c].quiet PROVE QuietCall(c)'
    <3>1. Quiet /\ s = Manifest
      BY <1>1, <2>1
    <3>2. /\ \A d \in Calls \ {c} : ~Alive(d)'
          /\ inbox["receiver"] = << >> /\ inbox["sender"] = << >>
      BY <1>1, <3>1, NodeAssumption DEF Quiet, Alive
    <3>3. Exchange(c)'
      BY <1>1, <3>2 DEF Exchange
    <3>4. c \notin expired'
      BY <1>0, <1>1 DEF CallsAreInOrder
    <3> QED BY <1>1, <3>1, <3>2, <3>3, <3>4 DEF QuietCall, Alive
  <2> QED BY <1>1, <1>3, <2>1 DEF UndisturbedCall
<1> QED BY <1>2, <1>3

LEMMA QuietStep ==
    ASSUME Inv, QuietInv, [Next]_vars
    PROVE  QuietInv'
<1>0. CallsAreInOrder'
  BY OrderStep DEF QuietInv
<1>1. ASSUME NEW e \in Calls PROVE UndisturbedCall(e)'
  <2>0. UndisturbedCall(e) /\ call \in [Calls -> CallRecords]
    BY DEF QuietInv, Inv, TypeOK
  <2>1. ASSUME NEW c \in Calls, Expire(c) PROVE UndisturbedCall(e)'
    <3>1. /\ expired' = expired \cup {c} /\ UNCHANGED <<run, inbox>>
          /\ call' = [call EXCEPT ![c].quiet = call[c].quiet /\ ~Active(c)]
      BY <2>1 DEF Expire, wireVars
    <3>2. CASE e = c
      <4>1. /\ call'[c].quiet = (call[c].quiet /\ ~Active(c))
            /\ call'[c].pc = call[c].pc /\ call'[c].ok = call[c].ok
        BY <2>0, <3>1 DEF CallRecords
      <4>2. Active(c)' = Active(c)
        BY <4>1 DEF Active
      <4> QED BY <2>0, <3>2, <4>1, <4>2 DEF UndisturbedCall
    <3>3. CASE e # c
      <4>1. call'[e] = call[e] /\ (e \in expired' <=> e \in expired)
        BY <2>0, <3>1, <3>3 DEF CallRecords
      <4> QED BY <2>0, <3>1, <4>1 DEF UndisturbedCall, QuietCall, Active, Alive, Exchange,
              TakesChunks, OnlyChunks, ChunksThenClose
    <3> QED BY <3>2, <3>3
  <2>2. ASSUME NEW c \in Calls, NEW d \in Calls, MapFault(c, d) PROVE UndisturbedCall(e)'
    BY <2>0, <2>2, Undisturbed DEF MapFault, wireVars
  <2>3. ASSUME NEW n \in Nodes, DropLink(n) PROVE UndisturbedCall(e)'
    BY <2>0, <2>3, Undisturbed DEF DropLink, FailNext
  <2>4. CASE UNCHANGED vars
    BY <2>0, <2>4, Undisturbed DEF vars, wireVars
  <2> QED BY <2>1, <2>2, <2>3, <2>4, QuietStart, QuietRunStep, QuietCallStep DEF Next
<1> QED BY <1>0, <1>1 DEF QuietInv

\* A call of Transfer that starts on a quiet link with the manifest's payload, and
\* meets no failed send and no deadline, returns nil: for every payload, every
\* number of earlier calls and whatever they left in the receiver.
THEOREM QuietCallsDeliver == Spec => []QuietCallsSucceed
<1>1. Init => QuietInv
  BY DEF Init, QuietInv, CallsAreInOrder, UndisturbedCall, Active
<1>2. QuietInv => QuietCallsSucceed
  BY DEF QuietInv, UndisturbedCall, QuietCallsSucceed
<1> QED BY <1>1, <1>2, QuietStep, InvCorrect, PTL DEF Spec
=============================================================================
