------------------------------ MODULE Transfer ------------------------------
(***************************************************************************)
(* sync/transfer: one receiver, kept across attempts, and the calls of     *)
(* Transfer that fill it.  A call starts a goroutine that runs             *)
(* Receiver.Run (offer what is held, then take chunks until a close frame) *)
(* and itself runs Serve (wait for an offer, push what it does not name,   *)
(* close) before it waits for the goroutine.  A call that fails to send    *)
(* returns without it: the goroutine stays behind, reading the same inbox  *)
(* and writing the same receiver as the goroutine of the next call.        *)
(*                                                                         *)
(* A payload is the sequence of its chunks' contents; a content stands for *)
(* its bytes, their length and their hash.                                 *)
(***************************************************************************)
EXTENDS Wire, FiniteSets

CONSTANTS
    Data,       \* chunk contents
    Manifest,   \* the payload the receiver's manifest describes
    Sources,    \* the payloads a caller may offer to send
    MaxCalls,   \* bound: calls of Transfer
    MaxDrops,   \* bound: injected failures
    Deadlines   \* whether the callers' contexts expire

ASSUME PayloadAssumption == Manifest \in Seq(Data) /\ Sources \subseteq Seq(Data)
ASSUME NodeAssumption == Nodes = {"sender", "receiver"}
ASSUME BoundAssumption == MaxCalls \in Nat /\ MaxDrops \in Nat /\ Deadlines \in BOOLEAN

Calls == 1 .. MaxCalls
Chunks == 1 .. Len(Manifest)

VARIABLES
    held,       \* Receiver: the chunks it has
    run,        \* call -> its goroutine in Receiver.Run
    call,       \* call -> Transfer and Serve
    expired,    \* calls whose context is done
    drops,      \* failures injected so far
    crashed     \* the Go runtime killed the process

vars == <<wireVars, held, run, call, expired, drops, crashed>>

NoFrame == [kind |-> "none"]
CloseFrame == [kind |-> "close"]
Offer(have) == [kind |-> "ack", have |-> have]
ChunkFrame(i, d) == [kind |-> "chunk", index |-> i, data |-> d]

Frames ==
    {CloseFrame} \cup {Offer(h) : h \in SUBSET Chunks}
    \cup UNION {{ChunkFrame(i, s[i]) : i \in DOMAIN s} : s \in Sources \cup {Manifest}}

\* The receiver may hold chunks from before: Accept is public, and receivers are
\* kept.
Init ==
    /\ WireInit
    /\ held \in SUBSET Chunks
    /\ run = [c \in Calls |-> [pc |-> "idle", frame |-> NoFrame, ok |-> FALSE]]
    /\ call = [c \in Calls |-> [pc |-> "idle", src |-> Manifest, left |-> {},
                                ok |-> FALSE, quiet |-> FALSE]]
    /\ expired = {}
    /\ drops = 0
    /\ crashed = FALSE

-----------------------------------------------------------------------------
Active(c) == call[c].pc \notin {"idle", "returned"}
Alive(c) == run[c].pc \notin {"idle", "done"}

\* Nothing of an earlier call is left over: no goroutine and no frame.
Quiet ==
    /\ \A c \in Calls : ~Alive(c)
    /\ \A n \in Nodes : inbox[n] = << >> /\ fail[n] = 0

\* A call of Transfer, made when the one before has returned.  The history
\* field quiet says that the call started on a quiet link with the payload of the
\* manifest, and that nothing has failed since.
Start(c, s) ==
    /\ ~crashed
    /\ call[c].pc = "idle"
    /\ c > 1 => call[c - 1].pc = "returned"
    /\ call' = [call EXCEPT ![c] = [pc |-> "waiting", src |-> s, left |-> {}, ok |-> FALSE,
                                    quiet |-> Quiet /\ s = Manifest]]
    /\ run' = [run EXCEPT ![c].pc = "offering"]
    /\ UNCHANGED <<wireVars, held, expired, drops, crashed>>

Disturbed == [c \in Calls |-> [call[c] EXCEPT !.quiet = @ /\ ~Active(c)]]

\* Receiver.Run: the offer.
RunOffers(c) ==
    /\ ~crashed
    /\ run[c].pc = "offering"
    /\ Send("sender", Offer(held))
    /\ run' = [run EXCEPT ![c].pc = "reading"]
    /\ UNCHANGED <<held, call, expired, drops, crashed>>

RunOfferFails(c) ==
    /\ ~crashed
    /\ run[c].pc = "offering"
    /\ SendFails("sender")
    /\ run' = [run EXCEPT ![c].pc = "done"]
    /\ call' = Disturbed
    /\ UNCHANGED <<held, expired, drops, crashed>>

\* Receiver.Run: a frame arrives.  All goroutines read the receiver's inbox.
RunReceives(c) ==
    /\ ~crashed
    /\ run[c].pc = "reading"
    /\ \E m \in Frames :
          /\ Receive("receiver", m)
          /\ run' = [run EXCEPT ![c].pc = "holding", ![c].frame = m]
    /\ UNCHANGED <<held, call, expired, drops, crashed>>

\* Mutant of RunExpires: the goroutine ends without a word to its caller.
RunExpiresSilently(c) ==
    /\ ~crashed
    /\ run[c].pc = "reading"
    /\ c \in expired
    /\ run' = [run EXCEPT ![c].pc = "lost"]
    /\ UNCHANGED <<wireVars, held, call, expired, drops, crashed>>

\* Receive returns the context's error instead.
RunExpires(c) ==
    /\ ~crashed
    /\ run[c].pc = "reading"
    /\ c \in expired
    /\ run' = [run EXCEPT ![c].pc = "done"]
    /\ UNCHANGED <<wireVars, held, call, expired, drops, crashed>>

\* Accept: the chunk is one of the manifest and has its length and hash.
Acceptable(m) == m.kind = "chunk" /\ m.index \in Chunks /\ m.data = Manifest[m.index]

\* Mutant of RunAccepts: a chunk is trusted by its index.
RunAcceptsByIndex(c) ==
    LET m == run[c].frame IN
    /\ ~crashed
    /\ run[c].pc = "holding"
    /\ m.kind = "chunk"
    /\ held' = held \cup {m.index}
    /\ run' = [run EXCEPT ![c].pc = "reading", ![c].frame = NoFrame]
    /\ UNCHANGED <<wireVars, call, expired, drops, crashed>>

RunAccepts(c) ==
    LET m == run[c].frame IN
    /\ ~crashed
    /\ run[c].pc = "holding"
    /\ Acceptable(m)
    /\ held' = held \cup {m.index}
    /\ run' = [run EXCEPT ![c].pc = "reading", ![c].frame = NoFrame]
    /\ UNCHANGED <<wireVars, call, expired, drops, crashed>>

\* Mutants of RunEnds: the close frame is taken as the end of the payload; a
\* failed run starts the receiver afresh.
RunEndsOnClose(c) ==
    LET m == run[c].frame IN
    /\ ~crashed
    /\ run[c].pc = "holding"
    /\ ~Acceptable(m)
    /\ run' = [run EXCEPT ![c] = [pc |-> "done", frame |-> NoFrame, ok |-> m.kind = "close"]]
    /\ UNCHANGED <<wireVars, held, call, expired, drops, crashed>>

RunEndsAfresh(c) ==
    LET whole == run[c].frame.kind = "close" /\ held = Chunks IN
    /\ ~crashed
    /\ run[c].pc = "holding"
    /\ ~Acceptable(run[c].frame)
    /\ held' = IF whole THEN held ELSE {}
    /\ run' = [run EXCEPT ![c] = [pc |-> "done", frame |-> NoFrame, ok |-> whole]]
    /\ UNCHANGED <<wireVars, call, expired, drops, crashed>>

\* A chunk that is not accepted or an unexpected frame ends the goroutine with an
\* error; a close frame ends it with Complete, which wants every chunk.
RunEnds(c) ==
    LET m == run[c].frame IN
    /\ ~crashed
    /\ run[c].pc = "holding"
    /\ ~Acceptable(m)
    /\ run' = [run EXCEPT ![c] = [pc |-> "done", frame |-> NoFrame,
                                  ok |-> m.kind = "close" /\ held = Chunks]]
    /\ UNCHANGED <<wireVars, held, call, expired, drops, crashed>>

\* The receiver's maps have no lock.  Two goroutines that use them at the same
\* time, one of them writing, are a data race: the Go runtime may stop the
\* process, or the accesses happen one after the other as above.
MapFault(c, d) ==
    /\ ~crashed
    /\ c # d
    /\ run[c].pc = "holding" /\ Acceptable(run[c].frame)
    /\ run[d].pc \in {"offering", "holding"}
    /\ crashed' = TRUE
    /\ UNCHANGED <<wireVars, held, run, call, expired, drops>>

-----------------------------------------------------------------------------
\* Mutant of ToSend: the offer is read as a position to resume from.
ToSendFrom(c, have) == {i \in DOMAIN call[c].src : i > Cardinality(have)}

\* The chunks an offer does not name.
ToSend(c, have) == DOMAIN call[c].src \ have

\* Serve: the first frame must be an offer.  It may be an earlier goroutine's.
ServeOffer(c) ==
    /\ ~crashed
    /\ call[c].pc = "waiting"
    /\ \E m \in Frames :
          /\ Receive("sender", m)
          /\ call' = [call EXCEPT ![c].pc = IF m.kind = "ack" THEN "pushing" ELSE "returned",
                                  ![c].left = IF m.kind = "ack" THEN ToSend(c, m.have) ELSE {}]
    /\ UNCHANGED <<held, run, expired, drops, crashed>>

ServeExpires(c) ==
    /\ ~crashed
    /\ call[c].pc = "waiting"
    /\ c \in expired
    /\ call' = [call EXCEPT ![c].pc = "returned"]
    /\ UNCHANGED <<wireVars, held, run, expired, drops, crashed>>

\* Mutant of Push: the loop over the chunks stops one short.
PushAllButOne(c) ==
    LET left == call[c].left IN
    /\ ~crashed
    /\ call[c].pc = "pushing"
    /\ IF Cardinality(left) <= 1
       THEN /\ Send("receiver", CloseFrame)
            /\ call' = [call EXCEPT ![c].pc = "joining"]
       ELSE \E i \in left :
            /\ \A j \in left : i <= j
            /\ Send("receiver", ChunkFrame(i, call[c].src[i]))
            /\ call' = [call EXCEPT ![c].left = left \ {i}]
    /\ UNCHANGED <<held, run, expired, drops, crashed>>

\* push: the chunks that were not offered, in order, then a close frame.
Push(c) ==
    LET left == call[c].left IN
    /\ ~crashed
    /\ call[c].pc = "pushing"
    /\ IF left = {}
       THEN /\ Send("receiver", CloseFrame)
            /\ call' = [call EXCEPT ![c].pc = "joining"]
       ELSE \E i \in left :
            /\ \A j \in left : i <= j
            /\ Send("receiver", ChunkFrame(i, call[c].src[i]))
            /\ call' = [call EXCEPT ![c].left = left \ {i}]
    /\ UNCHANGED <<held, run, expired, drops, crashed>>

\* Transfer returns at once; its goroutine is not told.
PushFails(c) ==
    /\ ~crashed
    /\ call[c].pc = "pushing"
    /\ SendFails("receiver")
    /\ call' = [Disturbed EXCEPT ![c].pc = "returned"]
    /\ UNCHANGED <<held, run, expired, drops, crashed>>

\* The goroutine's error arrives on the channel.
Join(c) ==
    /\ ~crashed
    /\ call[c].pc = "joining"
    /\ run[c].pc = "done"
    /\ call' = [call EXCEPT ![c].pc = "returned", ![c].ok = run[c].ok]
    /\ UNCHANGED <<wireVars, held, run, expired, drops, crashed>>

-----------------------------------------------------------------------------
\* The context of call c is done.
Expire(c) ==
    /\ ~crashed
    /\ Deadlines
    /\ call[c].pc # "idle"
    /\ c \notin expired
    /\ expired' = expired \cup {c}
    /\ call' = [call EXCEPT ![c].quiet = @ /\ ~Active(c)]
    /\ UNCHANGED <<wireVars, held, run, drops, crashed>>

DropLink(n) ==
    /\ ~crashed
    /\ drops < MaxDrops
    /\ FailNext(n)
    /\ drops' = drops + 1
    /\ UNCHANGED <<held, run, call, expired, crashed>>

RunStep(c) ==
    \/ RunOffers(c)
    \/ RunOfferFails(c)
    \/ RunReceives(c)
    \/ RunExpires(c)
    \/ RunAccepts(c)
    \/ RunEnds(c)

CallStep(c) ==
    \/ ServeOffer(c)
    \/ ServeExpires(c)
    \/ Push(c)
    \/ PushFails(c)
    \/ Join(c)

Next ==
    \/ \E c \in Calls, s \in Sources : Start(c, s)
    \/ \E c \in Calls : RunStep(c)
    \/ \E c \in Calls : CallStep(c)
    \/ \E c, d \in Calls : MapFault(c, d)
    \/ \E c \in Calls : Expire(c)
    \/ \E n \in Nodes : DropLink(n)

Spec == Init /\ [][Next]_vars

\* The Go scheduler runs every goroutine that can run, and a deadline passes.
\* Nothing makes a caller call or a link fail.
Fairness ==
    \A c \in Calls : WF_vars(RunStep(c)) /\ WF_vars(CallStep(c)) /\ WF_vars(Expire(c))

FairSpec == Spec /\ Fairness

-----------------------------------------------------------------------------
RunRecords ==
    [pc : {"idle", "offering", "reading", "holding", "done"},
     frame : Frames \cup {NoFrame}, ok : BOOLEAN]

CallRecords ==
    [pc : {"idle", "waiting", "pushing", "joining", "returned"},
     src : Sources \cup {Manifest}, left : SUBSET Nat, ok : BOOLEAN, quiet : BOOLEAN]

\* The receiver, the goroutines, the calls and the wire have their types, and a
\* call sends chunks of its source.
TypeOK ==
    /\ WireTypeOK(Frames)
    /\ held \subseteq Chunks
    /\ run \in [Calls -> RunRecords]
    /\ call \in [Calls -> CallRecords]
    /\ \A c \in Calls : call[c].left \subseteq DOMAIN call[c].src
    /\ expired \subseteq Calls
    /\ drops \in 0 .. MaxDrops
    /\ crashed \in BOOLEAN

InFlight(n) == {inbox[n][i] : i \in DOMAIN inbox[n]}

\* Every offer on the wire, however old and from whichever call, names held
\* chunks only, so that a sender never leaves out a chunk the receiver lacks.
OffersAreHeld ==
    \A m \in InFlight("sender") : m.kind = "ack" /\ m.have \subseteq held

\* Between a call that sends the manifest's payload and the receiver no chunk is
\* lost, whichever goroutine reads it: a chunk the call does not mean to send (any
\* more) is held, in the receiver's inbox, or in the hands of a goroutine.
NothingIsLost ==
    \A c \in Calls : call[c].pc \in {"pushing", "joining"} /\ call[c].src = Manifest =>
        \A i \in Chunks \ call[c].left :
            \/ i \in held
            \/ ChunkFrame(i, Manifest[i]) \in InFlight("receiver")
            \/ \E d \in Calls : run[d].frame = ChunkFrame(i, Manifest[i])

\* A call that reports success leaves the whole payload in the receiver, even
\* when the close frame it went by was another call's.
SuccessIsWhole ==
    \A c \in Calls : run[c].ok \/ call[c].ok => held = Chunks

\* A goroutine belongs to a call, and has a frame only while it handles it.
HandsAreEmpty ==
    \A c \in Calls :
        /\ call[c].pc = "idle" => run[c].pc = "idle"
        /\ run[c].pc # "holding" => run[c].frame = NoFrame

\* The inductive invariant of the safety part.
Inv == TypeOK /\ HandsAreEmpty /\ OffersAreHeld /\ NothingIsLost /\ SuccessIsWhole

\* A call that starts on a quiet link with the manifest's payload succeeds unless
\* a send fails or its context expires while it runs.
QuietCallsSucceed ==
    \A c \in Calls : call[c].quiet /\ call[c].pc = "returned" => call[c].ok

\* Every call comes back.
CallsReturn == \A c \in Calls : Active(c) ~> (~Active(c) \/ crashed)

\* The test plan of the phase: an interrupted transfer resumes.  A call made
\* after one that was interrupted comes back.
InterruptedTransferResumes ==
    \A c \in Calls : c > 1 /\ Active(c) ~> (~Active(c) \/ crashed)
=============================================================================
