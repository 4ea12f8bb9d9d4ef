------------------------- MODULE SoloSequenceProofs -------------------------
(***************************************************************************)
(* The sequences of chain A in SoloMachine: whatever is added or connected *)
(* on the same database file meanwhile, the service never forgets a proof  *)
(* that chain A has accepted.                                              *)
(*                                                                         *)
(* The argument: a proof is accepted while its handler waits, and what the *)
(* handler then commits is the row one further than the one it has found,  *)
(* which nobody else has moved because the handler holds the lock of the   *)
(* file.  So the commit makes up for all that the light client is ahead,   *)
(* and nothing that the other chain does comes between the two: to commit  *)
(* takes no other lock than the one that the handler has.                  *)
(***************************************************************************)
EXTENDS SoloMachineProofs

Rows == [seq : Nat, pkt : Nat, channel : {"none", "open", "closed"}]

\* What is known of the numbers of a request: it signs with sequences that
\* some committed row had, and it commits the next one.
Counted(r) ==
  /\ tx[r].seq \in Nat /\ tx[r].seq <= row.seq /\ loc[r].seq <= row.seq
  /\ ServiceWrites(r) /\ pc[r] # "closing" => work.seq = row.seq + 1
  /\ r \in mempool => pc[r] = "sent"

SeqInv ==
  /\ row \in Rows /\ work \in Rows /\ loc \in [Requests -> Rows] /\ cSeq \in Nat
  /\ \A r \in Requests : Counted(r)
  /\ cSeq <= row.seq + 1

-----------------------------------------------------------------------------
(* What a step of one request does to the sequences.                       *)

\* The row moves only by a commit, and only while r holds the lock.
RowStep(r) ==
  \/ row' = row
  \/ row' = work /\ ServiceWrites(r) /\ pc[r] # "closing" /\ ~ServiceWrites(r)'

\* The light client moves only by a proof whose handler waits for the answer.
ClientStep(r) ==
  \/ cSeq' = cSeq
  \/ cSeq' = cSeq + 1 /\ tx[r].seq = cSeq /\ Accepted(r)'

SeqLocal(r) ==
  /\ row \in Rows /\ work' \in Rows /\ loc' \in [Requests -> Rows]
  /\ \A q \in Requests \ {r} : loc'[q] = loc[q] /\ (q \in mempool' => q \in mempool)
  /\ RowStep(r) /\ ClientStep(r)
  /\ lock \notin {None, r} => work' = work
  /\ tx'[r].seq \in Nat /\ tx'[r].seq <= row.seq /\ loc'[r].seq <= row.seq
  /\ ServiceWrites(r)' /\ pc'[r] # "closing" => work'.seq = row.seq + 1
  /\ r \in mempool' => pc'[r] = "sent"
  /\ Accepted(r) => Accepted(r)' \/ row' = work

\* The images a handler writes.
LEMMA Increments ==
  ASSUME NEW c \in Rows
  PROVE  /\ IncrementSequence(c) \in Rows
         /\ IncrementSequence(c).seq = c.seq + 1
         /\ IncrementPacketSequence(IncrementSequence(c)) \in Rows
         /\ IncrementPacketSequence(IncrementSequence(c)).seq = c.seq + 1
<1>1. IncrementSequence(c) \in Rows /\ IncrementSequence(c).seq = c.seq + 1
  BY DEF Rows, IncrementSequence
<1>2. ASSUME NEW d \in Rows
      PROVE  IncrementPacketSequence(d) \in Rows /\ IncrementPacketSequence(d).seq = d.seq
  BY DEF Rows, IncrementPacketSequence
<1>. QED  BY <1>1, <1>2

\* The handler only goes on or returns.
LEMMA MoveCounts ==
  ASSUME SoloInv, SeqInv, NEW r \in Requests, ServiceLocal(r),
         UNCHANGED <<row, work, loc, tx, cSeq, mempool>>,
         pc[r] # "sent", ~Accepted(r),
         ServiceWrites(r)' => ServiceWrites(r) /\ pc[r] # "closing"
  PROVE  SeqLocal(r)
BY DEF SeqInv, Counted, SeqLocal, RowStep, ClientStep

\* The write lock is taken, the row incremented and a message signed.
LEMMA PrepareCounts ==
  ASSUME SoloInv, SeqInv, NEW r \in Requests, ServiceLocal(r),
         NEW image \in Rows, image.seq = row.seq + 1, NEW m, Prepare(r, image, m),
         CanWrite(r), pc[r] \in {"read", "acking"}
  PROVE  SeqLocal(r)
<1>1. DOMAIN tx = Requests /\ DOMAIN pc = Requests
  BY DEF SoloInv, Domains
<1>2. /\ work' = image /\ tx'[r].seq = loc[r].seq /\ pc'[r] = "prepared"
      /\ UNCHANGED <<row, loc, cSeq, mempool>>
  BY <1>1 DEF Prepare, Signed, Goto, chainVars, clientVars
<1>3. ~Accepted(r) /\ lock = None
  BY DEF Accepted, CanWrite
<1>4. loc[r].seq \in Nat
  BY DEF SeqInv, Rows
<1>. QED
  BY <1>2, <1>3, <1>4 DEF SeqInv, Counted, SeqLocal, RowStep, ClientStep

\* A commit: nobody but r can have moved the row since r took the lock.
LEMMA CommitCounts ==
  ASSUME SoloInv, SeqInv, NEW r \in Requests, ServiceLocal(r), Commit,
         pc[r] = "answered", tx[r].msg # "transfer",
         pc'[r] \in {"committed", "recorded", "done"},
         UNCHANGED <<work, loc, tx, cSeq, mempool>>
  PROVE  SeqLocal(r)
<1>1. ServiceWrites(r) /\ ~ServiceWrites(r)'
  BY DEF ServiceWrites
<1>. QED
  BY <1>1 DEF Commit, SeqInv, Counted, SeqLocal, RowStep, ClientStep

LEMMA HandleCounts ==
  ASSUME SoloInv, SeqInv, NEW r \in Requests, Handle(r),
         UNCHANGED <<addVars, connectVars>>
  PROVE  SeqLocal(r)
<1>. USE DEF chainVars, clientVars
<1>0. /\ ServiceLocal(r) /\ Domains /\ Counted(r) /\ row \in Rows
      /\ row.seq \in Nat /\ row.pkt \in Nat
  BY HandleIsLocal DEF SoloInv, SeqInv, Rows
<1>1. CASE Receive(r)
  <2>1. /\ pc[r] = "idle" /\ pc'[r] = "read" /\ loc' = [loc EXCEPT ![r] = row]
        /\ UNCHANGED <<row, work, tx, cSeq, mempool>>
    BY <1>0, <1>1 DEF Receive, Goto, Domains, dbVars
  <2>. QED
    BY <1>0, <2>1
    DEF SeqInv, Counted, SeqLocal, RowStep, ClientStep, ServiceWrites, Accepted
<1>2. CASE \/ NotConnected(r) \/ DuplicateKey(r) \/ CloseReread(r) \/ Refused(r)
           \/ Busy(r) \/ Overflow(r)
  <2>1. /\ pc'[r] = "done" /\ UNCHANGED <<row, work, loc, tx, cSeq, mempool>>
        /\ pc[r] # "sent" /\ ~Accepted(r)
    BY <1>0, <1>2
    DEF NotConnected, DuplicateKey, CloseReread, Refused, Busy, Overflow, Finish, Domains,
        Accepted
  <2>. QED  BY <1>0, <2>1, MoveCounts DEF ServiceWrites
<1>3. CASE MintPrepare(r) \/ UpdatePrepare(r) \/ AckPrepare(r)
  BY <1>0, <1>3, Increments, PrepareCounts DEF MintPrepare, UpdatePrepare, AckPrepare
<1>4. CASE BurnPrepare(r)
  <2>1. /\ pc[r] = "read" /\ pc'[r] = "prepared" /\ tx'[r].msg = "transfer"
        /\ tx'[r].seq = loc[r].seq /\ UNCHANGED <<row, work, loc, cSeq, mempool>>
    BY <1>0, <1>4 DEF BurnPrepare, Signed, Goto, Domains, dbVars
  <2>2. loc[r].seq \in Nat
    BY DEF SeqInv, Rows
  <2>. QED
    BY <1>0, <2>1, <2>2
    DEF SeqInv, Counted, SeqLocal, RowStep, ClientStep, ServiceWrites, Accepted
<1>5. CASE CloseWrite(r)
  <2>1. /\ pc[r] = "read" /\ pc'[r] = "closing" /\ lock = None
        /\ work' = [row EXCEPT !.channel = "closed"]
        /\ UNCHANGED <<row, loc, tx, cSeq, mempool>>
    BY <1>0, <1>5 DEF CloseWrite, CanWrite, Goto, Domains
  <2>2. work' \in Rows
    BY <1>0, <2>1 DEF Rows
  <2>. QED
    BY <1>0, <2>1, <2>2 DEF SeqInv, Counted, SeqLocal, RowStep, ClientStep, Accepted
<1>6. CASE Build(r)
  <2>1. /\ pc[r] = "prepared" /\ pc'[r] = "built"
        /\ tx'[r].seq = tx[r].seq /\ tx'[r].msg = tx[r].msg
        /\ UNCHANGED <<row, work, loc, cSeq, mempool>>
    BY <1>0, <1>6 DEF Build, Goto, Domains, dbVars
  <2>. QED
    BY <1>0, <2>1
    DEF SeqInv, Counted, SeqLocal, RowStep, ClientStep, ServiceWrites, Accepted
<1>7. CASE Broadcast(r)
  <2>1. /\ pc[r] = "built" /\ pc'[r] = "sent" /\ mempool' = mempool \cup {r}
        /\ UNCHANGED <<row, work, loc, tx, cSeq>>
    BY <1>0, <1>7 DEF Broadcast, Goto, Domains, dbVars
  <2>. QED
    BY <1>0, <2>1
    DEF SeqInv, Counted, SeqLocal, RowStep, ClientStep, ServiceWrites, Accepted
<1>8. CASE CheckTxRefuses(r) \/ BurnAccepted(r) \/ RecordOperation(r) \/ Notify(r)
  <2>1. /\ pc[r] # "sent" /\ ~Accepted(r)
        /\ ServiceWrites(r)' => ServiceWrites(r) /\ pc[r] # "closing"
        /\ UNCHANGED <<row, work, loc, tx, cSeq, mempool>>
    BY <1>0, <1>8
    DEF CheckTxRefuses, BurnAccepted, RecordOperation, Notify, Goto, Domains, dbVars,
        ServiceWrites, Accepted
  <2>. QED  BY <1>0, <2>1, MoveCounts
<1>9. CASE MintCommit(r) \/ UpdateCommit(r) \/ AckCommit(r)
  <2>1. /\ Commit /\ pc[r] = "answered" /\ tx[r].msg # "transfer"
        /\ pc'[r] \in {"committed", "recorded", "done"}
        /\ UNCHANGED <<work, loc, tx, cSeq, mempool>>
    BY <1>0, <1>9 DEF MintCommit, UpdateCommit, AckCommit, Goto, Domains
  <2>. QED  BY <1>0, <2>1, CommitCounts
<1>. QED
  BY <1>1, <1>2, <1>3, <1>4, <1>5, <1>6, <1>7, <1>8, <1>9 DEF Handle

\* A proof is accepted at its own sequence, and its handler waits.
LEMMA AnswerCounts ==
  ASSUME SoloInv, SeqInv, NEW r \in Requests, Deliver(r),
         UNCHANGED <<addVars, connectVars>>
  PROVE  SeqLocal(r)
<1>1. PICK a \in {"ok", "failack", "noop", "refused"} :
        /\ Include(r, a)
        /\ \/ cSeq' = cSeq
           \/ /\ cSeq' = cSeq + 1 /\ tx[r].seq = cSeq
              /\ a # "refused" /\ tx[r].msg # "transfer"
  BY DEF Deliver, DeliverRecv, DeliverDuplicate, DeliverTransfer, DeliverAck,
         DeliverHeader, DeliverRefused, Acceptable, ProofOk, clientVars
<1>2. /\ ServiceLocal(r) /\ Domains /\ Counted(r) /\ r \in mempool
      /\ pc[r] = "sent"
  BY <1>1, AnswerIsLocal DEF SoloInv, SeqInv, Counted, Include
<1>3. /\ pc'[r] = "answered" /\ resp'[r] = a /\ mempool' = mempool \ {r}
      /\ UNCHANGED <<row, work, loc, tx>>
  BY <1>1, <1>2 DEF Include, Domains, dbVars
<1>4. ClientStep(r)
  BY <1>1, <1>3 DEF ClientStep, Accepted
<1>. QED
  BY <1>2, <1>3, <1>4 DEF SeqInv, Counted, SeqLocal, RowStep, ServiceWrites, Accepted

LEMMA ServiceCounts ==
  ASSUME SoloInv, SeqInv, NEW r \in Requests,
         ServiceStep(r) \/ ServiceAnswer(r)
  PROVE  SeqLocal(r)
<1>1. CASE ServiceStep(r)  BY <1>1, HandleCounts DEF ServiceStep
<1>2. CASE ServiceAnswer(r)  BY <1>2, AnswerCounts DEF ServiceAnswer
<1>. QED  BY <1>1, <1>2

-----------------------------------------------------------------------------
(* The invariant and the property.                                         *)

\* The row never falls, and a commit makes up for all that chain A is ahead.
LEMMA RowAdvances ==
  ASSUME SoloInv, SeqInv, NEW r \in Requests, SeqLocal(r)
  PROVE  /\ row' \in Rows /\ row.seq \in Nat /\ row'.seq \in Nat
         /\ row'.seq \in {row.seq, row.seq + 1}
         /\ row' # row => row'.seq = row.seq + 1
<1>1. row.seq \in Nat /\ work \in Rows
  BY DEF SeqInv, Rows
<1>2. CASE row' = row  BY <1>1, <1>2 DEF SeqInv
<1>3. CASE row' = work /\ ServiceWrites(r) /\ pc[r] # "closing"
  BY <1>1, <1>3 DEF SeqInv, Counted
<1>. QED  BY <1>2, <1>3 DEF SeqLocal, RowStep

LEMMA ServiceKeepsCount ==
  ASSUME SoloInv, SeqInv, NEW r \in Requests, ServiceLocal(r), SeqLocal(r)
  PROVE  SeqInv'
<1>1. /\ row' \in Rows /\ row.seq \in Nat /\ row'.seq \in Nat
      /\ row'.seq \in {row.seq, row.seq + 1}
      /\ row' # row => row'.seq = row.seq + 1
  BY RowAdvances
<1>2. cSeq' \in Nat /\ cSeq' <= row'.seq + 1
  BY <1>1 DEF SeqInv, Counted, SeqLocal, ClientStep
<1>3. Counted(r)'
  <2>1. loc'[r].seq \in Nat
    BY DEF SeqLocal, Rows
  <2>. QED  BY <1>1, <2>1 DEF SeqLocal, RowStep, Counted
<1>4. ASSUME NEW q \in Requests \ {r} PROVE Counted(q)'
  <2>1. /\ Counted(q) /\ loc[q].seq \in Nat
        /\ pc'[q] = pc[q] /\ tx'[q] = tx[q] /\ loc'[q] = loc[q]
        /\ q \in mempool' => q \in mempool
        /\ ServiceWrites(q)' <=> ServiceWrites(q)
    BY DEF SeqInv, Rows, ServiceLocal, SeqLocal, ServiceWrites
  <2>2. ASSUME ServiceWrites(q) PROVE row' = row /\ work' = work
    <3>1. lock = q
      BY <2>2 DEF SoloInv, OneWriter
    <3>2. ~ServiceWrites(r)
      BY <3>1 DEF SoloInv, OneWriter
    <3>. QED  BY <3>1, <3>2, NoneAssumption DEF SeqLocal, RowStep
  <2>. QED  BY <1>1, <2>1, <2>2 DEF Counted
<1>. QED  BY <1>1, <1>2, <1>3, <1>4 DEF SeqInv, SeqLocal

\* The light client is ahead only of a row that the handler of the accepted
\* proof is going to move on: its commit makes up for it.
LEMMA CommitMakesUp ==
  ASSUME SoloInv, SeqInv, NEW r \in Requests, ServiceLocal(r), SeqLocal(r), ~Behind
  PROVE  ~Behind'
<1>. SUFFICES ASSUME Behind' PROVE FALSE
  OBVIOUS
<1>1. /\ row.seq \in Nat /\ row'.seq \in Nat /\ row'.seq \in {row.seq, row.seq + 1}
      /\ row' # row => row'.seq = row.seq + 1
      /\ cSeq \in Nat /\ cSeq <= row.seq + 1 /\ cSeq' > row'.seq
  BY RowAdvances DEF SeqInv, Behind
<1>2. ~Accepted(r)' /\ cSeq' = cSeq
  BY DEF Behind, SeqLocal, ClientStep
<1>3. row' = row /\ cSeq > row.seq
  BY <1>1, <1>2
<1>4. PICK q \in Requests : Accepted(q)
  BY <1>3 DEF Behind
<1>5. q = r
  BY <1>4 DEF Behind, Accepted, ServiceLocal
<1>6. work.seq # row.seq
  BY <1>1, <1>4, <1>5 DEF Accepted, ServiceWrites, SeqInv, Counted
<1>. QED  BY <1>2, <1>3, <1>4, <1>5, <1>6 DEF SeqLocal

\* The inductive invariant, together with SoloInv.
LEMMA SeqInvariant == SoloSpec => [](SeqInv /\ NothingForgotten)
<1>1. SoloInit => SeqInv /\ NothingForgotten
  <2>. SUFFICES ASSUME SoloInit PROVE SeqInv /\ NothingForgotten
    OBVIOUS
  <2>1. row \in Rows /\ row.seq = InitSeq /\ InitSeq \in Nat
    BY WidthAssumption DEF SoloInit, Init, Rows
  <2>. QED
    BY <2>1 DEF SoloInit, Init, SeqInv, Counted, ServiceWrites, NothingForgotten, Behind
<1>2. SoloInv /\ SeqInv /\ NothingForgotten /\ [SoloNext]_soloVars
        => SeqInv' /\ NothingForgotten'
  <2>. SUFFICES ASSUME SoloInv, SeqInv, ~Behind, [SoloNext]_soloVars
                PROVE  SeqInv' /\ ~Behind'
    BY DEF NothingForgotten
  <2>1. ASSUME UNCHANGED unlockedVars
        PROVE  SeqInv' /\ ~Behind'
    BY <2>1
    DEF SeqInv, Counted, ServiceWrites, Behind, Accepted, unlockedVars, handlerVars,
        chainVars, clientVars
  <2>2. ASSUME NEW r \in Requests, ServiceStep(r) \/ ServiceAnswer(r)
        PROVE  SeqInv' /\ ~Behind'
    BY <2>2, ServiceIsLocal, ServiceCounts, ServiceKeepsCount, CommitMakesUp
  <2>3. ASSUME NEW c \in Calls, ConnectMove(c)
        PROVE  UNCHANGED unlockedVars
    BY <2>3, ConnectIsLocal DEF ConnectLocal
  <2>4. ASSUME NEW a \in Adds, Add(a) PROVE UNCHANGED unlockedVars
    BY <2>4, AddKeeps
  <2>5. UNCHANGED soloVars => UNCHANGED unlockedVars
    BY DEF soloVars, unlockedVars, vars, dbVars
  <2>. QED
    BY <2>1, <2>2, <2>3, <2>4, <2>5 DEF SoloNext, SoloTerminated, ConnectMove
<1>. QED  BY <1>1, <1>2, LockInvariant, PTL DEF SoloSpec

\* Whatever is added or connected on the same file, the row of chain A never
\* stays behind a proof that chain A has accepted.
THEOREM NothingForgottenTogether == SoloSpec => []NothingForgotten
BY SeqInvariant, PTL

\* Whatever the handlers of the other chain do, the light client of chain A is
\* at most one proof ahead of its row.
THEOREM NeverFarBehindTogether == SoloSpec => []OneProofBehind
<1>1. SeqInv => OneProofBehind
  BY DEF SeqInv, OneProofBehind
<1>. QED  BY <1>1, SeqInvariant, PTL
=============================================================================
