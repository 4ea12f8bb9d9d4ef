------------------------- MODULE IbcServiceProofs -------------------------
(***************************************************************************)
(* Theorems about IbcService for every set of requests and keys, either    *)
(* database, any mixture of handlers, any faults and any first sequences.  *)
(***************************************************************************)
EXTENDS IbcService, TLAPS

-----------------------------------------------------------------------------
(* Types.                                                                  *)

\* A row whose incremented sequence still fits stays a row.
LEMMA IncrementSequenceType ==
  ASSUME NEW c \in Row, ~SequenceOverflow(c)
  PROVE  IncrementSequence(c) \in Row
  BY WidthAssumption DEF Row, SequenceOverflow, IncrementSequence

\* The same for the packet sequence.
LEMMA IncrementPacketSequenceType ==
  ASSUME NEW c \in Row, ~PacketOverflow(c)
  PROVE  IncrementPacketSequence(c) \in Row
  BY WidthAssumption DEF Row, PacketOverflow, IncrementPacketSequence

\* mint increments both sequences.
LEMMA MintRowType ==
  ASSUME NEW c \in Row, ~SequenceOverflow(c), ~PacketOverflow(c)
  PROVE  IncrementPacketSequence(IncrementSequence(c)) \in Row
<1>1. IncrementSequence(c) \in Row
  BY IncrementSequenceType
<1>2. ~PacketOverflow(IncrementSequence(c))
  BY DEF PacketOverflow, IncrementSequence, Row
<1>. QED
  BY <1>1, <1>2, IncrementPacketSequenceType

\* What a handler signs is a transaction.
LEMMA SignedType ==
  ASSUME TypeOK, NEW r \in Requests, NEW m \in Msgs
  PROVE  Signed(r, m) \in Tx
<1>1. loc[r] \in Row
  BY DEF TypeOK
<1>2. loc[r].seq \in Nat /\ loc[r].pkt \in Nat
  BY <1>1, WidthAssumption DEF Row
<1>. QED  BY <1>2 DEF Signed, Tx

\* Taking the write lock keeps the types.
LEMMA PrepareType ==
  ASSUME TypeOK, NEW r \in Requests, NEW m \in Msgs, NEW image \in Row,
         Prepare(r, image, m)
  PROVE  TypeOK'
<1>1. Signed(r, m) \in Tx
  BY SignedType
<1>. QED
  BY <1>1 DEF TypeOK, Prepare, Goto, chainVars, clientVars

\* Including a transaction keeps the types of all it changes.
LEMMA IncludeType ==
  ASSUME TypeOK, NEW r \in Requests, NEW a \in {"ok", "failack", "noop", "refused"},
         Include(r, a),
         cSeq' \in Nat, cKey' \in Keys, received' \subseteq Nat,
         unacked' \subseteq Requests, executed' \subseteq Requests
  PROVE  TypeOK'
<1>1. job[r].signer \in Keys
  BY KeysAssumption DEF TypeOK, Jobs
<1>2. nonce' \in [Keys -> Nat]
  BY <1>1 DEF Include, TypeOK
<1>. QED
  BY <1>2 DEF TypeOK, Include, dbVars

\* Every step keeps every variable's type: whatever transactions commit, the
\* row fits into the u32 fields of Chain and stays readable.
THEOREM TypeCorrect == Spec => []TypeOK
<1>1. Init => TypeOK
  BY KeysAssumption, WidthAssumption DEF Init, TypeOK, Row, Tx, Jobs
<1>2. TypeOK /\ [Next]_vars => TypeOK'
  <2> SUFFICES ASSUME TypeOK, [Next]_vars PROVE TypeOK'
    OBVIOUS
  <2> USE DEF TypeOK
  <2>1. ASSUME NEW r \in Requests, Receive(r) PROVE TypeOK'
    BY <2>1
    DEF Receive, Goto, dbVars, chainVars, clientVars
  <2>2. ASSUME NEW r \in Requests, NotConnected(r) PROVE TypeOK'
    BY <2>2
    DEF NotConnected, Finish, chainVars, clientVars
  <2>3. ASSUME NEW r \in Requests, Busy(r) PROVE TypeOK'
    BY <2>3
    DEF Busy, Finish, Failure, InProcessPackets, chainVars, clientVars
  <2>4. ASSUME NEW r \in Requests, Overflow(r) PROVE TypeOK'
    BY <2>4
    DEF Overflow, Finish, Failure, InProcessPackets, chainVars, clientVars
  <2>5. ASSUME NEW r \in Requests, MintPrepare(r) PROVE TypeOK'
    BY <2>5, MintRowType, PrepareType DEF MintPrepare, Msgs
  <2>6. ASSUME NEW r \in Requests, BurnPrepare(r) PROVE TypeOK'
    BY <2>6, SignedType DEF BurnPrepare, Msgs, Goto, dbVars, chainVars, clientVars
  <2>7. ASSUME NEW r \in Requests, DuplicateKey(r) PROVE TypeOK'
    BY <2>7
    DEF DuplicateKey, Finish, chainVars, clientVars
  <2>8. ASSUME NEW r \in Requests, UpdatePrepare(r) PROVE TypeOK'
    BY <2>8, IncrementSequenceType, PrepareType DEF UpdatePrepare, Msgs
  <2>9. ASSUME NEW r \in Requests, CloseWrite(r) PROVE TypeOK'
    BY <2>9
    DEF CloseWrite, Goto, chainVars, clientVars, Row
  <2>10. ASSUME NEW r \in Requests, CloseReread(r) PROVE TypeOK'
    BY <2>10
    DEF CloseReread, Finish, chainVars, clientVars
  <2>11. ASSUME NEW r \in Requests, Build(r) PROVE TypeOK'
    BY <2>11, KeysAssumption
    DEF Build, Goto, Jobs, Tx, dbVars, chainVars, clientVars
  <2>12. ASSUME NEW r \in Requests, Broadcast(r) PROVE TypeOK'
    BY <2>12
    DEF Broadcast, Goto, dbVars, clientVars
  <2>13. ASSUME NEW r \in Requests, CheckTxRefuses(r) PROVE TypeOK'
    BY <2>13
    DEF CheckTxRefuses, Goto, dbVars, chainVars, clientVars
  <2>14. ASSUME NEW r \in Requests, Refused(r) PROVE TypeOK'
    BY <2>14
    DEF Refused, Finish, chainVars, clientVars
  <2>15. ASSUME NEW r \in Requests, MintCommit(r) PROVE TypeOK'
    BY <2>15
    DEF MintCommit, Commit, Overtaken, Readers, Goto, chainVars, clientVars
  <2>16. ASSUME NEW r \in Requests, BurnAccepted(r) PROVE TypeOK'
    BY <2>16
    DEF BurnAccepted, Goto, dbVars, chainVars, clientVars
  <2>17. ASSUME NEW r \in Requests, UpdateCommit(r) PROVE TypeOK'
    BY <2>17, KeysAssumption
    DEF UpdateCommit, Commit, Overtaken, Readers, Goto, chainVars, clientVars, Jobs
  <2>18. ASSUME NEW r \in Requests, RecordOperation(r) PROVE TypeOK'
    BY <2>18
    DEF RecordOperation, Overtaken, Readers, Goto, chainVars, clientVars
  <2>19. ASSUME NEW r \in Requests, Notify(r) PROVE TypeOK'
    BY <2>19
    DEF Notify, Goto, dbVars, chainVars, clientVars
  <2>20. ASSUME NEW r \in Requests, AckPrepare(r) PROVE TypeOK'
    BY <2>20, IncrementSequenceType, PrepareType DEF AckPrepare, Msgs
  <2>21. ASSUME NEW r \in Requests, AckCommit(r) PROVE TypeOK'
    BY <2>21
    DEF AckCommit, Commit, Overtaken, Readers, Goto, chainVars, clientVars
  <2>22. ASSUME NEW r \in Requests, DeliverRecv(r) PROVE TypeOK'
    <3>1. cSeq' \in Nat /\ cKey' \in Keys
      BY <2>22 DEF DeliverRecv
    <3>2. received' \subseteq Nat /\ unacked' \subseteq Requests /\ executed' \subseteq Requests
      BY <2>22 DEF DeliverRecv, Tx
    <3>. QED
      BY <2>22, <3>1, <3>2, IncludeType DEF DeliverRecv
  <2>23. ASSUME NEW r \in Requests, DeliverDuplicate(r) PROVE TypeOK'
    BY <2>23, IncludeType DEF DeliverDuplicate, clientVars
  <2>24. ASSUME NEW r \in Requests, DeliverTransfer(r) PROVE TypeOK'
    BY <2>24, IncludeType DEF DeliverTransfer
  <2>25. ASSUME NEW r \in Requests, DeliverAck(r) PROVE TypeOK'
    <3>1. cSeq' \in Nat /\ cKey' \in Keys /\ received' \subseteq Nat
      BY <2>25 DEF DeliverAck
    <3>2. unacked' \subseteq Requests /\ executed' \subseteq Requests
      BY <2>25 DEF DeliverAck
    <3>. QED
      BY <2>25, <3>1, <3>2, IncludeType DEF DeliverAck
  <2>26. ASSUME NEW r \in Requests, DeliverHeader(r) PROVE TypeOK'
    <3>1. cSeq' \in Nat /\ cKey' \in Keys /\ received' \subseteq Nat
      BY <2>26 DEF DeliverHeader, Jobs
    <3>2. unacked' \subseteq Requests /\ executed' \subseteq Requests
      BY <2>26 DEF DeliverHeader
    <3>. QED
      BY <2>26, <3>1, <3>2, IncludeType DEF DeliverHeader
  <2>27. ASSUME NEW r \in Requests, DeliverRefused(r) PROVE TypeOK'
    BY <2>27, IncludeType DEF DeliverRefused, clientVars
  <2>28. ASSUME NEW r \in Requests, DropTx(r) PROVE TypeOK'
    BY <2>28
    DEF DropTx, dbVars, handlerVars, clientVars
  <2>29. ASSUME NEW r \in Requests, Fail(r) PROVE TypeOK'
    BY <2>29
    DEF Fail, Finish, chainVars, clientVars
  <2>30. CASE OthersCommit \/ UNCHANGED vars
    BY <2>30 DEF OthersCommit, Overtaken, Readers, vars, dbVars, handlerVars, chainVars, clientVars
  <2>. QED
    BY <2>1, <2>2, <2>3, <2>4, <2>5, <2>6, <2>7, <2>8, <2>9, <2>10, <2>11,
       <2>12, <2>13, <2>14, <2>15, <2>16, <2>17, <2>18, <2>19, <2>20, <2>21,
       <2>22, <2>23, <2>24, <2>25, <2>26, <2>27, <2>28, <2>29, <2>30
    DEF Next, Handle, Deliver, Terminated
<1>. QED
  BY <1>1, <1>2, PTL DEF Spec

-----------------------------------------------------------------------------
(* The write lock.                                                         *)

\* A handler between taking the write lock and giving it up holds it: the
\* lock is what makes the copy in `work` its own.
LockHeld ==
  \A r \in Requests :
    \/ pc[r] = "closing"
    \/ pc[r] \in {"prepared", "built", "sent", "answered"} /\ tx[r].msg # "transfer"
    => lock = r

\* No step of one handler takes the lock away from another.
THEOREM LockInvariant == Spec => []LockHeld
<1>1. Init => LockHeld
  BY DEF Init, LockHeld
<1>2. TypeOK /\ LockHeld /\ [Next]_vars => LockHeld'
  <2> SUFFICES ASSUME TypeOK, LockHeld, [Next]_vars PROVE LockHeld'
    OBVIOUS
  <2> USE NoneAssumption DEF TypeOK, LockHeld
  <2>1. ASSUME NEW r \in Requests, Receive(r) PROVE LockHeld'
    BY <2>1
    DEF Receive, Goto, dbVars, chainVars, clientVars
  <2>2. ASSUME NEW r \in Requests, NotConnected(r) PROVE LockHeld'
    BY <2>2
    DEF NotConnected, Finish, chainVars, clientVars
  <2>3. ASSUME NEW r \in Requests, Busy(r) PROVE LockHeld'
    BY <2>3
    DEF Busy, Finish, Failure, InProcessPackets, chainVars, clientVars
  <2>4. ASSUME NEW r \in Requests, Overflow(r) PROVE LockHeld'
    BY <2>4
    DEF Overflow, Finish, Failure, InProcessPackets, chainVars, clientVars
  <2>5. ASSUME NEW r \in Requests, MintPrepare(r) PROVE LockHeld'
    BY <2>5
    DEF MintPrepare, Prepare, Signed, Goto, IncrementSequence, IncrementPacketSequence,
       SequenceOverflow, PacketOverflow, chainVars, clientVars, CanWrite
  <2>6. ASSUME NEW r \in Requests, BurnPrepare(r) PROVE LockHeld'
    BY <2>6
    DEF BurnPrepare, Signed, Goto, dbVars, chainVars, clientVars
  <2>7. ASSUME NEW r \in Requests, DuplicateKey(r) PROVE LockHeld'
    BY <2>7
    DEF DuplicateKey, Finish, chainVars, clientVars
  <2>8. ASSUME NEW r \in Requests, UpdatePrepare(r) PROVE LockHeld'
    BY <2>8
    DEF UpdatePrepare, Prepare, Signed, Goto, IncrementSequence, SequenceOverflow, chainVars, clientVars, CanWrite
  <2>9. ASSUME NEW r \in Requests, CloseWrite(r) PROVE LockHeld'
    BY <2>9
    DEF CloseWrite, Goto, chainVars, clientVars, CanWrite
  <2>10. ASSUME NEW r \in Requests, CloseReread(r) PROVE LockHeld'
    BY <2>10
    DEF CloseReread, Finish, chainVars, clientVars
  <2>11. ASSUME NEW r \in Requests, Build(r) PROVE LockHeld'
    BY <2>11
    DEF Build, Goto, dbVars, chainVars, clientVars, Tx
  <2>12. ASSUME NEW r \in Requests, Broadcast(r) PROVE LockHeld'
    BY <2>12
    DEF Broadcast, Goto, dbVars, clientVars
  <2>13. ASSUME NEW r \in Requests, CheckTxRefuses(r) PROVE LockHeld'
    BY <2>13
    DEF CheckTxRefuses, Goto, dbVars, chainVars, clientVars
  <2>14. ASSUME NEW r \in Requests, Refused(r) PROVE LockHeld'
    BY <2>14
    DEF Refused, Finish, chainVars, clientVars
  <2>15. ASSUME NEW r \in Requests, MintCommit(r) PROVE LockHeld'
    BY <2>15
    DEF MintCommit, Commit, Goto, chainVars, clientVars
  <2>16. ASSUME NEW r \in Requests, BurnAccepted(r) PROVE LockHeld'
    BY <2>16
    DEF BurnAccepted, Goto, dbVars, chainVars, clientVars
  <2>17. ASSUME NEW r \in Requests, UpdateCommit(r) PROVE LockHeld'
    BY <2>17
    DEF UpdateCommit, Commit, Goto, chainVars, clientVars
  <2>18. ASSUME NEW r \in Requests, RecordOperation(r) PROVE LockHeld'
    BY <2>18
    DEF RecordOperation, Goto, chainVars, clientVars
  <2>19. ASSUME NEW r \in Requests, Notify(r) PROVE LockHeld'
    BY <2>19
    DEF Notify, Goto, dbVars, chainVars, clientVars
  <2>20. ASSUME NEW r \in Requests, AckPrepare(r) PROVE LockHeld'
    BY <2>20
    DEF AckPrepare, Prepare, Signed, Goto, IncrementSequence, SequenceOverflow, chainVars, clientVars, CanWrite
  <2>21. ASSUME NEW r \in Requests, AckCommit(r) PROVE LockHeld'
    BY <2>21
    DEF AckCommit, Commit, Goto, chainVars, clientVars
  <2>22. ASSUME NEW r \in Requests, DeliverRecv(r) PROVE LockHeld'
    BY <2>22
    DEF DeliverRecv, Include, dbVars
  <2>23. ASSUME NEW r \in Requests, DeliverDuplicate(r) PROVE LockHeld'
    BY <2>23
    DEF DeliverDuplicate, Include, dbVars, clientVars
  <2>24. ASSUME NEW r \in Requests, DeliverTransfer(r) PROVE LockHeld'
    BY <2>24
    DEF DeliverTransfer, Include, dbVars
  <2>25. ASSUME NEW r \in Requests, DeliverAck(r) PROVE LockHeld'
    BY <2>25
    DEF DeliverAck, Include, dbVars
  <2>26. ASSUME NEW r \in Requests, DeliverHeader(r) PROVE LockHeld'
    BY <2>26
    DEF DeliverHeader, Include, dbVars
  <2>27. ASSUME NEW r \in Requests, DeliverRefused(r) PROVE LockHeld'
    BY <2>27
    DEF DeliverRefused, Include, dbVars, clientVars
  <2>28. ASSUME NEW r \in Requests, DropTx(r) PROVE LockHeld'
    BY <2>28
    DEF DropTx, dbVars, handlerVars, clientVars
  <2>29. ASSUME NEW r \in Requests, Fail(r) PROVE LockHeld'
    <3>1. /\ pc' = [pc EXCEPT ![r] = "done"]
          /\ lock' = IF lock = r THEN None ELSE lock
          /\ UNCHANGED <<row, work, job, tx>>
      BY <2>29 DEF Fail, Finish
    <3>. QED  BY <3>1
  <2>30. CASE OthersCommit \/ UNCHANGED vars
    BY <2>30 DEF OthersCommit, vars, dbVars, handlerVars, chainVars, clientVars
  <2>. QED
    BY <2>1, <2>2, <2>3, <2>4, <2>5, <2>6, <2>7, <2>8, <2>9, <2>10, <2>11,
       <2>12, <2>13, <2>14, <2>15, <2>16, <2>17, <2>18, <2>19, <2>20, <2>21,
       <2>22, <2>23, <2>24, <2>25, <2>26, <2>27, <2>28, <2>29, <2>30
    DEF Next, Handle, Deliver, Terminated
<1>. QED
  BY <1>1, <1>2, TypeCorrect, PTL DEF Spec

-----------------------------------------------------------------------------
(* The light client is at most one proof ahead of the database.            *)

\* Nothing that a handler read, signed or still has in the mempool is ahead
\* of the committed row, and the copy in `work` is never behind it.
SignedFromRow ==
  /\ \A r \in Requests : loc[r].seq <= row.seq /\ tx[r].seq <= row.seq
  /\ lock # None => row.seq <= work.seq

\* The row as numbers, and the local copies of it.
LEMMA Numbers ==
  ASSUME TypeOK
  PROVE  /\ row.seq \in Nat /\ row.pkt \in Nat /\ work.seq \in Nat /\ work.pkt \in Nat
         /\ cSeq \in Nat /\ received \subseteq Nat
         /\ \A q \in Requests : /\ loc[q].seq \in Nat /\ loc[q].pkt \in Nat
                                /\ tx[q].seq \in Nat /\ tx[q].pkt \in Nat
<1>1. \A c \in Row : c.seq \in Nat /\ c.pkt \in Nat
  BY WidthAssumption DEF Row
<1>2. \A t \in Tx : t.seq \in Nat /\ t.pkt \in Nat
  BY DEF Tx
<1>3. row \in Row /\ work \in Row /\ cSeq \in Nat /\ received \subseteq Nat
  BY DEF TypeOK
<1>4. \A q \in Requests : loc[q] \in Row /\ tx[q] \in Tx
  BY DEF TypeOK
<1>. QED
  BY <1>1, <1>2, <1>3, <1>4

\* A step that moves the row forward and nothing else keeps SignedFromRow.
LEMMA RowGrows ==
  ASSUME TypeOK, SignedFromRow, OneProofBehind,
         row' = work, lock' = None, row.seq <= work.seq,
         loc' = loc, tx' = tx, cSeq' = cSeq
  PROVE  (SignedFromRow /\ OneProofBehind)'
<1>1. row'.seq \in Nat /\ row.seq \in Nat /\ row.seq <= row'.seq /\ cSeq \in Nat
  BY Numbers
<1>2. ASSUME NEW q \in Requests
      PROVE  loc'[q].seq <= row'.seq /\ tx'[q].seq <= row'.seq
  <2>1. loc[q].seq \in Nat /\ tx[q].seq \in Nat
    BY Numbers
  <2>2. loc[q].seq <= row.seq /\ tx[q].seq <= row.seq
    BY DEF SignedFromRow
  <2>. QED
    BY <1>1, <2>1, <2>2
<1>3. SignedFromRow'
  BY <1>2 DEF SignedFromRow
<1>4. OneProofBehind'
  BY <1>1 DEF OneProofBehind
<1>. QED
  BY <1>3, <1>4

\* The row only grows and proofs are signed from what was once committed.
THEOREM SequencesFromRow == Spec => [](SignedFromRow /\ OneProofBehind)
<1> DEFINE I == SignedFromRow /\ OneProofBehind
<1>1. Init => I
  BY WidthAssumption DEF Init, SignedFromRow, OneProofBehind
<1>2. TypeOK /\ LockHeld /\ I /\ [Next]_vars => I'
  <2> SUFFICES ASSUME TypeOK, LockHeld, I, [Next]_vars PROVE I'
    OBVIOUS
  <2> USE NoneAssumption DEF TypeOK, SignedFromRow, OneProofBehind, Row, Tx
  <2>1. ASSUME NEW r \in Requests, Receive(r) PROVE I'
    BY <2>1
    DEF Receive, Goto, dbVars, chainVars, clientVars
  <2>2. ASSUME NEW r \in Requests, NotConnected(r) PROVE I'
    BY <2>2
    DEF NotConnected, Finish, chainVars, clientVars
  <2>3. ASSUME NEW r \in Requests, Busy(r) PROVE I'
    BY <2>3
    DEF Busy, Finish, Failure, InProcessPackets, chainVars, clientVars
  <2>4. ASSUME NEW r \in Requests, Overflow(r) PROVE I'
    BY <2>4
    DEF Overflow, Finish, Failure, InProcessPackets, chainVars, clientVars
  <2>5. ASSUME NEW r \in Requests, MintPrepare(r) PROVE I'
    BY <2>5
    DEF MintPrepare, Prepare, Signed, Goto, IncrementSequence, IncrementPacketSequence,
       SequenceOverflow, PacketOverflow, chainVars, clientVars, CanWrite
  <2>6. ASSUME NEW r \in Requests, BurnPrepare(r) PROVE I'
    BY <2>6
    DEF BurnPrepare, Signed, Goto, dbVars, chainVars, clientVars
  <2>7. ASSUME NEW r \in Requests, DuplicateKey(r) PROVE I'
    BY <2>7
    DEF DuplicateKey, Finish, chainVars, clientVars
  <2>8. ASSUME NEW r \in Requests, UpdatePrepare(r) PROVE I'
    BY <2>8
    DEF UpdatePrepare, Prepare, Signed, Goto, IncrementSequence, SequenceOverflow, chainVars, clientVars, CanWrite
  <2>9. ASSUME NEW r \in Requests, CloseWrite(r) PROVE I'
    BY <2>9
    DEF CloseWrite, Goto, chainVars, clientVars, CanWrite
  <2>10. ASSUME NEW r \in Requests, CloseReread(r) PROVE I'
    BY <2>10
    DEF CloseReread, Finish, chainVars, clientVars
  <2>11. ASSUME NEW r \in Requests, Build(r) PROVE I'
    BY <2>11
    DEF Build, Goto, dbVars, chainVars, clientVars
  <2>12. ASSUME NEW r \in Requests, Broadcast(r) PROVE I'
    BY <2>12
    DEF Broadcast, Goto, dbVars, clientVars
  <2>13. ASSUME NEW r \in Requests, CheckTxRefuses(r) PROVE I'
    BY <2>13
    DEF CheckTxRefuses, Goto, dbVars, chainVars, clientVars
  <2>14. ASSUME NEW r \in Requests, Refused(r) PROVE I'
    BY <2>14
    DEF Refused, Finish, chainVars, clientVars
  <2>15. ASSUME NEW r \in Requests, MintCommit(r) PROVE I'
    <3>1. lock = r
      BY <2>15 DEF MintCommit, LockHeld
    <3>2. row' = work /\ lock' = None /\ row.seq <= work.seq
      BY <2>15, <3>1 DEF MintCommit, Commit
    <3>3. loc' = loc /\ tx' = tx /\ cSeq' = cSeq
      BY <2>15 DEF MintCommit, chainVars, clientVars
    <3>. QED
      BY <3>2, <3>3, RowGrows
  <2>16. ASSUME NEW r \in Requests, BurnAccepted(r) PROVE I'
    BY <2>16
    DEF BurnAccepted, Goto, dbVars, chainVars, clientVars
  <2>17. ASSUME NEW r \in Requests, UpdateCommit(r) PROVE I'
    <3>1. lock = r
      BY <2>17 DEF UpdateCommit, LockHeld
    <3>2. row' = work /\ lock' = None /\ row.seq <= work.seq
      BY <2>17, <3>1 DEF UpdateCommit, Commit
    <3>3. loc' = loc /\ tx' = tx /\ cSeq' = cSeq
      BY <2>17 DEF UpdateCommit, chainVars, clientVars
    <3>. QED
      BY <3>2, <3>3, RowGrows
  <2>18. ASSUME NEW r \in Requests, RecordOperation(r) PROVE I'
    BY <2>18
    DEF RecordOperation, Goto, chainVars, clientVars
  <2>19. ASSUME NEW r \in Requests, Notify(r) PROVE I'
    BY <2>19
    DEF Notify, Goto, dbVars, chainVars, clientVars
  <2>20. ASSUME NEW r \in Requests, AckPrepare(r) PROVE I'
    BY <2>20
    DEF AckPrepare, Prepare, Signed, Goto, IncrementSequence, SequenceOverflow, chainVars, clientVars, CanWrite
  <2>21. ASSUME NEW r \in Requests, AckCommit(r) PROVE I'
    <3>1. lock = r
      BY <2>21 DEF AckCommit, LockHeld
    <3>2. row' = work /\ lock' = None /\ row.seq <= work.seq
      BY <2>21, <3>1 DEF AckCommit, Commit
    <3>3. loc' = loc /\ tx' = tx /\ cSeq' = cSeq
      BY <2>21 DEF AckCommit, chainVars, clientVars
    <3>. QED
      BY <3>2, <3>3, RowGrows
  <2>22. ASSUME NEW r \in Requests, DeliverRecv(r) PROVE I'
    <3>1. UNCHANGED <<row, lock, work, loc, tx>> /\ cSeq' = cSeq + 1
      BY <2>22 DEF DeliverRecv, Include, dbVars
    <3>2. tx[r].seq = cSeq /\ tx[r].seq <= row.seq
      BY <2>22 DEF DeliverRecv, Acceptable, ProofOk
    <3>. QED
      BY <3>1, <3>2
  <2>23. ASSUME NEW r \in Requests, DeliverDuplicate(r) PROVE I'
    BY <2>23
    DEF DeliverDuplicate, Include, dbVars, clientVars
  <2>24. ASSUME NEW r \in Requests, DeliverTransfer(r) PROVE I'
    BY <2>24
    DEF DeliverTransfer, Include, dbVars
  <2>25. ASSUME NEW r \in Requests, DeliverAck(r) PROVE I'
    BY <2>25
    DEF DeliverAck, Include, dbVars, Acceptable, ProofOk
  <2>26. ASSUME NEW r \in Requests, DeliverHeader(r) PROVE I'
    BY <2>26
    DEF DeliverHeader, Include, dbVars, Acceptable, ProofOk
  <2>27. ASSUME NEW r \in Requests, DeliverRefused(r) PROVE I'
    BY <2>27
    DEF DeliverRefused, Include, dbVars, clientVars
  <2>28. ASSUME NEW r \in Requests, DropTx(r) PROVE I'
    BY <2>28
    DEF DropTx, dbVars, handlerVars, clientVars
  <2>29. ASSUME NEW r \in Requests, Fail(r) PROVE I'
    BY <2>29
    DEF Fail, Finish, chainVars, clientVars
  <2>30. CASE OthersCommit \/ UNCHANGED vars
    BY <2>30 DEF OthersCommit, vars, dbVars, handlerVars, chainVars, clientVars
  <2>. QED
    BY <2>1, <2>2, <2>3, <2>4, <2>5, <2>6, <2>7, <2>8, <2>9, <2>10, <2>11,
       <2>12, <2>13, <2>14, <2>15, <2>16, <2>17, <2>18, <2>19, <2>20, <2>21,
       <2>22, <2>23, <2>24, <2>25, <2>26, <2>27, <2>28, <2>29, <2>30
    DEF Next, Handle, Deliver, Terminated
<1>. QED
  BY <1>1, <1>2, TypeCorrect, LockInvariant, PTL DEF Spec

\* Whatever the chain accepts and whatever fails, the light client waits for
\* the sequence in the row or for the next one.
THEOREM NeverFarBehind == Spec => []OneProofBehind
BY SequencesFromRow, PTL

-----------------------------------------------------------------------------
(* What handlers report and record has happened.                           *)

\* A transfer and an acknowledgement are messages of burns only.
MsgOfKind ==
  \A r \in Requests :
    /\ tx[r].msg \in {"transfer", "ack"} => job[r].kind = "burn"
    /\ pc[r] = "acking" => job[r].kind = "burn"

\* From a good answer on, the operation of a handler has taken effect.
EffectSeen ==
  \A r \in Requests :
    \/ pc[r] = "answered" /\ resp[r] = "ok"
    \/ pc[r] \in {"committed", "recorded", "acking"}
    \/ tx[r].msg = "ack"
    \/ out[r] \in {"ok", "warn", "late"}
    \/ r \in ops
    => r \in executed

\* Only burns leave a packet commitment, and a good answer to the
\* acknowledgement means that it is gone.
AckSeen ==
  \A r \in unacked :
    /\ job[r].kind = "burn"
    /\ ~(tx[r].msg = "ack" /\ pc[r] = "answered" /\ resp[r] # "refused")
    /\ out[r] # "ok"

\* A burn returns Ok only at the end of process_packets.
OkAfterAck ==
  \A r \in Requests : out[r] = "ok" => tx[r].msg # "transfer" /\ pc[r] = "done"

Reports == MsgOfKind /\ EffectSeen /\ AckSeen /\ OkAfterAck

\* Orphaned transactions, lost answers and desynchronised sequences included,
\* what a handler saw on the chain is on the chain.
THEOREM ReportsInvariant == Spec => []Reports
<1> USE DEF Reports, MsgOfKind, EffectSeen, AckSeen, OkAfterAck
<1>1. Init => Reports
  BY DEF Init
<1>2. TypeOK /\ Reports /\ [Next]_vars => Reports'
  <2> SUFFICES ASSUME TypeOK, Reports, [Next]_vars PROVE Reports'
    OBVIOUS
  <2> USE DEF TypeOK
  <2>1. ASSUME NEW r \in Requests, Receive(r) PROVE Reports'
    BY <2>1
    DEF Receive, Goto, dbVars, chainVars, clientVars
  <2>2. ASSUME NEW r \in Requests, NotConnected(r) PROVE Reports'
    BY <2>2
    DEF NotConnected, Finish, chainVars, clientVars
  <2>3. ASSUME NEW r \in Requests, Busy(r) PROVE Reports'
    BY <2>3
    DEF Busy, Finish, Failure, InProcessPackets, chainVars, clientVars
  <2>4. ASSUME NEW r \in Requests, Overflow(r) PROVE Reports'
    BY <2>4
    DEF Overflow, Finish, Failure, InProcessPackets, chainVars, clientVars
  <2>5. ASSUME NEW r \in Requests, MintPrepare(r) PROVE Reports'
    BY <2>5
    DEF MintPrepare, Prepare, Signed, Goto, IncrementSequence, IncrementPacketSequence,
       SequenceOverflow, PacketOverflow, chainVars, clientVars
  <2>6. ASSUME NEW r \in Requests, BurnPrepare(r) PROVE Reports'
    BY <2>6
    DEF BurnPrepare, Signed, Goto, dbVars, chainVars, clientVars
  <2>7. ASSUME NEW r \in Requests, DuplicateKey(r) PROVE Reports'
    BY <2>7
    DEF DuplicateKey, Finish, chainVars, clientVars
  <2>8. ASSUME NEW r \in Requests, UpdatePrepare(r) PROVE Reports'
    BY <2>8
    DEF UpdatePrepare, Prepare, Signed, Goto, IncrementSequence, SequenceOverflow, chainVars, clientVars
  <2>9. ASSUME NEW r \in Requests, CloseWrite(r) PROVE Reports'
    BY <2>9
    DEF CloseWrite, Goto, chainVars, clientVars
  <2>10. ASSUME NEW r \in Requests, CloseReread(r) PROVE Reports'
    BY <2>10
    DEF CloseReread, Finish, chainVars, clientVars
  <2>11. ASSUME NEW r \in Requests, Build(r) PROVE Reports'
    BY <2>11
    DEF Build, Goto, dbVars, chainVars, clientVars, Tx
  <2>12. ASSUME NEW r \in Requests, Broadcast(r) PROVE Reports'
    BY <2>12
    DEF Broadcast, Goto, dbVars, clientVars
  <2>13. ASSUME NEW r \in Requests, CheckTxRefuses(r) PROVE Reports'
    BY <2>13
    DEF CheckTxRefuses, Goto, dbVars, chainVars, clientVars
  <2>14. ASSUME NEW r \in Requests, Refused(r) PROVE Reports'
    BY <2>14
    DEF Refused, Finish, chainVars, clientVars
  <2>15. ASSUME NEW r \in Requests, MintCommit(r) PROVE Reports'
    BY <2>15
    DEF MintCommit, Commit, Goto, chainVars, clientVars
  <2>16. ASSUME NEW r \in Requests, BurnAccepted(r) PROVE Reports'
    BY <2>16
    DEF BurnAccepted, Goto, dbVars, chainVars, clientVars
  <2>17. ASSUME NEW r \in Requests, UpdateCommit(r) PROVE Reports'
    BY <2>17
    DEF UpdateCommit, Commit, Goto, chainVars, clientVars
  <2>18. ASSUME NEW r \in Requests, RecordOperation(r) PROVE Reports'
    BY <2>18
    DEF RecordOperation, Goto, chainVars, clientVars
  <2>19. ASSUME NEW r \in Requests, Notify(r) PROVE Reports'
    BY <2>19
    DEF Notify, Goto, dbVars, chainVars, clientVars
  <2>20. ASSUME NEW r \in Requests, AckPrepare(r) PROVE Reports'
    BY <2>20
    DEF AckPrepare, Prepare, Signed, Goto, IncrementSequence, SequenceOverflow, chainVars, clientVars
  <2>21. ASSUME NEW r \in Requests, AckCommit(r) PROVE Reports'
    BY <2>21
    DEF AckCommit, Commit, Goto, chainVars, clientVars
  <2>22. ASSUME NEW r \in Requests, DeliverRecv(r) PROVE Reports'
    <3>1. CASE Include(r, "ok") /\ executed' = executed \cup {r}
      BY <2>22, <3>1 DEF DeliverRecv, Include, dbVars
    <3>2. CASE Include(r, "failack") /\ executed' = executed
      BY <2>22, <3>2 DEF DeliverRecv, Include, dbVars
    <3>. QED
      BY <2>22, <3>1, <3>2 DEF DeliverRecv
  <2>23. ASSUME NEW r \in Requests, DeliverDuplicate(r) PROVE Reports'
    BY <2>23
    DEF DeliverDuplicate, Include, dbVars, clientVars
  <2>24. ASSUME NEW r \in Requests, DeliverTransfer(r) PROVE Reports'
    BY <2>24
    DEF DeliverTransfer, Include, dbVars
  <2>25. ASSUME NEW r \in Requests, DeliverAck(r) PROVE Reports'
    BY <2>25
    DEF DeliverAck, Include, dbVars
  <2>26. ASSUME NEW r \in Requests, DeliverHeader(r) PROVE Reports'
    BY <2>26
    DEF DeliverHeader, Include, dbVars
  <2>27. ASSUME NEW r \in Requests, DeliverRefused(r) PROVE Reports'
    BY <2>27
    DEF DeliverRefused, Include, dbVars, clientVars
  <2>28. ASSUME NEW r \in Requests, DropTx(r) PROVE Reports'
    BY <2>28
    DEF DropTx, dbVars, handlerVars, clientVars
  <2>29. ASSUME NEW r \in Requests, Fail(r) PROVE Reports'
    BY <2>29
    DEF Fail, Finish, AtStake, OnRecord, InProcessPackets, chainVars, clientVars
  <2>30. CASE OthersCommit \/ UNCHANGED vars
    BY <2>30 DEF OthersCommit, vars, dbVars, handlerVars, chainVars, clientVars
  <2>. QED
    BY <2>1, <2>2, <2>3, <2>4, <2>5, <2>6, <2>7, <2>8, <2>9, <2>10, <2>11,
       <2>12, <2>13, <2>14, <2>15, <2>16, <2>17, <2>18, <2>19, <2>20, <2>21,
       <2>22, <2>23, <2>24, <2>25, <2>26, <2>27, <2>28, <2>29, <2>30
    DEF Next, Handle, Deliver, Terminated
<1>. QED
  BY <1>1, <1>2, TypeCorrect, PTL DEF Spec

\* A handler returns Ok only if the chain did what it was asked for, and a
\* burn without warning only if its packet was acknowledged; an error that
\* comes from its event or its warning says nothing else.
THEOREM OkIsTrueAlways == Spec => []OkIsTrue
<1>1. Reports => OkIsTrue
  BY DEF Reports, EffectSeen, AckSeen, OkIsTrue
<1>. QED
  BY <1>1, ReportsInvariant, PTL

\* Every row of the operations table is an operation of the chain.
THEOREM HistorySoundAlways == Spec => []HistorySound
<1>1. TypeOK /\ Reports => HistorySound
  BY DEF TypeOK, Reports, EffectSeen, HistorySound
<1>. QED
  BY <1>1, TypeCorrect, ReportsInvariant, PTL

-----------------------------------------------------------------------------
(* On PostgreSQL errors are true and the history is complete.              *)

\* A handler that has not built its transaction has no message on the chain,
\* and a header is the message of update_signer.
NothingBuilt ==
  \A r \in Requests :
    /\ pc[r] \in {"idle", "read", "closing"} => tx[r].msg = "none"
    /\ tx[r].msg = "header" => job[r].kind = "update"

\* A message waits in the mempool only while its handler waits for it or after
\* it has failed.
MempoolLeft ==
  \A r \in mempool : pc[r] \in {"sent", "done"}

\* The operation of r takes effect with the answer to its first message.
EffectUnseen ==
  \A r \in executed :
    \/ tx[r].msg = "ack"
    \/ pc[r] = "answered" /\ resp[r] = "ok"
    \/ pc[r] \in {"committed", "recorded", "acking", "done"}

\* A mint or burn is in the history from add_operation on.
Recorded ==
  \A r \in Requests :
    /\ job[r].kind \in {"mint", "burn"}
    /\ \/ pc[r] \in {"recorded", "acking"}
       \/ tx[r].msg = "ack"
       \/ out[r] \in {"ok", "warn", "late"}
    => r \in ops

\* Handlers return with a result, and with an error only if it is final.
Returned ==
  \A r \in Requests :
    /\ pc[r] = "done" <=> out[r] # "none"
    /\ out[r] = "err" => r \notin executed \cup mempool

Outcomes == NothingBuilt /\ MempoolLeft /\ EffectUnseen /\ Recorded /\ Returned

\* Without the locks of SQLite, only a dropped handler or an await that fails
\* can come between the effect of an operation and the handler's knowledge of
\* it, or its row in the history.
THEOREM OutcomesInvariant ==
  ASSUME Backend = "postgres"
  PROVE  Spec => []Outcomes
<1> USE DEF Outcomes, NothingBuilt, MempoolLeft, EffectUnseen, Recorded, Returned
<1>1. Init => Outcomes
  BY DEF Init
<1>2. TypeOK /\ Outcomes /\ [Next]_vars => Outcomes'
  <2> SUFFICES ASSUME TypeOK, Outcomes, [Next]_vars PROVE Outcomes'
    OBVIOUS
  <2> USE DEF TypeOK
  <2>1. ASSUME NEW r \in Requests, Receive(r) PROVE Outcomes'
    BY <2>1
    DEF Receive, Goto, dbVars, chainVars, clientVars
  <2>2. ASSUME NEW r \in Requests, NotConnected(r) PROVE Outcomes'
    BY <2>2
    DEF NotConnected, Finish, chainVars, clientVars
  <2>3. ASSUME NEW r \in Requests, Busy(r) PROVE Outcomes'
    BY <2>3
    DEF Busy, Finish, Failure, InProcessPackets, chainVars, clientVars
  <2>4. ASSUME NEW r \in Requests, Overflow(r) PROVE Outcomes'
    BY <2>4
    DEF Overflow, Finish, Failure, InProcessPackets, chainVars, clientVars
  <2>5. ASSUME NEW r \in Requests, MintPrepare(r) PROVE Outcomes'
    BY <2>5
    DEF MintPrepare, Prepare, Signed, Goto, IncrementSequence, IncrementPacketSequence,
       SequenceOverflow, PacketOverflow, chainVars, clientVars
  <2>6. ASSUME NEW r \in Requests, BurnPrepare(r) PROVE Outcomes'
    BY <2>6
    DEF BurnPrepare, Signed, Goto, dbVars, chainVars, clientVars
  <2>7. ASSUME NEW r \in Requests, DuplicateKey(r) PROVE Outcomes'
    BY <2>7
    DEF DuplicateKey, Finish, chainVars, clientVars
  <2>8. ASSUME NEW r \in Requests, UpdatePrepare(r) PROVE Outcomes'
    BY <2>8
    DEF UpdatePrepare, Prepare, Signed, Goto, IncrementSequence, SequenceOverflow, chainVars, clientVars
  <2>9. ASSUME NEW r \in Requests, CloseWrite(r) PROVE Outcomes'
    BY <2>9
    DEF CloseWrite, Goto, chainVars, clientVars
  <2>10. ASSUME NEW r \in Requests, CloseReread(r) PROVE Outcomes'
    BY <2>10
    DEF CloseReread, Finish, chainVars, clientVars
  <2>11. ASSUME NEW r \in Requests, Build(r) PROVE Outcomes'
    BY <2>11
    DEF Build, Goto, dbVars, chainVars, clientVars, Tx
  <2>12. ASSUME NEW r \in Requests, Broadcast(r) PROVE Outcomes'
    BY <2>12
    DEF Broadcast, Goto, dbVars, clientVars
  <2>13. ASSUME NEW r \in Requests, CheckTxRefuses(r) PROVE Outcomes'
    BY <2>13
    DEF CheckTxRefuses, Goto, dbVars, chainVars, clientVars
  <2>14. ASSUME NEW r \in Requests, Refused(r) PROVE Outcomes'
    BY <2>14
    DEF Refused, Finish, chainVars, clientVars
  <2>15. ASSUME NEW r \in Requests, MintCommit(r) PROVE Outcomes'
    <3>1. CASE resp[r] = "ok"
      BY <2>15, <3>1 DEF MintCommit, Commit, Goto, chainVars, clientVars
    <3>2. CASE resp[r] # "ok"
      <4>1. r \notin executed \cup mempool
        BY <2>15, <3>2 DEF MintCommit
      <4>2. /\ pc' = [pc EXCEPT ![r] = "done"] /\ out' = [out EXCEPT ![r] = "err"]
            /\ UNCHANGED <<job, tx, resp, ops, executed, mempool>>
        BY <2>15, <3>2 DEF MintCommit, Goto, chainVars, clientVars
      <4>3. NothingBuilt' /\ MempoolLeft' /\ EffectUnseen'
        BY <4>2
      <4>4. Recorded'
        BY <2>15, <4>2 DEF MintCommit
      <4>5. Returned'
        BY <4>1, <4>2
      <4>. QED
        BY <4>3, <4>4, <4>5
    <3>. QED
      BY <3>1, <3>2
  <2>16. ASSUME NEW r \in Requests, BurnAccepted(r) PROVE Outcomes'
    BY <2>16
    DEF BurnAccepted, Goto, dbVars, chainVars, clientVars
  <2>17. ASSUME NEW r \in Requests, UpdateCommit(r) PROVE Outcomes'
    BY <2>17
    DEF UpdateCommit, Commit, Goto, chainVars, clientVars
  <2>18. ASSUME NEW r \in Requests, RecordOperation(r) PROVE Outcomes'
    BY <2>18
    DEF RecordOperation, Goto, chainVars, clientVars
  <2>19. ASSUME NEW r \in Requests, Notify(r) PROVE Outcomes'
    <3>1. pc[r] = "recorded" /\ UNCHANGED <<job, tx, resp, ops, executed, mempool>>
      BY <2>19 DEF Notify, dbVars, chainVars, clientVars
    <3>2. \/ pc' = [pc EXCEPT ![r] = "acking"] /\ out' = out
          \/ pc' = [pc EXCEPT ![r] = "done"] /\ out' = [out EXCEPT ![r] = "ok"]
      BY <2>19 DEF Notify, Goto
    <3>3. NothingBuilt'
      BY <3>1, <3>2
    <3>4. MempoolLeft'
      BY <3>1, <3>2
    <3>5. EffectUnseen'
      BY <3>1, <3>2
    <3>6. Recorded'
      BY <3>1, <3>2
    <3>7. Returned'
      BY <3>1, <3>2
    <3>. QED  BY <3>3, <3>4, <3>5, <3>6, <3>7
  <2>20. ASSUME NEW r \in Requests, AckPrepare(r) PROVE Outcomes'
    BY <2>20
    DEF AckPrepare, Prepare, Signed, Goto, IncrementSequence, SequenceOverflow, chainVars, clientVars
  <2>21. ASSUME NEW r \in Requests, AckCommit(r) PROVE Outcomes'
    BY <2>21
    DEF AckCommit, Commit, Goto, chainVars, clientVars
  <2>22. ASSUME NEW r \in Requests, DeliverRecv(r) PROVE Outcomes'
    <3>1. CASE Include(r, "ok") /\ executed' = executed \cup {r}
      BY <2>22, <3>1 DEF DeliverRecv, Include, dbVars
    <3>2. CASE Include(r, "failack") /\ executed' = executed
      BY <2>22, <3>2 DEF DeliverRecv, Include, dbVars
    <3>. QED
      BY <2>22, <3>1, <3>2 DEF DeliverRecv
  <2>23. ASSUME NEW r \in Requests, DeliverDuplicate(r) PROVE Outcomes'
    BY <2>23
    DEF DeliverDuplicate, Include, dbVars, clientVars
  <2>24. ASSUME NEW r \in Requests, DeliverTransfer(r) PROVE Outcomes'
    BY <2>24
    DEF DeliverTransfer, Include, dbVars
  <2>25. ASSUME NEW r \in Requests, DeliverAck(r) PROVE Outcomes'
    BY <2>25
    DEF DeliverAck, Include, dbVars
  <2>26. ASSUME NEW r \in Requests, DeliverHeader(r) PROVE Outcomes'
    BY <2>26
    DEF DeliverHeader, Include, dbVars
  <2>27. ASSUME NEW r \in Requests, DeliverRefused(r) PROVE Outcomes'
    BY <2>27
    DEF DeliverRefused, Include, dbVars, clientVars
  <2>28. ASSUME NEW r \in Requests, DropTx(r) PROVE Outcomes'
    BY <2>28
    DEF DropTx, dbVars, handlerVars, clientVars
  <2>29. ASSUME NEW r \in Requests, Fail(r) PROVE Outcomes'
    <3>1. CASE Finish(r, "cut")
      BY <2>29, <3>1 DEF Fail, Finish, chainVars, clientVars
    <3>2. CASE ~AtStake(r) /\ ~OnRecord(r) /\ Finish(r, "err")
      BY <2>29, <3>2
      DEF Fail, Finish, AtStake, OnRecord, InProcessPackets, chainVars, clientVars
    <3>3. CASE AtStake(r) /\ Finish(r, "unsure")
      BY <2>29, <3>3 DEF Fail, Finish, chainVars, clientVars
    <3>4. CASE OnRecord(r) /\ Finish(r, "late")
      BY <2>29, <3>4
      DEF Fail, Finish, OnRecord, InProcessPackets, chainVars, clientVars
    <3>5. CASE InProcessPackets(r) /\ Finish(r, "warn")
      BY <2>29, <3>5 DEF Fail, Finish, InProcessPackets, chainVars, clientVars
    <3>. QED
      BY <2>29, <3>1, <3>2, <3>3, <3>4, <3>5 DEF Fail
  <2>30. CASE OthersCommit \/ UNCHANGED vars
    BY <2>30 DEF OthersCommit, vars, dbVars, handlerVars, chainVars, clientVars
  <2>. QED
    BY <2>1, <2>2, <2>3, <2>4, <2>5, <2>6, <2>7, <2>8, <2>9, <2>10, <2>11,
       <2>12, <2>13, <2>14, <2>15, <2>16, <2>17, <2>18, <2>19, <2>20, <2>21,
       <2>22, <2>23, <2>24, <2>25, <2>26, <2>27, <2>28, <2>29, <2>30
    DEF Next, Handle, Deliver, Terminated
<1>. QED
  BY <1>1, <1>2, TypeCorrect, PTL DEF Spec

\* On PostgreSQL the error of a handler that gives up, or that fails before its
\* broadcast, is final, whatever else fails: the caller may try again.
THEOREM ErrorIsTrueAlways ==
  ASSUME Backend = "postgres"
  PROVE  Spec => []ErrorIsTrue
<1>1. Outcomes => ErrorIsTrue
  BY DEF Outcomes, Returned, ErrorIsTrue
<1>. QED
  BY <1>1, OutcomesInvariant, PTL

\* On PostgreSQL every mint and burn is in the history whose handler was not
\* dropped and did not fail between its broadcast and add_operation.
THEOREM HistoryCompleteAlways ==
  ASSUME Backend = "postgres"
  PROVE  Spec => []HistoryComplete
<1>1. TypeOK /\ Outcomes => HistoryComplete
  BY DEF TypeOK, Outcomes, Recorded, Returned, HistoryComplete
<1>. QED
  BY <1>1, TypeCorrect, OutcomesInvariant, PTL

-----------------------------------------------------------------------------
(* Without burns the service implements stop-and-wait.                     *)

\* The handler of r has an uncommitted increment.
InTransaction(r) ==
  pc[r] \in {"prepared", "built", "sent", "answered"} /\ tx[r].msg # "transfer"

\* The copy a transaction works on is one increment ahead of the row, and
\* only mint increments the packet sequence too.
WorkImage ==
  \A r \in Requests : InTransaction(r) =>
    /\ work.seq = row.seq + 1
    /\ work.pkt = IF tx[r].msg = "recv" THEN row.pkt + 1 ELSE row.pkt

\* The transaction in flight of a mint is a recv, that of an update a header.
NoBurnMsgs ==
  \A r \in Requests :
    /\ pc[r] # "acking"
    /\ tx[r].msg \in {"none", "recv", "header"}
    /\ InTransaction(r) => tx[r].msg # "none"

\* The row moves one sequence at a time, the packet sequence with it, so a
\* copy with the sequence of the row has its packet sequence as well.
PacketWithSequence ==
  \A r \in Requests :
    /\ loc[r].seq = row.seq => loc[r].pkt = row.pkt
    /\ tx[r].msg # "none" /\ tx[r].seq = row.seq => tx[r].pkt = row.pkt

\* No receipt is ahead of the row, and none is at the packet sequence of the
\* row unless the mint it belongs to is still to be committed, or is lost.
ReceiptsBehind ==
  /\ \A p \in received : p <= row.pkt
  /\ cSeq = row.seq => \A p \in received : p < row.pkt
  /\ \A r \in Requests : Accepted(r) /\ tx[r].msg = "header" =>
       \A p \in received : p < row.pkt

\* The database is never ahead, and what was accepted is one ahead of it.
DatabaseBehind ==
  /\ row.seq <= cSeq
  /\ \A r \in Requests : Accepted(r) => cSeq = row.seq + 1 /\ resp[r] # "noop"

StopAndWaitInv ==
  /\ WorkImage /\ NoBurnMsgs /\ PacketWithSequence /\ ReceiptsBehind
  /\ DatabaseBehind

\* Without burns, a step that moves neither sequence, builds no message and
\* opens no transaction keeps the invariant.
LEMMA FrameStep ==
  ASSUME StopAndWaitInv,
         UNCHANGED <<row, work, loc, cSeq, received>>,
         \A q \in Requests : /\ tx'[q].msg = tx[q].msg
                             /\ tx'[q].seq = tx[q].seq
                             /\ tx'[q].pkt = tx[q].pkt,
         \A q \in Requests : InTransaction(q)' => InTransaction(q),
         \A q \in Requests : Accepted(q)' => Accepted(q) /\ resp'[q] = resp[q],
         \A q \in Requests : pc'[q] # "acking"
  PROVE  StopAndWaitInv'
<1>1. WorkImage'
  BY DEF StopAndWaitInv, WorkImage
<1>2. NoBurnMsgs'
  BY DEF StopAndWaitInv, NoBurnMsgs
<1>3. PacketWithSequence'
  BY DEF StopAndWaitInv, PacketWithSequence
<1>4. ReceiptsBehind'
  BY DEF StopAndWaitInv, ReceiptsBehind
<1>5. DatabaseBehind'
  BY DEF StopAndWaitInv, DatabaseBehind
<1>. QED
  BY <1>1, <1>2, <1>3, <1>4, <1>5 DEF StopAndWaitInv

\* A handler takes the free lock and signs a message with its local copy.
LEMMA PrepareStep ==
  ASSUME TypeOK, LockHeld, StopAndWaitInv,
         NEW r \in Requests, NEW m \in {"recv", "header"}, lock = None,
         pc' = [pc EXCEPT ![r] = "prepared"],
         tx' = [tx EXCEPT ![r] = Signed(r, m)],
         work'.seq = row.seq + 1,
         work'.pkt = IF m = "recv" THEN row.pkt + 1 ELSE row.pkt,
         UNCHANGED <<row, loc, resp, cSeq, received>>
  PROVE  StopAndWaitInv'
<1>1. \A q \in Requests : ~InTransaction(q)
  BY NoneAssumption DEF LockHeld, InTransaction
<1>2. pc'[r] = "prepared" /\ \A q \in Requests : q # r => pc'[q] = pc[q]
  BY DEF TypeOK
<1>3. tx'[r] = Signed(r, m) /\ \A q \in Requests : q # r => tx'[q] = tx[q]
  BY DEF TypeOK
<1>4. tx'[r].msg = m /\ tx'[r].seq = loc[r].seq /\ tx'[r].pkt = loc[r].pkt
  BY <1>3 DEF Signed
<1>5. \A q \in Requests : InTransaction(q)' => q = r
  BY <1>1, <1>2, <1>3 DEF InTransaction
<1>6. \A q \in Requests : Accepted(q)' => Accepted(q) /\ tx'[q] = tx[q]
  BY <1>2, <1>3 DEF Accepted
<1>7. WorkImage'
  BY <1>4, <1>5 DEF WorkImage
<1>8. NoBurnMsgs'
  BY <1>2, <1>3, <1>4, <1>5 DEF StopAndWaitInv, NoBurnMsgs
<1>9. PacketWithSequence'
  BY <1>3, <1>4 DEF StopAndWaitInv, PacketWithSequence
<1>10. ReceiptsBehind'
  BY <1>6 DEF StopAndWaitInv, ReceiptsBehind
<1>11. DatabaseBehind'
  BY <1>6 DEF StopAndWaitInv, DatabaseBehind
<1>. QED
  BY <1>7, <1>8, <1>9, <1>10, <1>11 DEF StopAndWaitInv

\* A handler whose proof was accepted commits its increment.
LEMMA CommitStep ==
  ASSUME TypeOK, LockHeld, SignedFromRow, StopAndWaitInv,
         NEW r \in Requests, InTransaction(r), Accepted(r),
         tx[r].msg \in {"recv", "header"},
         NEW label \in {"committed", "recorded", "done"},
         pc' = [pc EXCEPT ![r] = label],
         row' = work,
         UNCHANGED <<work, loc, tx, resp, cSeq, received>>
  PROVE  StopAndWaitInv'
<1>1. lock = r
  BY DEF LockHeld, InTransaction
<1>2. \A q \in Requests : q # r => ~InTransaction(q)
  BY <1>1 DEF LockHeld, InTransaction
<1>3. /\ row'.seq = row.seq + 1
      /\ row'.pkt = IF tx[r].msg = "recv" THEN row.pkt + 1 ELSE row.pkt
      /\ cSeq = row.seq + 1
  BY DEF StopAndWaitInv, WorkImage, DatabaseBehind
<1>4. pc'[r] = label /\ \A q \in Requests : q # r => pc'[q] = pc[q]
  BY DEF TypeOK
<1>5. \A q \in Requests : ~InTransaction(q)'
  BY <1>2, <1>4 DEF InTransaction
<1>6. \A q \in Requests : Accepted(q) => InTransaction(q)
  BY DEF Accepted, InTransaction
<1>7. \A q \in Requests : ~Accepted(q)'
  BY <1>2, <1>4, <1>6 DEF Accepted
<1>8. \A q \in Requests : loc'[q].seq < row'.seq /\ tx'[q].seq < row'.seq
  BY <1>3, Numbers DEF SignedFromRow
<1>9. WorkImage'
  BY <1>5 DEF WorkImage
<1>10. NoBurnMsgs'
  BY <1>4, <1>5 DEF StopAndWaitInv, NoBurnMsgs
<1>11. PacketWithSequence'
  BY <1>8, Numbers, <1>3 DEF PacketWithSequence
<1>12. \A p \in received : p <= row.pkt /\ (tx[r].msg = "header" => p < row.pkt)
  BY DEF StopAndWaitInv, ReceiptsBehind
<1>13. \A p \in received' : p < row'.pkt
  BY <1>3, <1>12, Numbers
<1>14. ReceiptsBehind'
  BY <1>7, <1>13, <1>3, Numbers DEF ReceiptsBehind
<1>15. DatabaseBehind'
  BY <1>3, <1>7, Numbers DEF DatabaseBehind
<1>. QED
  BY <1>9, <1>10, <1>11, <1>14, <1>15 DEF StopAndWaitInv

\* A proof that the light client accepts is at the sequence of the row, and
\* the packet of such a mint has no receipt yet.
LEMMA AcceptedAtRow ==
  ASSUME TypeOK, SignedFromRow, StopAndWaitInv, NEW r \in Requests,
         ProofOk(r), tx[r].msg # "none"
  PROVE  /\ cSeq = row.seq /\ tx[r].pkt = row.pkt
         /\ \A p \in received : p < row.pkt
         /\ \A q \in Requests : ~Accepted(q)
<1>1. tx[r].seq = cSeq /\ tx[r].seq <= row.seq /\ row.seq <= cSeq
  BY DEF ProofOk, SignedFromRow, StopAndWaitInv, DatabaseBehind
<1>2. cSeq = row.seq
  BY <1>1, Numbers
<1>3. tx[r].pkt = row.pkt
  BY <1>1, <1>2 DEF StopAndWaitInv, PacketWithSequence
<1>4. \A p \in received : p < row.pkt
  BY <1>2 DEF StopAndWaitInv, ReceiptsBehind
<1>5. \A q \in Requests : ~Accepted(q)
  BY <1>2, Numbers DEF StopAndWaitInv, DatabaseBehind
<1>. QED
  BY <1>2, <1>3, <1>4, <1>5

\* The chain accepts the proof of r, a mint or an update.
LEMMA AcceptStep ==
  ASSUME TypeOK, SignedFromRow, StopAndWaitInv,
         NEW r \in Requests, ProofOk(r), tx[r].msg \in {"recv", "header"},
         NEW a \in {"ok", "failack"}, Include(r, a),
         cSeq' = cSeq + 1,
         received' = IF tx[r].msg = "recv" THEN received \cup {tx[r].pkt} ELSE received
  PROVE  StopAndWaitInv'
<1>1. /\ cSeq = row.seq /\ tx[r].pkt = row.pkt
      /\ \A p \in received : p < row.pkt
      /\ \A q \in Requests : ~Accepted(q)
  BY AcceptedAtRow
<1>2. UNCHANGED <<row, work, loc, tx>>
  BY DEF Include, dbVars
<1>3. \A q \in Requests : pc'[q] = pc[q] \/ (pc[q] = "sent" /\ pc'[q] = "answered" /\ q = r)
  BY DEF Include, TypeOK
<1>4. \A q \in Requests : resp'[q] = resp[q] \/ (q = r /\ resp'[q] = a)
  BY DEF Include, TypeOK
<1>5. \A q \in Requests : InTransaction(q)' => InTransaction(q)
  BY <1>2, <1>3 DEF InTransaction
<1>6. \A q \in Requests : Accepted(q)' => q = r /\ resp'[r] = a
  <2> SUFFICES ASSUME NEW q \in Requests, Accepted(q)' PROVE q = r /\ resp'[r] = a
    OBVIOUS
  <2>1. ~Accepted(q) /\ pc'[q] = "answered" /\ tx[q].msg # "transfer"
        /\ resp'[q] # "refused"
    BY <1>1, <1>2 DEF Accepted
  <2>2. CASE pc'[q] = pc[q]
    BY <2>1, <2>2, <1>4 DEF Accepted
  <2>3. CASE pc[q] = "sent" /\ q = r
    BY <2>3 DEF Include, TypeOK
  <2>. QED
    BY <2>2, <2>3, <1>3
<1>7. WorkImage'
  BY <1>2, <1>5 DEF StopAndWaitInv, WorkImage
<1>8. NoBurnMsgs'
  BY <1>2, <1>3, <1>5 DEF StopAndWaitInv, NoBurnMsgs
<1>9. PacketWithSequence'
  BY <1>2 DEF StopAndWaitInv, PacketWithSequence
<1>10. \A p \in received' : p <= row.pkt /\ (tx[r].msg = "header" => p < row.pkt)
  BY <1>1, Numbers
<1>11. ReceiptsBehind'
  BY <1>1, <1>2, <1>6, <1>10, Numbers DEF ReceiptsBehind
<1>12. DatabaseBehind'
  BY <1>1, <1>2, <1>6, Numbers DEF DatabaseBehind
<1>. QED
  BY <1>7, <1>8, <1>9, <1>11, <1>12 DEF StopAndWaitInv

\* Without burns the database never overtakes the light client: a handler
\* commits an increment only after a proof at exactly that sequence was
\* accepted, however many handlers read the row before.
THEOREM StopAndWaitInvariant ==
  ASSUME "burn" \notin Kinds
  PROVE  Spec => []StopAndWaitInv
<1>1. Init => StopAndWaitInv
  BY WidthAssumption DEF Init, StopAndWaitInv, WorkImage, NoBurnMsgs,
     PacketWithSequence, ReceiptsBehind, DatabaseBehind, InTransaction, Accepted
<1>2. /\ TypeOK /\ LockHeld /\ SignedFromRow /\ StopAndWaitInv /\ [Next]_vars
      => StopAndWaitInv'
  <2> SUFFICES ASSUME TypeOK, LockHeld, SignedFromRow, StopAndWaitInv, [Next]_vars
               PROVE  StopAndWaitInv'
    OBVIOUS
  <2>a. \A q \in Requests : /\ pc[q] # "acking"
                            /\ tx[q].msg \in {"none", "recv", "header"}
                            /\ InTransaction(q) => tx[q].msg # "none"
                            /\ job[q].kind # "burn"
    BY DEF StopAndWaitInv, NoBurnMsgs, TypeOK, Jobs
  \* Steps that end a handler, or move it without a transaction.
  <2>1. ASSUME NEW r \in Requests,
               \/ NotConnected(r) \/ Busy(r) \/ Overflow(r) \/ DuplicateKey(r)
               \/ CloseReread(r) \/ Refused(r) \/ Fail(r)
        PROVE  StopAndWaitInv'
    <3>1. UNCHANGED <<row, work, loc, tx, resp, cSeq, received>>
      BY <2>1 DEF NotConnected, Busy, Overflow, DuplicateKey, CloseReread, Refused,
         Fail, chainVars, clientVars
    <3>2. pc' = [pc EXCEPT ![r] = "done"]
      BY <2>1 DEF NotConnected, Busy, Overflow, DuplicateKey, CloseReread, Refused,
         Fail, Finish
    <3>3. \A q \in Requests : pc'[q] = pc[q] \/ pc'[q] = "done"
      BY <3>2 DEF TypeOK
    <3>. QED
      BY <3>1, <3>3, <2>a, FrameStep DEF InTransaction, Accepted
  <2>2. ASSUME NEW r \in Requests,
               Broadcast(r) \/ CheckTxRefuses(r) \/ RecordOperation(r) \/ Notify(r)
        PROVE  StopAndWaitInv'
    <3>1. UNCHANGED <<row, work, loc, tx, cSeq, received>>
      BY <2>2 DEF Broadcast, CheckTxRefuses, RecordOperation, Notify, dbVars,
         chainVars, clientVars
    <3>2. \/ pc[r] = "built" /\ pc' = [pc EXCEPT ![r] = "sent"] /\ resp' = resp
          \/ /\ pc[r] = "built" /\ pc' = [pc EXCEPT ![r] = "answered"]
             /\ resp' = [resp EXCEPT ![r] = "refused"]
          \/ pc' = [pc EXCEPT ![r] = "recorded"] /\ resp' = resp
          \/ pc' = [pc EXCEPT ![r] = "done"] /\ resp' = resp
      BY <2>2, <2>a DEF Broadcast, CheckTxRefuses, RecordOperation, Notify, Goto
    <3>3. \A q \in Requests :
            \/ pc'[q] = pc[q] \/ pc'[q] \in {"recorded", "done"}
            \/ pc[q] = "built" /\ pc'[q] = "sent"
            \/ pc[q] = "built" /\ pc'[q] = "answered" /\ resp'[q] = "refused"
      BY <3>2 DEF TypeOK
    <3>4. \A q \in Requests : resp'[q] = resp[q] \/ resp'[q] = "refused"
      BY <3>2 DEF TypeOK
    <3>5. \A q \in Requests : InTransaction(q)' => InTransaction(q)
      BY <3>1, <3>3 DEF InTransaction
    <3>6. \A q \in Requests : Accepted(q)' => Accepted(q) /\ resp'[q] = resp[q]
      BY <3>1, <3>3, <3>4 DEF Accepted
    <3>. QED
      BY <3>1, <3>3, <3>5, <3>6, <2>a, FrameStep
  <2>3. ASSUME NEW r \in Requests, Receive(r) PROVE StopAndWaitInv'
    <3>1. /\ pc' = [pc EXCEPT ![r] = "read"] /\ loc' = [loc EXCEPT ![r] = row]
          /\ UNCHANGED <<row, work, tx, resp, cSeq, received>>
      BY <2>3 DEF Receive, Goto, dbVars, chainVars, clientVars
    <3>2. \A q \in Requests : pc'[q] = pc[q] \/ pc'[q] = "read"
      BY <3>1 DEF TypeOK
    <3>3. \A q \in Requests : loc'[q] = loc[q] \/ loc'[q] = row
      BY <3>1 DEF TypeOK
    <3>4. WorkImage' /\ NoBurnMsgs'
      BY <3>1, <3>2, <2>a DEF StopAndWaitInv, WorkImage, NoBurnMsgs, InTransaction
    <3>5. PacketWithSequence'
      BY <3>1, <3>3 DEF StopAndWaitInv, PacketWithSequence
    <3>6. ReceiptsBehind' /\ DatabaseBehind'
      BY <3>1, <3>2 DEF StopAndWaitInv, ReceiptsBehind, DatabaseBehind, Accepted
    <3>. QED
      BY <3>4, <3>5, <3>6 DEF StopAndWaitInv
  <2>4. ASSUME NEW r \in Requests, MintPrepare(r) PROVE StopAndWaitInv'
    <3>1. /\ lock = None /\ pc' = [pc EXCEPT ![r] = "prepared"]
          /\ tx' = [tx EXCEPT ![r] = Signed(r, "recv")]
          /\ work' = IncrementPacketSequence(IncrementSequence(row))
          /\ UNCHANGED <<row, loc, resp, cSeq, received>>
      BY <2>4 DEF MintPrepare, Prepare, CanWrite, Goto, chainVars, clientVars
    <3>2. work'.seq = row.seq + 1 /\ work'.pkt = row.pkt + 1
      BY <3>1 DEF IncrementSequence, IncrementPacketSequence, TypeOK, Row
    <3>. QED
      BY <3>1, <3>2, PrepareStep
  <2>5. ASSUME NEW r \in Requests, UpdatePrepare(r) PROVE StopAndWaitInv'
    <3>1. /\ lock = None /\ pc' = [pc EXCEPT ![r] = "prepared"]
          /\ tx' = [tx EXCEPT ![r] = Signed(r, "header")]
          /\ work' = IncrementSequence(row)
          /\ UNCHANGED <<row, loc, resp, cSeq, received>>
      BY <2>5 DEF UpdatePrepare, Prepare, CanWrite, Goto, chainVars, clientVars
    <3>2. work'.seq = row.seq + 1 /\ work'.pkt = row.pkt
      BY <3>1 DEF IncrementSequence, TypeOK, Row
    <3>. QED
      BY <3>1, <3>2, PrepareStep
  <2>6. ASSUME NEW r \in Requests, CloseWrite(r) PROVE StopAndWaitInv'
    <3>1. /\ lock = None /\ pc' = [pc EXCEPT ![r] = "closing"]
          /\ UNCHANGED <<row, loc, tx, resp, cSeq, received>>
      BY <2>6 DEF CloseWrite, CanWrite, Goto, chainVars, clientVars
    <3>2. \A q \in Requests : ~InTransaction(q)
      BY <3>1, NoneAssumption DEF LockHeld, InTransaction
    <3>3. \A q \in Requests : pc'[q] = pc[q] \/ pc'[q] = "closing"
      BY <3>1 DEF TypeOK
    <3>4. \A q \in Requests : ~InTransaction(q)'
      BY <3>1, <3>2, <3>3 DEF InTransaction
    <3>5. WorkImage' /\ NoBurnMsgs'
      BY <3>1, <3>3, <3>4, <2>a DEF WorkImage, NoBurnMsgs
    <3>6. PacketWithSequence'
      BY <3>1 DEF StopAndWaitInv, PacketWithSequence
    <3>7. ReceiptsBehind' /\ DatabaseBehind'
      BY <3>1, <3>3 DEF StopAndWaitInv, ReceiptsBehind, DatabaseBehind, Accepted
    <3>. QED
      BY <3>5, <3>6, <3>7 DEF StopAndWaitInv
  <2>7. ASSUME NEW r \in Requests, Build(r) PROVE StopAndWaitInv'
    <3>1. /\ pc[r] = "prepared" /\ pc' = [pc EXCEPT ![r] = "built"]
          /\ tx' = [tx EXCEPT ![r].nonce = nonce[job[r].signer]]
          /\ UNCHANGED <<row, work, loc, resp, cSeq, received>>
      BY <2>7 DEF Build, Goto, dbVars, chainVars, clientVars
    <3>2. \A q \in Requests : pc'[q] = pc[q] \/ (pc[q] = "prepared" /\ pc'[q] = "built")
      BY <3>1 DEF TypeOK
    <3>3. \A q \in Requests : /\ tx'[q].msg = tx[q].msg
                              /\ tx'[q].seq = tx[q].seq
                              /\ tx'[q].pkt = tx[q].pkt
      BY <3>1 DEF TypeOK, Tx
    <3>4. \A q \in Requests : InTransaction(q)' => InTransaction(q)
      BY <3>2, <3>3 DEF InTransaction
    <3>5. \A q \in Requests : Accepted(q)' => Accepted(q) /\ resp'[q] = resp[q]
      BY <3>1, <3>2, <3>3 DEF Accepted
    <3>. QED
      BY <3>1, <3>2, <3>3, <3>4, <3>5, <2>a, FrameStep
  <2>8. ASSUME NEW r \in Requests, MintCommit(r) PROVE StopAndWaitInv'
    <3>1. /\ InTransaction(r) /\ Accepted(r) /\ tx[r].msg = "recv"
          /\ row' = work /\ UNCHANGED <<work, loc, tx, resp, cSeq, received>>
      BY <2>8 DEF MintCommit, Commit, InTransaction, Accepted, chainVars, clientVars
    <3>2. \/ pc' = [pc EXCEPT ![r] = "committed"]
          \/ pc' = [pc EXCEPT ![r] = "done"]
      BY <2>8 DEF MintCommit, Goto
    <3>. QED
      BY <3>1, <3>2, CommitStep
  <2>9. ASSUME NEW r \in Requests, UpdateCommit(r) PROVE StopAndWaitInv'
    <3>1. /\ InTransaction(r) /\ Accepted(r) /\ tx[r].msg = "header"
          /\ row' = work /\ UNCHANGED <<work, loc, tx, resp, cSeq, received>>
      BY <2>9 DEF UpdateCommit, Commit, InTransaction, Accepted, chainVars, clientVars
    <3>2. pc' = [pc EXCEPT ![r] = "recorded"]
      BY <2>9 DEF UpdateCommit, Goto
    <3>. QED
      BY <3>1, <3>2, CommitStep
  <2>10. ASSUME NEW r \in Requests, DeliverRecv(r) PROVE StopAndWaitInv'
    <3>1. /\ ProofOk(r) /\ tx[r].msg = "recv" /\ cSeq' = cSeq + 1
          /\ received' = received \cup {tx[r].pkt}
          /\ Include(r, "ok") \/ Include(r, "failack")
      BY <2>10 DEF DeliverRecv, Acceptable
    <3>. QED
      BY <3>1, AcceptStep
  <2>11. ASSUME NEW r \in Requests, DeliverHeader(r) PROVE StopAndWaitInv'
    <3>1. /\ ProofOk(r) /\ tx[r].msg = "header" /\ cSeq' = cSeq + 1
          /\ received' = received /\ Include(r, "ok")
      BY <2>11 DEF DeliverHeader, Acceptable
    <3>. QED
      BY <3>1, AcceptStep
  \* The packet of an acceptable mint is new, so there are no no-op answers.
  <2>12. ASSUME NEW r \in Requests, DeliverDuplicate(r) PROVE FALSE
    <3>1. ProofOk(r) /\ tx[r].msg = "recv" /\ tx[r].pkt \in received
      BY <2>12 DEF DeliverDuplicate, Acceptable
    <3>2. tx[r].pkt = row.pkt /\ \A p \in received : p < row.pkt
      BY <3>1, AcceptedAtRow
    <3>. QED
      BY <3>1, <3>2, Numbers
  <2>13. ASSUME NEW r \in Requests, DeliverRefused(r) PROVE StopAndWaitInv'
    <3>1. UNCHANGED <<row, work, loc, tx, cSeq, received>>
      BY <2>13 DEF DeliverRefused, Include, dbVars, clientVars
    <3>2. \A q \in Requests :
            \/ pc'[q] = pc[q] /\ resp'[q] = resp[q]
            \/ pc[q] = "sent" /\ pc'[q] = "answered" /\ resp'[q] = "refused"
      BY <2>13 DEF DeliverRefused, Include, TypeOK
    <3>3. \A q \in Requests : InTransaction(q)' => InTransaction(q)
      BY <3>1, <3>2 DEF InTransaction
    <3>4. \A q \in Requests : Accepted(q)' => Accepted(q) /\ resp'[q] = resp[q]
      BY <3>1, <3>2 DEF Accepted
    <3>. QED
      BY <3>1, <3>2, <3>3, <3>4, <2>a, FrameStep
  \* Steps that only burns take.
  <2>14. ASSUME NEW r \in Requests,
                \/ BurnPrepare(r) \/ BurnAccepted(r) \/ AckPrepare(r)
                \/ AckCommit(r) \/ DeliverTransfer(r) \/ DeliverAck(r)
         PROVE  FALSE
    BY <2>14, <2>a DEF BurnPrepare, BurnAccepted, AckPrepare, AckCommit,
       DeliverTransfer, DeliverAck
  <2>15. ASSUME (\E r \in Requests : DropTx(r)) \/ OthersCommit \/ UNCHANGED vars
         PROVE  StopAndWaitInv'
    <3>1. UNCHANGED <<row, work, loc, tx, pc, resp, cSeq, received>>
      BY <2>15 DEF DropTx, OthersCommit, vars, dbVars, handlerVars, chainVars, clientVars
    <3>. QED
      BY <3>1, <2>a, FrameStep DEF InTransaction, Accepted
  <2>. QED
    BY <2>1, <2>2, <2>3, <2>4, <2>5, <2>6, <2>7, <2>8, <2>9, <2>10, <2>11,
       <2>12, <2>13, <2>14, <2>15 DEF Next, Handle, Deliver, Terminated
<1>. QED
  BY <1>1, <1>2, TypeCorrect, LockInvariant, SequencesFromRow, PTL DEF Spec

\* Steps that move neither sequence.
LEMMA OtherSteps ==
  ASSUME NEW r \in Requests,
         \/ Receive(r) \/ NotConnected(r) \/ Busy(r) \/ Overflow(r)
         \/ MintPrepare(r) \/ BurnPrepare(r) \/ DuplicateKey(r)
         \/ UpdatePrepare(r) \/ CloseWrite(r) \/ CloseReread(r) \/ Build(r)
         \/ Broadcast(r) \/ CheckTxRefuses(r) \/ Refused(r) \/ BurnAccepted(r)
         \/ RecordOperation(r) \/ Notify(r) \/ AckPrepare(r)
         \/ DeliverDuplicate(r) \/ DeliverTransfer(r) \/ DeliverRefused(r)
         \/ DropTx(r) \/ Fail(r)
  PROVE  row' = row /\ cSeq' = cSeq
  BY DEF Receive, NotConnected, Busy, Overflow, MintPrepare, BurnPrepare,
         DuplicateKey, UpdatePrepare, CloseWrite, CloseReread, Build, Broadcast,
         CheckTxRefuses, Refused, BurnAccepted, RecordOperation, Notify,
         AckPrepare, DeliverDuplicate, DeliverTransfer, DeliverRefused, DropTx,
         Fail, Prepare, Include, dbVars, chainVars, clientVars

\* The invariant of the theorems below.
SyncInv ==
  TypeOK /\ LockHeld /\ SignedFromRow /\ OneProofBehind /\ StopAndWaitInv

LEMMA SyncInvariant ==
  ASSUME "burn" \notin Kinds
  PROVE  Spec => []SyncInv
BY TypeCorrect, LockInvariant, SequencesFromRow, StopAndWaitInvariant, PTL
   DEF SyncInv

\* Without burns only the acceptance of a proof at the sequence of the row
\* moves the light client, and only the commit that knows of it the row.
LEMMA SyncStep ==
  ASSUME "burn" \notin Kinds, SyncInv, [Next]_vars
  PROVE  \/ row'.seq = row.seq /\ cSeq' = cSeq
         \/ cSeq = row.seq /\ cSeq' = cSeq + 1 /\ row' = row
         \/ /\ row.seq + 1 = cSeq /\ cSeq' = cSeq /\ row'.seq = row.seq + 1
            /\ lock # None
<1> USE DEF SyncInv, StopAndWaitInv
<1>1. ASSUME NEW r \in Requests, DeliverRecv(r) \/ DeliverHeader(r)
      PROVE  cSeq = row.seq /\ cSeq' = cSeq + 1 /\ row' = row
  <2>1. cSeq' = cSeq + 1 /\ row' = row /\ tx[r].seq = cSeq
    BY <1>1 DEF DeliverRecv, DeliverHeader, Include, dbVars, Acceptable, ProofOk
  <2>. QED
    BY <2>1 DEF SignedFromRow, DatabaseBehind, TypeOK, Row
<1>2. ASSUME NEW r \in Requests, MintCommit(r) \/ UpdateCommit(r)
      PROVE  /\ row.seq + 1 = cSeq /\ cSeq' = cSeq /\ row'.seq = row.seq + 1
             /\ lock # None
  <2>1. InTransaction(r) /\ Accepted(r) /\ lock = r
    BY <1>2 DEF MintCommit, UpdateCommit, InTransaction, Accepted, LockHeld
  <2>2. row' = work /\ cSeq' = cSeq
    BY <1>2 DEF MintCommit, UpdateCommit, Commit, chainVars, clientVars
  <2>. QED
    BY <2>1, <2>2, NoneAssumption DEF WorkImage, DatabaseBehind
<1>3. ASSUME NEW r \in Requests, DeliverAck(r) \/ AckCommit(r)
      PROVE  FALSE
  BY <1>3 DEF DeliverAck, AckCommit, NoBurnMsgs
<1>4. CASE OthersCommit \/ UNCHANGED vars
  BY <1>4 DEF OthersCommit, vars, dbVars, chainVars, clientVars
<1>. QED
  BY <1>1, <1>2, <1>3, <1>4, OtherSteps DEF Next, Handle, Deliver, Terminated

\* No handler comes to know of an acceptance but by a delivery.
LEMMA NothingLearnt ==
  ASSUME TypeOK, NEW r \in Requests,
         \/ Receive(r) \/ NotConnected(r) \/ Busy(r) \/ Overflow(r)
         \/ MintPrepare(r) \/ BurnPrepare(r) \/ DuplicateKey(r)
         \/ UpdatePrepare(r) \/ CloseWrite(r) \/ CloseReread(r) \/ Build(r)
         \/ Broadcast(r) \/ CheckTxRefuses(r) \/ Refused(r) \/ BurnAccepted(r)
         \/ RecordOperation(r) \/ Notify(r) \/ AckPrepare(r)
         \/ DeliverRefused(r) \/ DropTx(r) \/ Fail(r),
         NEW q \in Requests, ~Accepted(q)
  PROVE  ~Accepted(q)'
<1> USE DEF TypeOK, Accepted
<1>1. CASE Receive(r)
  BY <1>1 DEF Receive, Goto
<1>2. CASE NotConnected(r) \/ Busy(r) \/ Overflow(r)
  BY <1>2 DEF NotConnected, Busy, Overflow, Finish
<1>3. CASE DuplicateKey(r) \/ CloseReread(r) \/ Refused(r) \/ Fail(r)
  BY <1>3 DEF DuplicateKey, CloseReread, Refused, Fail, Finish
<1>4. CASE MintPrepare(r) \/ UpdatePrepare(r) \/ AckPrepare(r)
  BY <1>4 DEF MintPrepare, UpdatePrepare, AckPrepare, Prepare, Goto
<1>5. CASE BurnPrepare(r) \/ Build(r)
  BY <1>5 DEF BurnPrepare, Build, Goto
<1>6. CASE CloseWrite(r) \/ Broadcast(r) \/ CheckTxRefuses(r)
  BY <1>6 DEF CloseWrite, Broadcast, CheckTxRefuses, Goto
<1>7. CASE BurnAccepted(r) \/ RecordOperation(r) \/ Notify(r)
  BY <1>7 DEF BurnAccepted, RecordOperation, Notify, Goto
<1>8. CASE DeliverRefused(r)
  BY <1>8 DEF DeliverRefused, Include
<1>9. CASE DropTx(r)
  BY <1>9 DEF DropTx, handlerVars
<1>. QED
  BY <1>1, <1>2, <1>3, <1>4, <1>5, <1>6, <1>7, <1>8, <1>9

\* When the light client is ahead and no handler knows of it, every proof on
\* its way is too old to be accepted, and none is there to commit.
LEMMA BehindStep ==
  ASSUME "burn" \notin Kinds, SyncInv, [Next]_vars, cSeq = row.seq + 1,
         \A r \in Requests : ~Accepted(r)
  PROVE  /\ row'.seq = row.seq /\ cSeq' = cSeq
         /\ \A r \in Requests : ~Accepted(r)'
<1> USE DEF SyncInv, StopAndWaitInv
<1>1. ASSUME NEW r \in Requests,
             DeliverRecv(r) \/ DeliverDuplicate(r) \/ DeliverHeader(r)
      PROVE  FALSE
  <2>1. tx[r].seq = cSeq
    BY <1>1 DEF DeliverRecv, DeliverDuplicate, DeliverHeader, Acceptable, ProofOk
  <2>2. tx[r].seq <= row.seq /\ row.seq \in Nat
    BY <1>1 DEF SignedFromRow, TypeOK, Row, DeliverRecv, DeliverDuplicate,
                DeliverHeader
  <2>. QED
    BY <2>1, <2>2
<1>2. ASSUME NEW r \in Requests,
             DeliverTransfer(r) \/ DeliverAck(r) \/ AckCommit(r)
      PROVE  FALSE
  BY <1>2 DEF DeliverTransfer, DeliverAck, AckCommit, NoBurnMsgs
<1>3. ASSUME NEW r \in Requests, MintCommit(r) \/ UpdateCommit(r)
      PROVE  FALSE
  BY <1>3 DEF MintCommit, UpdateCommit, Accepted
<1>4. CASE OthersCommit \/ UNCHANGED vars
  BY <1>4 DEF OthersCommit, vars, dbVars, handlerVars, chainVars, clientVars, Accepted
<1>. QED
  BY <1>1, <1>2, <1>3, <1>4, OtherSteps, NothingLearnt
  DEF Next, Handle, Deliver, Terminated

\* Without burns the row and the light client implement stop-and-wait, in
\* both databases, under every fault and for any number of handlers.
THEOREM ImplementsStopAndWait ==
  ASSUME "burn" \notin Kinds
  PROVE  Spec => StopAndWaitSpec
<1>1. Init => Sequences!Init
  BY DEF Init, Sequences!Init
<1>2. SyncInv /\ [Next]_vars => [Sequences!Next]_<<row.seq, cSeq>>
  BY SyncStep
  DEF SyncInv, TypeOK, Row, Sequences!Next, Sequences!Accept, Sequences!Learn
<1>. QED
  BY <1>1, <1>2, SyncInvariant, PTL DEF Spec, StopAndWaitSpec, Sequences!Spec

\* Without burns a service that fell behind never recovers: the light client
\* accepts nothing it signs, and nothing it commits catches up.
THEOREM NeverCatchesUp ==
  ASSUME "burn" \notin Kinds
  PROVE  Spec => StaysBehind
<1>1. SyncInv /\ [Next]_vars
      => [Behind => Behind' /\ row.seq' = row.seq /\ cSeq' = cSeq]_vars
  <2> SUFFICES ASSUME SyncInv, [Next]_vars, Behind
               PROVE  Behind' /\ row.seq' = row.seq /\ cSeq' = cSeq
    OBVIOUS
  <2>1. cSeq = row.seq + 1 /\ row.seq \in Nat
    BY DEF Behind, SyncInv, TypeOK, Row, OneProofBehind
  <2>2. \A r \in Requests : ~Accepted(r)
    BY DEF Behind
  <2>3. row'.seq = row.seq /\ cSeq' = cSeq /\ \A r \in Requests : ~Accepted(r)'
    BY <2>1, <2>2, BehindStep
  <2>. QED
    BY <2>1, <2>3 DEF Behind
<1>. QED
  BY <1>1, SyncInvariant, PTL DEF Spec, StaysBehind

-----------------------------------------------------------------------------
(* Without burns and without faults nothing is lost.                       *)

\* Every message in the mempool has its handler waiting for the answer.
MempoolAwaited == \A r \in mempool : pc[r] = "sent"

\* The chain is ahead only while a handler knows that it is.
NothingLost == cSeq # row.seq => \E r \in Requests : Accepted(r)

FaultFreeInv == MempoolAwaited /\ NothingLost

\* A handler that knows of an acceptance forgets it only by its commit.
LEMMA AcceptanceKept ==
  ASSUME TypeOK, NEW r \in Requests,
         \/ Receive(r) \/ NotConnected(r) \/ Busy(r) \/ Overflow(r)
         \/ MintPrepare(r) \/ BurnPrepare(r) \/ DuplicateKey(r)
         \/ UpdatePrepare(r) \/ CloseWrite(r) \/ CloseReread(r) \/ Build(r)
         \/ Broadcast(r) \/ CheckTxRefuses(r) \/ Refused(r) \/ BurnAccepted(r)
         \/ RecordOperation(r) \/ Notify(r) \/ AckPrepare(r)
         \/ DeliverRefused(r),
         NEW q \in Requests, Accepted(q)
  PROVE  Accepted(q)' /\ tx'[q] = tx[q]
<1> USE DEF TypeOK, Accepted
<1>1. CASE Receive(r) \/ CloseWrite(r) \/ Broadcast(r) \/ CheckTxRefuses(r)
  BY <1>1 DEF Receive, CloseWrite, Broadcast, CheckTxRefuses, Goto
<1>2. CASE NotConnected(r) \/ Busy(r) \/ Overflow(r)
  BY <1>2 DEF NotConnected, Busy, Overflow, Finish
<1>3. CASE DuplicateKey(r) \/ CloseReread(r) \/ Refused(r)
  BY <1>3 DEF DuplicateKey, CloseReread, Refused, Finish
<1>4. CASE MintPrepare(r) \/ UpdatePrepare(r) \/ AckPrepare(r)
  BY <1>4 DEF MintPrepare, UpdatePrepare, AckPrepare, Prepare, Goto
<1>5. CASE BurnPrepare(r) \/ Build(r)
  BY <1>5 DEF BurnPrepare, Build, Goto
<1>6. CASE BurnAccepted(r) \/ RecordOperation(r) \/ Notify(r)
  BY <1>6 DEF BurnAccepted, RecordOperation, Notify, Goto
<1>7. CASE DeliverRefused(r)
  BY <1>7 DEF DeliverRefused, Include
<1>. QED
  BY <1>1, <1>2, <1>3, <1>4, <1>5, <1>6, <1>7

\* A handler with a message in the mempool does nothing but wait.
LEMMA MempoolStep ==
  ASSUME ~MayFail, TypeOK, MempoolAwaited, [Next]_vars
  PROVE  MempoolAwaited'
<1> USE DEF TypeOK, MempoolAwaited
<1>1. ASSUME NEW r \in Requests,
             \/ Receive(r) \/ NotConnected(r) \/ Busy(r) \/ Overflow(r)
             \/ DuplicateKey(r) \/ CloseReread(r) \/ Refused(r)
      PROVE  MempoolAwaited'
  BY <1>1 DEF Receive, NotConnected, Busy, Overflow, DuplicateKey, CloseReread,
              Refused, Finish, Goto, chainVars
<1>2. ASSUME NEW r \in Requests,
             \/ MintPrepare(r) \/ BurnPrepare(r) \/ UpdatePrepare(r)
             \/ AckPrepare(r) \/ CloseWrite(r) \/ Build(r)
      PROVE  MempoolAwaited'
  BY <1>2 DEF MintPrepare, BurnPrepare, UpdatePrepare, AckPrepare, CloseWrite,
              Build, Prepare, Goto, chainVars
<1>3. ASSUME NEW r \in Requests, Broadcast(r) \/ CheckTxRefuses(r)
      PROVE  MempoolAwaited'
  BY <1>3 DEF Broadcast, CheckTxRefuses, Goto, chainVars
<1>4. ASSUME NEW r \in Requests,
             \/ MintCommit(r) \/ BurnAccepted(r) \/ UpdateCommit(r)
             \/ RecordOperation(r) \/ Notify(r) \/ AckCommit(r)
      PROVE  MempoolAwaited'
  BY <1>4 DEF MintCommit, BurnAccepted, UpdateCommit, RecordOperation, Notify,
              AckCommit, Goto, chainVars
<1>5. ASSUME NEW r \in Requests, Deliver(r)
      PROVE  MempoolAwaited'
  <2>1. \E a \in {"ok", "failack", "noop", "refused"} : Include(r, a)
    BY <1>5 DEF Deliver, DeliverRecv, DeliverDuplicate, DeliverTransfer,
                DeliverAck, DeliverHeader, DeliverRefused
  <2>. QED
    BY <2>1 DEF Include
<1>6. ASSUME NEW r \in Requests, DropTx(r) \/ Fail(r)
      PROVE  FALSE
  BY <1>6 DEF DropTx, Fail
<1>7. CASE OthersCommit \/ UNCHANGED vars
  BY <1>7 DEF OthersCommit, vars, handlerVars, chainVars
<1>. QED
  BY <1>1, <1>2, <1>3, <1>4, <1>5, <1>6, <1>7 DEF Next, Handle, Terminated

\* Without burns no packet is sent to the chain again after its receipt.
LEMMA NoDuplicate ==
  ASSUME SyncInv, NEW r \in Requests, DeliverDuplicate(r)
  PROVE  FALSE
<1>1. tx[r].seq = cSeq /\ tx[r].msg = "recv" /\ tx[r].pkt \in received
  BY DEF DeliverDuplicate, Acceptable, ProofOk
<1>2. cSeq = row.seq
  BY <1>1
  DEF SyncInv, SignedFromRow, StopAndWaitInv, DatabaseBehind, TypeOK, Row, Tx
<1>3. tx[r].pkt = row.pkt
  BY <1>1, <1>2 DEF SyncInv, StopAndWaitInv, PacketWithSequence
<1>4. tx[r].pkt < row.pkt
  BY <1>1, <1>2 DEF SyncInv, StopAndWaitInv, ReceiptsBehind
<1>. QED
  BY <1>3, <1>4 DEF SyncInv, TypeOK, Row

\* Without burns and faults the chain is ahead of the database only for as
\* long as the handler whose proof it accepted has not committed.
THEOREM FaultFreeInvariant ==
  ASSUME "burn" \notin Kinds, ~MayFail
  PROVE  Spec => []FaultFreeInv
<1>1. Init => FaultFreeInv
  BY DEF Init, FaultFreeInv, MempoolAwaited, NothingLost
<1>2. SyncInv /\ FaultFreeInv /\ [Next]_vars => FaultFreeInv'
  <2> SUFFICES ASSUME SyncInv, FaultFreeInv, [Next]_vars
               PROVE  FaultFreeInv'
    OBVIOUS
  <2>. USE DEF SyncInv, FaultFreeInv
  <2>1. MempoolAwaited'
    BY MempoolStep
  <2>2. ASSUME NEW r \in Requests, DeliverRecv(r)
        PROVE  NothingLost'
    <3>1. pc[r] = "sent" /\ \E a \in {"ok", "failack"} : Include(r, a)
      BY <2>2 DEF DeliverRecv, Include, MempoolAwaited
    <3>2. Accepted(r)'
      BY <2>2, <3>1 DEF DeliverRecv, Include, Accepted, TypeOK
    <3>. QED
      BY <3>2 DEF NothingLost
  <2>3. ASSUME NEW r \in Requests, DeliverHeader(r)
        PROVE  NothingLost'
    <3>1. pc[r] = "sent" /\ Include(r, "ok")
      BY <2>3 DEF DeliverHeader, Include, MempoolAwaited
    <3>2. Accepted(r)'
      BY <2>3, <3>1 DEF DeliverHeader, Include, Accepted, TypeOK
    <3>. QED
      BY <3>2 DEF NothingLost
  <2>4. ASSUME NEW r \in Requests, MintCommit(r)
        PROVE  NothingLost'
    <3>1. Accepted(r)
      BY <2>4 DEF MintCommit, Accepted
    <3>2. cSeq' = row'.seq
      BY <2>4, <3>1
      DEF MintCommit, Commit, chainVars, clientVars, StopAndWaitInv, WorkImage,
          DatabaseBehind, InTransaction, Accepted
    <3>. QED
      BY <3>2 DEF NothingLost
  <2>5. ASSUME NEW r \in Requests, UpdateCommit(r)
        PROVE  NothingLost'
    <3>1. Accepted(r)
      BY <2>5 DEF UpdateCommit, Accepted
    <3>2. cSeq' = row'.seq
      BY <2>5, <3>1
      DEF UpdateCommit, Commit, chainVars, clientVars, StopAndWaitInv, WorkImage,
          DatabaseBehind, InTransaction, Accepted
    <3>. QED
      BY <3>2 DEF NothingLost
  <2>6. ASSUME NEW r \in Requests,
               \/ DeliverAck(r) \/ AckCommit(r)
               \/ DeliverTransfer(r) \/ DeliverDuplicate(r)
        PROVE  FALSE
    <3>1. CASE DeliverDuplicate(r)
      BY <3>1, NoDuplicate
    <3>. QED
      BY <2>6, <3>1
      DEF DeliverAck, AckCommit, DeliverTransfer, StopAndWaitInv, NoBurnMsgs
  <2>7. ASSUME NEW r \in Requests, DropTx(r) \/ Fail(r)
        PROVE  FALSE
    BY <2>7 DEF DropTx, Fail
  <2>8. ASSUME row' = row, cSeq' = cSeq,
               \A q \in Requests : Accepted(q) => Accepted(q)'
        PROVE  NothingLost'
    BY <2>8 DEF NothingLost
  <2>9. CASE OthersCommit \/ UNCHANGED vars
    <3>1. row' = row /\ cSeq' = cSeq
      BY <2>9 DEF OthersCommit, vars, dbVars, chainVars, clientVars
    <3>2. \A q \in Requests : Accepted(q)' <=> Accepted(q)
      BY <2>9 DEF OthersCommit, vars, handlerVars, Accepted
    <3>. QED
      BY <2>1, <2>8, <3>1, <3>2
  <2>. QED
    BY <2>1, <2>2, <2>3, <2>4, <2>5, <2>6, <2>7, <2>8, <2>9, OtherSteps, AcceptanceKept
    DEF Next, Handle, Deliver, Terminated
<1>. QED
  BY <1>1, <1>2, SyncInvariant, PTL DEF Spec

\* Without burns and faults row and light client name the same sequence
\* whenever no handler is between its increment and its commit.
THEOREM SequencesAgree ==
  ASSUME "burn" \notin Kinds, ~MayFail
  PROVE  Spec => []SequenceSync
<1>1. SyncInv /\ FaultFreeInv => SequenceSync
  BY NoneAssumption
  DEF SyncInv, FaultFreeInv, NothingLost, SequenceSync, Quiet, Accepted,
      LockHeld, StopAndWaitInv, NoBurnMsgs
<1>. QED
  BY <1>1, SyncInvariant, FaultFreeInvariant, PTL

-----------------------------------------------------------------------------
(* Without faults no accepted proof is forgotten, burns or not.            *)

\* The transaction that holds the lock is one increment ahead of the row.
NextInWork == \A r \in Requests : InTransaction(r) => work.seq = row.seq + 1

\* When the light client is ahead, a handler knows.
AheadIsKnown == cSeq > row.seq => \E r \in Requests : Accepted(r)

\* What a handler writes when it takes the lock.
LEMMA NextImages ==
  ASSUME NEW c \in Row
  PROVE  /\ IncrementSequence(c).seq = c.seq + 1
         /\ IncrementPacketSequence(IncrementSequence(c)).seq = c.seq + 1
<1>1. ASSUME NEW d \in Row PROVE IncrementSequence(d).seq = d.seq + 1
  BY <1>1 DEF IncrementSequence, Row
<1>2. ASSUME NEW d, d.seq = c.seq + 1, "pkt" \in DOMAIN d, "seq" \in DOMAIN d
      PROVE  IncrementPacketSequence(d).seq = c.seq + 1
  BY <1>2 DEF IncrementPacketSequence
<1>. QED
  BY <1>1, <1>2 DEF IncrementSequence, Row


LEMMA NextInWorkHandle ==
  ASSUME TypeOK, LockHeld, NextInWork, NEW r \in Requests, Handle(r)
  PROVE  NextInWork'
<1>. USE DEF TypeOK
<1>1. CASE MintPrepare(r) \/ UpdatePrepare(r) \/ AckPrepare(r)
  <2>1. /\ lock = None /\ row' = row
        /\ work' \in {IncrementSequence(row), IncrementPacketSequence(IncrementSequence(row))}
        /\ \A q \in Requests \ {r} : pc'[q] = pc[q] /\ tx'[q] = tx[q]
    BY <1>1 DEF MintPrepare, UpdatePrepare, AckPrepare, Prepare, CanWrite, Goto
  <2>. QED  BY <2>1, NextImages DEF NextInWork
<1>2. CASE CloseWrite(r)
  <2>1. /\ lock = None /\ tx' = tx /\ pc' = [pc EXCEPT ![r] = "closing"]
    BY <1>2 DEF CloseWrite, CanWrite, Goto
  <2>2. \A q \in Requests : ~InTransaction(q)
    BY <2>1, NoneAssumption DEF LockHeld, InTransaction
  <2>. QED  BY <2>1, <2>2 DEF NextInWork, InTransaction
<1>3. CASE MintCommit(r) \/ UpdateCommit(r) \/ AckCommit(r)
  <2>1. /\ lock = r /\ tx' = tx /\ pc'[r] \in {"committed", "recorded", "done"}
        /\ \A q \in Requests \ {r} : pc'[q] = pc[q]
    BY <1>3 DEF MintCommit, UpdateCommit, AckCommit, Goto, LockHeld
  <2>2. \A q \in Requests \ {r} : ~InTransaction(q)
    BY <2>1 DEF LockHeld, InTransaction
  <2>. QED  BY <2>1, <2>2 DEF NextInWork, InTransaction
<1>4. CASE \/ Receive(r) \/ NotConnected(r) \/ Busy(r) \/ Overflow(r) \/ DuplicateKey(r)
           \/ CloseReread(r) \/ Refused(r) \/ Broadcast(r) \/ CheckTxRefuses(r)
           \/ BurnAccepted(r) \/ RecordOperation(r) \/ Notify(r)
  <2>1. /\ row' = row /\ work' = work /\ tx' = tx
        /\ \A q \in Requests : \/ pc'[q] = pc[q]
                               \/ pc'[q] \notin {"prepared", "built", "sent", "answered"}
                               \/ pc[q] = "built"
    BY <1>4
    DEF Receive, NotConnected, Busy, Overflow, DuplicateKey, CloseReread, Refused,
        Broadcast, CheckTxRefuses, BurnAccepted, RecordOperation, Notify, Finish, Goto,
        dbVars
  <2>. QED  BY <2>1 DEF NextInWork, InTransaction
<1>5. CASE BurnPrepare(r)
  BY <1>5 DEF BurnPrepare, Signed, Goto, dbVars, NextInWork, InTransaction
<1>6. CASE Build(r)
  <2>1. /\ row' = row /\ work' = work /\ pc[r] = "prepared"
        /\ \A q \in Requests : tx'[q].msg = tx[q].msg /\ (pc'[q] = pc[q] \/ q = r)
    BY <1>6 DEF Build, Goto, dbVars, Tx
  <2>. QED  BY <2>1 DEF NextInWork, InTransaction
<1>. QED  BY <1>1, <1>2, <1>3, <1>4, <1>5, <1>6 DEF Handle

\* The answer to a waiting handler is the only way the light client moves.
LEMMA AheadDeliver ==
  ASSUME TypeOK, MempoolAwaited, NextInWork, AheadIsKnown, NEW r \in Requests, Deliver(r)
  PROVE  (NextInWork /\ AheadIsKnown)'
<1>1. PICK a \in {"ok", "failack", "noop", "refused"} :
        /\ Include(r, a)
        /\ cSeq' = cSeq \/ (a \in {"ok", "failack"} /\ tx[r].msg # "transfer")
  BY DEF Deliver, DeliverRecv, DeliverDuplicate, DeliverTransfer, DeliverAck,
         DeliverHeader, DeliverRefused, clientVars
<1>2. pc[r] = "sent"
  BY <1>1 DEF Include, MempoolAwaited
<1>3. /\ row' = row /\ work' = work /\ tx' = tx
      /\ pc'[r] = "answered" /\ resp'[r] = a
      /\ \A q \in Requests \ {r} : pc'[q] = pc[q] /\ resp'[q] = resp[q]
  BY <1>1, <1>2 DEF TypeOK, Include, dbVars
<1>4. NextInWork'
  BY <1>2, <1>3 DEF NextInWork, InTransaction
<1>5. \A q \in Requests : Accepted(q) => Accepted(q)'
  BY <1>2, <1>3 DEF Accepted
<1>6. cSeq' = cSeq \/ Accepted(r)'
  BY <1>1, <1>3 DEF Accepted
<1>. QED  BY <1>3, <1>4, <1>5, <1>6 DEF AheadIsKnown

\* A commit makes up for all that the light client can be ahead.
LEMMA AheadHandle ==
  ASSUME TypeOK, LockHeld, OneProofBehind, NextInWork, AheadIsKnown,
         NEW r \in Requests, Handle(r)
  PROVE  AheadIsKnown'
<1>1. CASE MintCommit(r) \/ UpdateCommit(r) \/ AckCommit(r)
  <2>1. row' = work /\ cSeq' = cSeq /\ InTransaction(r)
    BY <1>1 DEF MintCommit, UpdateCommit, AckCommit, Commit, InTransaction, chainVars,
       clientVars
  <2>2. row'.seq = row.seq + 1 /\ row.seq \in Nat /\ cSeq \in Nat
    BY <2>1, Numbers DEF NextInWork
  <2>. QED  BY <2>1, <2>2 DEF OneProofBehind, AheadIsKnown
<1>2. CASE ~(MintCommit(r) \/ UpdateCommit(r) \/ AckCommit(r))
  BY <1>2, OtherSteps, AcceptanceKept DEF Handle, AheadIsKnown
<1>. QED  BY <1>1, <1>2

\* Without faults the light client is ahead only while the handler whose proof
\* it accepted has not committed, however many handlers of whatever kind run.
THEOREM NothingForgottenAlways ==
  ASSUME ~MayFail
  PROVE  Spec => []NothingForgotten
<1>. DEFINE Inv == MempoolAwaited /\ NextInWork /\ AheadIsKnown
<1>1. Init => Inv
  BY WidthAssumption
  DEF Init, MempoolAwaited, NextInWork, InTransaction, AheadIsKnown
<1>2. TypeOK /\ LockHeld /\ OneProofBehind /\ Inv /\ [Next]_vars => Inv'
  <2>. SUFFICES ASSUME TypeOK, LockHeld, OneProofBehind, Inv, [Next]_vars
                PROVE  (NextInWork /\ AheadIsKnown)'
    BY MempoolStep
  <2>1. ASSUME NEW r \in Requests, Handle(r) PROVE (NextInWork /\ AheadIsKnown)'
    BY <2>1, NextInWorkHandle, AheadHandle
  <2>2. ASSUME NEW r \in Requests, Deliver(r) PROVE (NextInWork /\ AheadIsKnown)'
    BY <2>2, AheadDeliver
  <2>3. CASE OthersCommit \/ UNCHANGED vars
    BY <2>3
    DEF OthersCommit, vars, dbVars, handlerVars, chainVars, clientVars, NextInWork, InTransaction,
        AheadIsKnown, Accepted
  <2>. QED  BY <2>1, <2>2, <2>3 DEF Next, Terminated, DropTx, Fail
<1>3. Inv => NothingForgotten
  BY DEF AheadIsKnown, NothingForgotten, Behind
<1>. QED
  BY <1>1, <1>2, <1>3, TypeCorrect, LockInvariant, NeverFarBehind, PTL DEF Spec

-----------------------------------------------------------------------------
(* Without faults no key is lost.                                          *)

\* The light client has the key of r, and the handler knows.
Installed(r) == Accepted(r) /\ tx[r].msg = "header"

\* The light client has the newest key of the database, or the next one, that
\* of the handler which is about to commit it.
KeysKnown ==
  /\ (\A r \in Requests : ~Installed(r)) => cKey = keys[Len(keys)]
  /\ \A r \in Requests : Installed(r) => cKey = job[r].newKey

\* Only one handler can have had a header accepted: it has the lock.
LEMMA OneInstaller ==
  ASSUME LockHeld, NEW r \in Requests, NEW q \in Requests,
         pc[r] \in {"sent", "answered"}, tx[r].msg # "transfer", Installed(q)
  PROVE  q = r
BY DEF LockHeld, Installed, Accepted

\* Steps that move no key.
LEMMA KeysStay ==
  ASSUME keys' = keys, cKey' = cKey, job' = job, KeysKnown,
         \A q \in Requests : Installed(q)' <=> Installed(q)
  PROVE  KeysKnown'
BY DEF KeysKnown

\* A step of a handler that is not about to commit a key.
LEMMA InstalledStays ==
  ASSUME TypeOK, NEW r \in Requests, ~Installed(r), ~Installed(r)',
         \A q \in Requests \ {r} : pc'[q] = pc[q] /\ tx'[q] = tx[q] /\ resp'[q] = resp[q]
  PROVE  \A q \in Requests : Installed(q)' <=> Installed(q)
BY DEF Installed, Accepted

LEMMA KeysHandle ==
  ASSUME TypeOK, LockHeld, KeysKnown, NEW r \in Requests, Handle(r)
  PROVE  KeysKnown'
<1>. USE DEF chainVars, clientVars
<1>1. CASE UpdateCommit(r)
  <2>1. Installed(r)
    BY <1>1 DEF UpdateCommit, Installed, Accepted
  <2>2. cKey' = cKey /\ cKey = job[r].newKey /\ keys' = Append(keys, job[r].newKey)
    BY <1>1, <2>1 DEF UpdateCommit, KeysKnown
  <2>3. cKey' = keys'[Len(keys')]
    BY <2>2 DEF TypeOK, Jobs
  <2>4. ASSUME NEW q \in Requests PROVE ~Installed(q)'
    <3>1. CASE q = r
      BY <1>1, <3>1 DEF TypeOK, UpdateCommit, Goto, Installed, Accepted
    <3>2. CASE q # r
      <4>1. ~Installed(q)
        BY <1>1, <3>2, OneInstaller DEF UpdateCommit
      <4>. QED
        BY <1>1, <3>2, <4>1 DEF TypeOK, UpdateCommit, Goto, Installed, Accepted
    <3>. QED  BY <3>1, <3>2
  <2>. QED  BY <2>3, <2>4 DEF KeysKnown
<1>2. CASE \/ Receive(r) \/ NotConnected(r) \/ Busy(r) \/ Overflow(r) \/ DuplicateKey(r)
           \/ CloseReread(r) \/ Refused(r) \/ CloseWrite(r) \/ Broadcast(r)
           \/ CheckTxRefuses(r) \/ BurnAccepted(r) \/ RecordOperation(r) \/ Notify(r)
  <2>1. /\ keys' = keys /\ cKey' = cKey /\ job' = job /\ tx' = tx
        /\ \A q \in Requests \ {r} : pc'[q] = pc[q] /\ resp'[q] = resp[q]
        /\ ~Installed(r) /\ ~Installed(r)'
    BY <1>2
    DEF TypeOK, Receive, NotConnected, Busy, Overflow, DuplicateKey, CloseReread, Refused,
        CloseWrite, Broadcast, CheckTxRefuses, BurnAccepted, RecordOperation, Notify,
        Finish, Goto, dbVars, Installed, Accepted
  <2>. QED  BY <2>1, InstalledStays, KeysStay
<1>3. CASE MintPrepare(r) \/ BurnPrepare(r) \/ UpdatePrepare(r) \/ AckPrepare(r) \/ Build(r)
  <2>1. /\ keys' = keys /\ cKey' = cKey /\ job' = job /\ resp' = resp
        /\ \A q \in Requests \ {r} : pc'[q] = pc[q] /\ tx'[q] = tx[q]
        /\ ~Installed(r) /\ ~Installed(r)'
    BY <1>3
    DEF TypeOK, MintPrepare, BurnPrepare, UpdatePrepare, AckPrepare, Build, Prepare, Goto,
        dbVars, Installed, Accepted
  <2>. QED  BY <2>1, InstalledStays, KeysStay
<1>4. CASE MintCommit(r) \/ AckCommit(r)
  <2>1. /\ keys' = keys /\ cKey' = cKey /\ job' = job /\ tx' = tx /\ resp' = resp
        /\ \A q \in Requests \ {r} : pc'[q] = pc[q]
        /\ ~Installed(r) /\ ~Installed(r)'
    BY <1>4 DEF TypeOK, MintCommit, AckCommit, Goto, Installed, Accepted
  <2>. QED  BY <2>1, InstalledStays, KeysStay
<1>. QED  BY <1>1, <1>2, <1>3, <1>4 DEF Handle

LEMMA KeysDeliver ==
  ASSUME TypeOK, LockHeld, MempoolAwaited, KeysKnown, NEW r \in Requests, Deliver(r)
  PROVE  KeysKnown'
<1>1. PICK a \in {"ok", "failack", "noop", "refused"} :
        /\ Include(r, a)
        /\ \/ cKey' = cKey /\ (a = "refused" \/ tx[r].msg # "header")
           \/ cKey' = job[r].newKey /\ a = "ok" /\ tx[r].msg = "header"
  BY DEF Deliver, DeliverRecv, DeliverDuplicate, DeliverTransfer, DeliverAck,
         DeliverHeader, DeliverRefused, clientVars
<1>2. pc[r] = "sent"
  BY <1>1 DEF Include, MempoolAwaited
<1>3. /\ keys' = keys /\ job' = job /\ tx' = tx
      /\ pc'[r] = "answered" /\ resp'[r] = a
      /\ \A q \in Requests \ {r} : pc'[q] = pc[q] /\ resp'[q] = resp[q]
  BY <1>1, <1>2 DEF TypeOK, Include, dbVars
<1>4. CASE a = "refused" \/ tx[r].msg # "header"
  <2>1. ~Installed(r) /\ ~Installed(r)' /\ cKey' = cKey
    BY <1>1, <1>2, <1>3, <1>4 DEF Installed, Accepted
  <2>. QED  BY <1>3, <2>1, InstalledStays, KeysStay
<1>5. CASE a = "ok" /\ tx[r].msg = "header"
  <2>1. Installed(r)' /\ cKey' = job'[r].newKey
    BY <1>1, <1>3, <1>5 DEF Installed, Accepted
  <2>2. ASSUME NEW q \in Requests \ {r} PROVE ~Installed(q)'
    <3>1. ~Installed(q)
      BY <1>2, <1>5, OneInstaller
    <3>. QED  BY <1>3, <3>1 DEF Installed, Accepted
  <2>. QED  BY <2>1, <2>2 DEF KeysKnown
<1>. QED  BY <1>1, <1>4, <1>5

\* Burns, which let the sequences drift apart, cannot do so to the keys.
LEMMA KeysInvariant ==
  ASSUME ~MayFail
  PROVE  Spec => [](MempoolAwaited /\ KeysKnown)
<1>1. Init => MempoolAwaited /\ KeysKnown
  BY DEF Init, MempoolAwaited, KeysKnown, Installed, Accepted
<1>2. TypeOK /\ LockHeld /\ MempoolAwaited /\ KeysKnown /\ [Next]_vars
        => (MempoolAwaited /\ KeysKnown)'
  <2>. SUFFICES ASSUME TypeOK, LockHeld, MempoolAwaited, KeysKnown, [Next]_vars
                PROVE  KeysKnown'
    BY MempoolStep
  <2>1. ASSUME NEW r \in Requests, Handle(r) PROVE KeysKnown'
    BY <2>1, KeysHandle
  <2>2. ASSUME NEW r \in Requests, Deliver(r) PROVE KeysKnown'
    BY <2>2, KeysDeliver
  <2>3. CASE OthersCommit \/ UNCHANGED vars
    BY <2>3, KeysStay
    DEF OthersCommit, vars, dbVars, handlerVars, chainVars, clientVars, Installed, Accepted
  <2>. QED  BY <2>1, <2>2, <2>3 DEF Next, Terminated, DropTx, Fail
<1>. QED  BY <1>1, <1>2, TypeCorrect, LockInvariant, PTL DEF Spec

\* Without faults the newest registered key is the key of the light client
\* whenever no handler is between its increment and its commit, burns or not.
THEOREM KeysAgree ==
  ASSUME ~MayFail
  PROVE  Spec => []KeySync
<1>1. LockHeld /\ KeysKnown => KeySync
  BY NoneAssumption DEF LockHeld, KeysKnown, Installed, Accepted, KeySync, Quiet
<1>. QED
  BY <1>1, LockInvariant, KeysInvariant, PTL
=============================================================================
