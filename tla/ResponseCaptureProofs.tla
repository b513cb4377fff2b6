----------------------- MODULE ResponseCaptureProofs -----------------------
(***************************************************************************)
(* ResponseCapture proved for every set of settings, every set of chunk    *)
(* sizes and every body length: the capture is exact, what is handed over  *)
(* is whole, memory is bounded and the spool file is owned.                *)
(***************************************************************************)
EXTENDS ResponseCapture, SequenceTheorems, TLAPS

(***************************************************************************)
(* The inductive invariant.  Under "relaying" the bytes are all in memory  *)
(* or all in the spool file, and truncated is still FALSE: Write sets it   *)
(* only in the call whose short count ends the relay.                      *)
(***************************************************************************)
Relaying ==
    outcome = "relaying" =>
        /\ ~truncated
        /\ ~open => mem = FirstBytes(sent) /\ disk = <<>>
        /\ open => disk = FirstBytes(sent) /\ mem = <<>>
        /\ sent <= conf.maxCap

Handed ==
    outcome = "captured" =>
        /\ ~truncated
        /\ sent = size
        /\ ~open => mem = FirstBytes(sent) /\ disk = <<>>
        /\ open => disk = FirstBytes(sent) /\ mem = <<>>

Inv == TypeOK /\ Relaying /\ Handed /\ MemoryBounded /\ SpoolOwned

\* FirstBytes(n) is a sequence of n naturals.
LEMMA FirstBytesSeq ==
    ASSUME NEW n \in Nat
    PROVE  FirstBytes(n) \in Seq(Nat) /\ Len(FirstBytes(n)) = n
  BY DEF FirstBytes, Bytes

\* Appending the next chunk to the bytes received so far gives the bytes
\* received afterwards.
LEMMA AppendChunk ==
    ASSUME NEW a \in Nat, NEW n \in Nat
    PROVE  /\ Bytes(a + 1, a + n) \in Seq(Nat)
           /\ Len(Bytes(a + 1, a + n)) = n
           /\ FirstBytes(a) \o Bytes(a + 1, a + n) = FirstBytes(a + n)
<1> DEFINE s == FirstBytes(a)
           t == Bytes(a + 1, a + n)
           u == FirstBytes(a + n)
<1>1. t \in Seq(Nat) /\ Len(t) = n
  BY DEF Bytes
<1>2. s \in Seq(Nat) /\ Len(s) = a /\ u \in Seq(Nat) /\ Len(u) = a + n
  BY FirstBytesSeq
<1>3. s \o t \in Seq(Nat) /\ Len(s \o t) = a + n
  BY <1>1, <1>2
<1>4. \A i \in 1 .. (a + n) : (s \o t)[i] = u[i]
  BY <1>1, <1>2 DEF FirstBytes, Bytes
<1>5. s \o t = u
  BY <1>2, <1>3, <1>4, SeqEqual
<1> QED BY <1>1, <1>5

\* memLimit is positive whatever the settings are.
LEMMA MemLimitType ==
    ASSUME conf \in Configs
    PROVE  MemLimit \in Nat \ {0} /\ conf.maxCap \in Nat \ {0} /\ conf.spoolDir \in BOOLEAN
  BY ConfigsAssumption DEF MemLimit, Config, CaptureLimits

LEMMA InitInv == Init => Inv
<1> SUFFICES ASSUME Init PROVE Inv
  OBVIOUS
<1>1. FirstBytes(0) = <<>>
  BY FirstBytesSeq, EmptySeq
<1>2. TypeOK
  <2>1. mem \in Seq(Nat) /\ disk \in Seq(Nat)
    BY EmptySeq DEF Init
  <2>2. size \in 0 .. MaxSize /\ sent \in 0 .. size
    BY SizeAssumption DEF Init
  <2> QED
    BY <2>1, <2>2 DEF Init, TypeOK, Outcomes
<1>3. MemLimit \in Nat \ {0} /\ conf.maxCap \in Nat \ {0}
  BY <1>2, MemLimitType DEF TypeOK
<1> QED
  BY <1>1, <1>2, <1>3
     DEF Init, Inv, Relaying, Handed, MemoryBounded, SpoolOwned, TotalWritten, Failures

(***************************************************************************)
(* One lemma per way a chunk is kept, one for all the ways out.            *)
(***************************************************************************)
LEMMA KeepInMemoryInv ==
    ASSUME Inv, NEW n \in ChunkSizes, KeepInMemory(n)
    PROVE  Inv'
<1>1. n \in Nat \ {0} /\ sent \in Nat /\ size \in Nat
  BY ChunkAssumption, SizeAssumption DEF Inv, TypeOK
<1>2. MemLimit \in Nat \ {0} /\ conf.maxCap \in Nat \ {0}
  BY MemLimitType DEF Inv, TypeOK
<1>3. mem = FirstBytes(sent) /\ disk = <<>> /\ ~truncated /\ Len(mem) = sent
  BY <1>1, FirstBytesSeq DEF Inv, Relaying, KeepInMemory, ReadChunk
<1>4. mem' = FirstBytes(sent') /\ mem' \in Seq(Nat) /\ Len(mem') = sent + n
  <2>1. sent' = sent + n /\ sent + n \in Nat
    BY <1>1 DEF KeepInMemory, ReadChunk
  <2>2. mem' = FirstBytes(sent) \o Bytes(sent + 1, sent + n)
    BY <1>3 DEF KeepInMemory, Chunk
  <2>3. mem' = FirstBytes(sent + n)
    BY <1>1, <2>2, AppendChunk
  <2> QED
    BY <2>1, <2>3, FirstBytesSeq
<1>5. sent + n <= conf.maxCap /\ sent + n <= MemLimit
  BY <1>1, <1>2, <1>3, EmptySeq
     DEF KeepInMemory, Accepted, Remain, TotalWritten
<1>6. TypeOK'
  BY <1>1, <1>4 DEF Inv, TypeOK, KeepInMemory, ReadChunk
<1>7. MemLimit' = MemLimit
  BY DEF MemLimit, KeepInMemory, ReadChunk
<1> QED
  BY <1>1, <1>2, <1>3, <1>4, <1>5, <1>6, <1>7, EmptySeq
     DEF Inv, Relaying, Handed, MemoryBounded, SpoolOwned, TotalWritten,
         KeepInMemory, ReadChunk, Failures

LEMMA SpillToSpoolInv ==
    ASSUME Inv, NEW n \in ChunkSizes, SpillToSpool(n)
    PROVE  Inv'
<1>1. n \in Nat \ {0} /\ sent \in Nat /\ size \in Nat
  BY ChunkAssumption, SizeAssumption DEF Inv, TypeOK
<1>2. MemLimit \in Nat \ {0} /\ conf.maxCap \in Nat \ {0}
  BY MemLimitType DEF Inv, TypeOK
<1>3. mem = FirstBytes(sent) /\ disk = <<>> /\ ~truncated /\ Len(mem) = sent
  BY <1>1, FirstBytesSeq DEF Inv, Relaying, SpillToSpool, ReadChunk
<1>4. disk' = FirstBytes(sent') /\ disk' \in Seq(Nat) /\ Len(disk') = sent + n
  <2>1. sent' = sent + n /\ sent + n \in Nat
    BY <1>1 DEF SpillToSpool, ReadChunk
  <2>2. disk' = FirstBytes(sent) \o Bytes(sent + 1, sent + n)
    BY <1>3 DEF SpillToSpool, Chunk
  <2>3. disk' = FirstBytes(sent + n)
    BY <1>1, <2>2, AppendChunk
  <2> QED
    BY <2>1, <2>3, FirstBytesSeq
<1>5. sent + n <= conf.maxCap
  BY <1>1, <1>2, <1>3, EmptySeq
     DEF SpillToSpool, Accepted, Remain, TotalWritten
<1>6. TypeOK'
  BY <1>1, <1>4, EmptySeq DEF Inv, TypeOK, SpillToSpool, ReadChunk
<1>7. MemLimit' = MemLimit
  BY DEF MemLimit, SpillToSpool, ReadChunk
<1> QED
  BY <1>1, <1>2, <1>3, <1>4, <1>5, <1>6, <1>7, EmptySeq
     DEF Inv, Relaying, Handed, MemoryBounded, SpoolOwned, TotalWritten,
         SpillToSpool, ReadChunk, Failures

LEMMA AppendToSpoolInv ==
    ASSUME Inv, NEW n \in ChunkSizes, AppendToSpool(n)
    PROVE  Inv'
<1>1. n \in Nat \ {0} /\ sent \in Nat /\ size \in Nat
  BY ChunkAssumption, SizeAssumption DEF Inv, TypeOK
<1>2. MemLimit \in Nat \ {0} /\ conf.maxCap \in Nat \ {0}
  BY MemLimitType DEF Inv, TypeOK
<1>3. disk = FirstBytes(sent) /\ mem = <<>> /\ ~truncated /\ Len(disk) = sent
  BY <1>1, FirstBytesSeq DEF Inv, Relaying, AppendToSpool, ReadChunk
<1>4. disk' = FirstBytes(sent') /\ disk' \in Seq(Nat) /\ Len(disk') = sent + n
  <2>1. sent' = sent + n /\ sent + n \in Nat
    BY <1>1 DEF AppendToSpool, ReadChunk
  <2>2. disk' = FirstBytes(sent) \o Bytes(sent + 1, sent + n)
    BY <1>3 DEF AppendToSpool, Chunk
  <2>3. disk' = FirstBytes(sent + n)
    BY <1>1, <2>2, AppendChunk
  <2> QED
    BY <2>1, <2>3, FirstBytesSeq
<1>5. sent + n <= conf.maxCap
  BY <1>1, <1>2, <1>3, EmptySeq
     DEF AppendToSpool, Accepted, Remain, TotalWritten
<1>6. TypeOK'
  BY <1>1, <1>4 DEF Inv, TypeOK, AppendToSpool, ReadChunk
<1>7. MemLimit' = MemLimit
  BY DEF MemLimit, AppendToSpool, ReadChunk
<1> QED
  BY <1>1, <1>2, <1>3, <1>4, <1>5, <1>6, <1>7, EmptySeq
     DEF Inv, Relaying, Handed, MemoryBounded, SpoolOwned, TotalWritten,
         AppendToSpool, ReadChunk, Failures

\* Every error return leaves memory as it was and no spool file.
LEMMA AbortInv ==
    ASSUME Inv, NEW why \in Failures, Abort(why), outcome = "relaying",
           UNCHANGED <<conf, size, mem>>,
           truncated' \in BOOLEAN, sent' \in 0 .. size
    PROVE  Inv'
<1>1. MemLimit' = MemLimit /\ MemLimit \in Nat \ {0} /\ conf.maxCap \in Nat \ {0}
  BY MemLimitType DEF Inv, TypeOK, MemLimit
<1>2. Len(mem) \in Nat /\ Len(disk) \in Nat /\ Len(mem) + Len(disk) <= conf.maxCap
  BY LenProperties DEF Inv, TypeOK, MemoryBounded, TotalWritten
<1>3. TypeOK'
  BY EmptySeq DEF Inv, TypeOK, Abort, Outcomes
<1>4. outcome' # "relaying" /\ outcome' # "captured" /\ ~open' /\ disk' = <<>>
  BY DEF Abort, Failures
<1>5. MemoryBounded'
  BY <1>1, <1>2, <1>4, EmptySeq DEF Inv, MemoryBounded, TotalWritten
<1> QED
  BY <1>3, <1>4, <1>5 DEF Inv, Relaying, Handed, SpoolOwned

LEMMA NextInv == Inv /\ [Next]_vars => Inv'
<1> SUFFICES ASSUME Inv, [Next]_vars PROVE Inv'
  OBVIOUS
<1>1. ASSUME NEW n \in ChunkSizes, KeepInMemory(n) PROVE Inv'
  BY <1>1, KeepInMemoryInv
<1>2. ASSUME NEW n \in ChunkSizes, SpillToSpool(n) PROVE Inv'
  BY <1>2, SpillToSpoolInv
<1>3. ASSUME NEW n \in ChunkSizes, AppendToSpool(n) PROVE Inv'
  BY <1>3, AppendToSpoolInv
<1>4. ASSUME NEW n \in ChunkSizes, ReadChunk(n) PROVE sent' \in 0 .. size
  BY <1>4, ChunkAssumption, SizeAssumption DEF ReadChunk, Inv, TypeOK
<1>5. ASSUME NEW n \in ChunkSizes, SpoolFails(n) PROVE Inv'
  <2>1. sent' \in 0 .. size
    BY <1>4, <1>5 DEF SpoolFails
  <2> QED
    BY <1>5, <2>1, AbortInv DEF SpoolFails, ReadChunk, Failures, Inv, TypeOK
<1>6. ASSUME NEW n \in ChunkSizes, Overflow(n) PROVE Inv'
  <2>1. sent' \in 0 .. size
    BY <1>4, <1>6 DEF Overflow
  <2> QED
    BY <1>6, <2>1, AbortInv DEF Overflow, ReadChunk, Failures
<1>7. ASSUME ConnectionFails PROVE Inv'
  BY <1>7, AbortInv DEF ConnectionFails, Failures, Inv, TypeOK
<1>8. ASSUME Finish PROVE Inv'
  BY <1>8
     DEF Finish, Inv, TypeOK, Outcomes, Relaying, Handed, MemoryBounded,
         SpoolOwned, TotalWritten, MemLimit, Failures
<1>9. ASSUME UNCHANGED vars PROVE Inv'
  BY <1>9
     DEF vars, Inv, TypeOK, Relaying, Handed, MemoryBounded, SpoolOwned,
         TotalWritten, MemLimit
<1> QED
  BY <1>1, <1>2, <1>3, <1>5, <1>6, <1>7, <1>8, <1>9 DEF Next

THEOREM Invariance == Spec => []Inv
  BY InitInv, NextInv, PTL DEF Spec

\* The type invariant of the relay (stream.go 16-23, 131-145).
THEOREM TypeCorrect == Spec => []TypeOK
<1>1. Inv => TypeOK
  BY DEF Inv
<1> QED BY <1>1, Invariance, PTL

\* While the response is relayed, memory and spool file together hold
\* exactly the bytes the client has received, in order (writeChunk).
THEOREM CaptureExact == Spec => []CaptureIsExact
<1>1. Inv => CaptureIsExact
  BY FirstBytesSeq, ConcatEmptySeq, SizeAssumption
     DEF Inv, TypeOK, Relaying, CaptureIsExact, Captured
<1> QED BY <1>1, Invariance, PTL

\* A captureResult is the whole response and is never marked truncated.
THEOREM CaptureWhole == Spec => []CapturedIsWhole
<1>1. Inv => CapturedIsWhole
  BY FirstBytesSeq, ConcatEmptySeq, SizeAssumption
     DEF Inv, TypeOK, Handed, CapturedIsWhole, Captured
<1> QED BY <1>1, Invariance, PTL

\* Memory never passes the limit handleCapture computes, memory and spool
\* together never the capture limit.
THEOREM BoundedMemory == Spec => []MemoryBounded
<1>1. Inv => MemoryBounded
  BY DEF Inv
<1> QED BY <1>1, Invariance, PTL

\* A failed relay has no spool file; a capture is in one place.
THEOREM SpoolOwnership == Spec => []SpoolOwned
<1>1. Inv => SpoolOwned
  BY DEF Inv
<1> QED BY <1>1, Invariance, PTL
============================================================================
