-------------------------- MODULE ResponseCapture --------------------------
(***************************************************************************)
(* One upstream response on its way through corpus-tap                     *)
(* (internal/proxy/stream.go).  relayResponse runs io.Copy from the        *)
(* upstream body into io.MultiWriter(client, capture): every chunk is      *)
(* first written to the client and then to the responseCapture, which      *)
(* keeps it in memory and moves to a spool file on disk when the memory    *)
(* limit is passed.                                                        *)
(*                                                                         *)
(* Byte k of the upstream body is the number k, so a captured sequence     *)
(* shows which bytes it holds and in which order.                          *)
(***************************************************************************)
EXTENDS Integers, Sequences

CONSTANTS
    Configs,    \* the settings handleCapture may choose from, see Config
    ChunkSizes, \* sizes of the pieces io.Copy reads (at most 32 KiB each)
    MaxSize     \* bound on the length of an upstream body

(***************************************************************************)
(* maxCap is CORPUS_TAP_MAX_BODY_BYTES or CORPUS_TAP_MAX_STREAM_BYTES and  *)
(* spoolMem CORPUS_TAP_SSE_SPOOL_MEM_BYTES: config.Load replaces each by   *)
(* its default when it is not a positive number.  spoolDir says whether    *)
(* CORPUS_TAP_SSE_SPOOL_DIR is set.                                        *)
(***************************************************************************)
CaptureLimits == Nat \ {0}
Config == [maxCap : CaptureLimits, spoolMem : Nat \ {0}, spoolDir : BOOLEAN]

ASSUME ConfigsAssumption == Configs \subseteq Config
ASSUME ChunkAssumption == ChunkSizes \subseteq Nat \ {0}
ASSUME SizeAssumption == MaxSize \in Nat

VARIABLES
    conf,      \* the settings of this exchange
    size,      \* length of the upstream body
    sent,      \* bytes the client has received
    mem,       \* responseCapture.mem
    open,      \* responseCapture.spoolFile # nil
    disk,      \* content of the spool file, empty when there is none
    truncated, \* responseCapture.truncated
    outcome    \* "relaying", or how relayResponse returned

vars == <<conf, size, sent, mem, open, disk, truncated, outcome>>

(***************************************************************************)
(* How relayResponse returned: "captured" with a captureResult, anything   *)
(* else with an error, after which handleCapture drops the record.         *)
(***************************************************************************)
Failures == {"client_gone", "upstream_error", "spool_error", "short_write"}
Outcomes == {"relaying", "captured"} \cup Failures

\* The bytes a to b of the upstream body, and the first n of them.
Bytes(a, b) == [i \in 1 .. (b - a + 1) |-> a + i - 1]
FirstBytes(n) == Bytes(1, n)

\* The chunk of n bytes that io.Copy reads next.
Chunk(n) == Bytes(sent + 1, sent + n)

\* memCap of handleCapture.  It is positive, so the default that
\* newResponseCapture has for another one is never used.
MemLimit == IF conf.spoolDir THEN conf.spoolMem ELSE conf.maxCap

\* totalWritten, and what Write may still accept.
TotalWritten == Len(mem) + Len(disk)
Remain == conf.maxCap - TotalWritten

Init ==
    /\ conf \in Configs
    /\ size \in 0 .. MaxSize
    /\ sent = 0
    /\ mem = <<>>
    /\ open = FALSE
    /\ disk = <<>>
    /\ truncated = FALSE
    /\ outcome = "relaying"

----------------------------------------------------------------------------
\* Fault: io.Copy does not stop at the end of the body.
ReadChunkPastEnd(n) ==
    /\ outcome = "relaying"
    /\ sent' = sent + n
    /\ sent' <= MaxSize + 1
    /\ UNCHANGED <<conf, size>>

(***************************************************************************)
(* One turn of io.Copy: n bytes are read and written to the client, and    *)
(* then responseCapture.Write sees them.                                   *)
(***************************************************************************)
ReadChunk(n) ==
    /\ outcome = "relaying"
    /\ sent + n <= size
    /\ sent' = sent + n
    /\ UNCHANGED <<conf, size>>

\* Write accepts the whole chunk.
Accepted(n) == ~truncated /\ n <= Remain

\* Fault: the limit is compared before the chunk is counted.
KeepInMemoryLate(n) ==
    /\ ReadChunk(n)
    /\ Accepted(n)
    /\ ~open
    /\ Len(mem) <= MemLimit
    /\ mem' = mem \o Chunk(n)
    /\ UNCHANGED <<open, disk, truncated, outcome>>

\* writeChunk, no spool file yet and the chunk fits under memLimit.
KeepInMemory(n) ==
    /\ ReadChunk(n)
    /\ Accepted(n)
    /\ ~open
    /\ Len(mem) + n <= MemLimit
    /\ mem' = mem \o Chunk(n)
    /\ UNCHANGED <<open, disk, truncated, outcome>>

\* Fault: the spool file starts without what memory holds.
SpillWithoutFlush(n) ==
    /\ ReadChunk(n)
    /\ Accepted(n)
    /\ ~open
    /\ Len(mem) + n > MemLimit
    /\ conf.spoolDir
    /\ open' = TRUE
    /\ disk' = Chunk(n)
    /\ mem' = <<>>
    /\ UNCHANGED <<truncated, outcome>>

\* writeChunk, over memLimit: open the spool, flush mem, write the chunk.
SpillToSpool(n) ==
    /\ ReadChunk(n)
    /\ Accepted(n)
    /\ ~open
    /\ Len(mem) + n > MemLimit
    /\ conf.spoolDir
    /\ open' = TRUE
    /\ disk' = mem \o Chunk(n)
    /\ mem' = <<>>
    /\ UNCHANGED <<truncated, outcome>>

\* writeChunk, the spool file is already open.
AppendToSpool(n) ==
    /\ ReadChunk(n)
    /\ Accepted(n)
    /\ open
    /\ disk' = disk \o Chunk(n)
    /\ UNCHANGED <<mem, open, truncated, outcome>>

----------------------------------------------------------------------------
\* Fault: the spool file is forgotten on the error path.
AbortLeavesSpool(why) ==
    /\ outcome' = why
    /\ UNCHANGED <<open, disk>>

(***************************************************************************)
(* The ways out.  On an error relayResponse removes the spool file and     *)
(* drops the responseCapture, whatever it had accepted of the last chunk.  *)
(***************************************************************************)
Abort(why) ==
    /\ outcome' = why
    /\ disk' = <<>>
    /\ open' = FALSE

\* The spool directory cannot be created or written: writeChunk fails, and
\* with it io.Copy, after the client has received the chunk.
SpoolFails(n) ==
    /\ ReadChunk(n)
    /\ Accepted(n)
    /\ \/ open
       \/ conf.spoolDir /\ Len(mem) + n > MemLimit
    /\ Abort("spool_error")
    /\ UNCHANGED <<mem, truncated>>

\* Fault: the overflow is noted and the relay goes on.
OverflowGoesOn(n) ==
    /\ ReadChunk(n)
    /\ ~truncated
    /\ n > Remain
    /\ truncated' = TRUE
    /\ UNCHANGED <<mem, open, disk, outcome>>

\* Write cuts the chunk to the bytes that remain and returns the shorter
\* length, so io.MultiWriter reports io.ErrShortWrite and io.Copy stops.
Overflow(n) ==
    /\ ReadChunk(n)
    /\ ~truncated
    /\ n > Remain
    /\ truncated' = TRUE
    /\ Abort("short_write")
    /\ UNCHANGED mem

\* Writing to the client, or reading from upstream, fails.
ConnectionFails ==
    /\ outcome = "relaying"
    /\ \E why \in {"client_gone", "upstream_error"} : Abort(why)
    /\ UNCHANGED <<conf, size, sent, mem, truncated>>

\* io.Copy reads io.EOF: finish hands over the memory or the spool path.
Finish ==
    /\ outcome = "relaying"
    /\ sent = size
    /\ outcome' = "captured"
    /\ UNCHANGED <<conf, size, sent, mem, open, disk, truncated>>

Next ==
    \/ \E n \in ChunkSizes :
          \/ KeepInMemory(n)
          \/ SpillToSpool(n)
          \/ AppendToSpool(n)
          \/ SpoolFails(n)
          \/ Overflow(n)
    \/ ConnectionFails
    \/ Finish

Spec == Init /\ [][Next]_vars

----------------------------------------------------------------------------
TypeOK ==
    /\ conf \in Configs
    /\ size \in 0 .. MaxSize
    /\ sent \in 0 .. size
    /\ mem \in Seq(Nat)
    /\ open \in BOOLEAN
    /\ disk \in Seq(Nat)
    /\ truncated \in BOOLEAN
    /\ outcome \in Outcomes

\* What the record will hold: the spool file if there is one, else mem.
Captured == disk \o mem

(***************************************************************************)
(* The capture is exact.  While the response is relayed, memory and spool  *)
(* together hold the bytes the client has received, all of them, in order  *)
(* and once: spilling to disk neither loses, repeats nor reorders a chunk  *)
(* (writeChunk).                                                           *)
(***************************************************************************)
CaptureIsExact == outcome = "relaying" => Captured = FirstBytes(sent)

(***************************************************************************)
(* A record is only ever built from a whole response: when relayResponse   *)
(* returns a captureResult the client has received the full body and the   *)
(* capture is that body, not marked truncated (handleCapture 219-227).     *)
(***************************************************************************)
CapturedIsWhole ==
    outcome = "captured" =>
        /\ Captured = FirstBytes(size)
        /\ sent = size
        /\ ~truncated

(***************************************************************************)
(* Memory stays below the limit handleCapture computes, and memory plus    *)
(* disk below the capture limit, whatever the size of the response.        *)
(***************************************************************************)
MemoryBounded ==
    /\ Len(mem) <= MemLimit
    /\ TotalWritten <= conf.maxCap

(***************************************************************************)
(* A relay that fails leaves no spool file behind, and a capture is in     *)
(* memory or in the spool file, never split over the two                   *)
(* (relayResponse 140-144, finish).                                        *)
(***************************************************************************)
SpoolOwned ==
    /\ open => mem = <<>>
    /\ ~open => disk = <<>>
    /\ outcome \in Failures => ~open

(***************************************************************************)
(* DESIGN.md section 4: what the client receives is the same as without    *)
(* the tap.  If neither the client nor upstream failed, the client has the *)
(* whole body once relayResponse has returned.                             *)
(***************************************************************************)
ClientGetsWholeBody ==
    outcome \notin {"relaying", "client_gone", "upstream_error"} => sent = size
============================================================================
