---------------------------- MODULE CommandOutput ----------------------------
(***************************************************************************)
(* The output of one command, from the pipes of its process to the screen: *)
(* the capture (capwriter.go), the live chunks (stream.go, and the sink of *)
(* the dispatcher, which numbers them across both streams), and the run    *)
(* that event-stream.tsx makes of the events. Output is counted in units,  *)
(* a unit is its position in its stream. The goroutines are the copier of  *)
(* each stream, the ticker and Run. Between the sink and the reducer an    *)
(* event may be lost, repeated or overtaken: it stays in "sent", to be     *)
(* delivered any number of times. handleResult keeps no other order.       *)
(***************************************************************************)
EXTENDS Naturals, Sequences, FiniteSets

CONSTANTS
  Streams,    \* stdout, stderr
  LastUnit,   \* per stream: bound on its units
  ChunkUnits, \* streamChunkBytes
  MaxOutput   \* max_output_bytes

ASSUME CommandOutputAssumption ==
  /\ LastUnit \in [Streams -> Nat] /\ ChunkUnits \in Nat \ {0}
  /\ MaxOutput \in Nat \ {0, 1}

VARIABLES
  total,     \* units written to each stream
  tail,      \* capWriter, per stream: the ring, and where it is written next
  tailPos,
  bufFrom,   \* chunkEmitter, per stream: the first unit that is in the buffer
  emitterClosed,
  hand,      \* per goroutine: the chunk it has taken and not handed over yet
  runStep,   \* what Run does
  nextSeq,
  sent,      \* chunks published
  run        \* the entry of the reducer's state.runs

outputVars ==
  <<total, tail, tailPos, bufFrom, emitterClosed, hand, runStep, nextSeq, sent, run>>
captureVars == <<total, tail, tailPos>>

Half == MaxOutput \div 2
Goroutines == Streams \cup {"ticker", "Run"}
Units == UNION {1..LastUnit[s] : s \in Streams}
Chunk == [stream : Streams, from : Units, to : Units]
Empty == <<>>
Line == [seq : Nat, stream : Streams, units : SUBSET Units]
NoRun == [known |-> FALSE, finished |-> FALSE, lines |-> {}]

OutputTypeOK ==
  /\ \A s \in Streams : total[s] \in 0..LastUnit[s] /\ bufFrom[s] \in 1..LastUnit[s] + 1
  /\ \A s \in Streams : tail[s] \in Seq(Units) /\ Len(tail[s]) <= Half
  /\ tailPos \in [Streams -> 0..Half]
  /\ emitterClosed \subseteq Streams
  /\ hand \in [Goroutines -> Chunk \cup {Empty}]
  /\ runStep \in {"running", "closing", "finished"}
  /\ nextSeq \in Nat
  /\ \A c \in sent : c.seq < nextSeq /\ c.chunk \in Chunk
  /\ run.known \in BOOLEAN /\ run.finished \in BOOLEAN /\ run.lines \subseteq Line

OutputInit ==
  /\ total = [s \in Streams |-> 0]
  /\ tail = [s \in Streams |-> <<>>] /\ tailPos = [s \in Streams |-> 0]
  /\ bufFrom = [s \in Streams |-> 1] /\ emitterClosed = {}
  /\ hand = [g \in Goroutines |-> Empty]
  /\ runStep = "running" /\ nextSeq = 0 /\ sent = {}
  /\ run = NoRun

-----------------------------------------------------------------------------
(* The capture.                                                            *)

\* Past the head, a unit goes into the ring.
Capture(s, unit) ==
  IF unit <= Half THEN UNCHANGED <<tail, tailPos>>
  ELSE IF Len(tail[s]) < Half
       THEN tail' = [tail EXCEPT ![s] = Append(@, unit)] /\ UNCHANGED tailPos
       ELSE /\ tail' = [tail EXCEPT ![s][tailPos[s] + 1] = unit]
            /\ tailPos' = [tailPos EXCEPT ![s] = (@ + 1) % Half]

HeadLength(s) == IF total[s] < Half THEN total[s] ELSE Half
Dropped(s) == total[s] - HeadLength(s) - Len(tail[s])
\* Mutated: the ring is read from its first place.
TailFromZero(s) == tail[s]

OrderedTail(s) ==
  IF Len(tail[s]) < Half THEN tail[s]
  ELSE SubSeq(tail[s], tailPos[s] + 1, Len(tail[s])) \o SubSeq(tail[s], 1, tailPos[s])

Captured(s) == 1..HeadLength(s) \cup {tail[s][i] : i \in 1..Len(tail[s])}

-----------------------------------------------------------------------------
(* The emitters.                                                           *)

Buffered(s) == total[s] + 1 - bufFrom[s]

\* Flush takes the buffer under the lock, and calls the sink after it.
TakeBuffer(g, s) ==
  /\ hand[g] = Empty /\ Buffered(s) > 0 /\ s \notin emitterClosed
  /\ hand' = [hand EXCEPT ![g] = [stream |-> s, from |-> bufFrom[s], to |-> total[s]]]
  /\ bufFrom' = [bufFrom EXCEPT ![s] = total[s] + 1]
  /\ UNCHANGED <<captureVars, emitterClosed, runStep, nextSeq, sent, run>>

\* The sink numbers the chunk and publishes it.
HandOver(g) ==
  /\ hand[g] # Empty
  /\ sent' = sent \cup {[seq |-> nextSeq, chunk |-> hand[g]]}
  /\ nextSeq' = nextSeq + 1
  /\ hand' = [hand EXCEPT ![g] = Empty]
  /\ UNCHANGED <<captureVars, bufFrom, emitterClosed, runStep, run>>

\* A write goes to the capture and to the emitter; a full buffer is flushed
\* before the copier writes again.
WriteUnit(s) ==
  /\ runStep = "running" /\ hand[s] = Empty
  /\ total[s] < LastUnit[s] /\ Buffered(s) < ChunkUnits
  /\ total' = [total EXCEPT ![s] = @ + 1]
  /\ Capture(s, total[s] + 1)
  /\ UNCHANGED <<bufFrom, emitterClosed, hand, runStep, nextSeq, sent, run>>

FlushFull(s) == Buffered(s) >= ChunkUnits /\ TakeBuffer(s, s)

\* Wait returns when the copiers are through.
ProcessEnds ==
  /\ runStep = "running"
  /\ \A s \in Streams : hand[s] = Empty /\ Buffered(s) < ChunkUnits
  /\ runStep' = "closing"
  /\ UNCHANGED <<captureVars, bufFrom, emitterClosed, hand, nextSeq, sent, run>>

FlushAtClose(s) == runStep = "closing" /\ TakeBuffer("Run", s)

\* Mutated: Close does not flush.
CloseUnflushed(s) ==
  /\ runStep = "closing" /\ s \notin emitterClosed
  /\ hand["Run"] = Empty
  /\ emitterClosed' = emitterClosed \cup {s}
  /\ UNCHANGED <<captureVars, bufFrom, hand, runStep, nextSeq, sent, run>>

CloseEmitter(s) ==
  /\ runStep = "closing" /\ s \notin emitterClosed
  /\ hand["Run"] = Empty /\ Buffered(s) = 0
  /\ emitterClosed' = emitterClosed \cup {s}
  /\ UNCHANGED <<captureVars, bufFrom, hand, runStep, nextSeq, sent, run>>

\* The result, with what was captured, can be published.
FinishRun ==
  /\ runStep = "closing" /\ emitterClosed = Streams
  /\ runStep' = "finished"
  /\ UNCHANGED <<captureVars, bufFrom, emitterClosed, hand, nextSeq, sent, run>>

-----------------------------------------------------------------------------
(* The reducer.                                                            *)

View(new) ==
  /\ run' = new
  /\ UNCHANGED <<captureVars, bufFrom, emitterClosed, hand, runStep, nextSeq, sent>>

OnAccepted ==
  /\ ~run.finished
  /\ View([known |-> TRUE, finished |-> FALSE, lines |-> run.lines])

AsLine(c) ==
  [seq |-> c.seq, stream |-> c.chunk.stream, units |-> c.chunk.from..c.chunk.to]

OnChunk(c) ==
  /\ \A l \in run.lines : l.seq # c.seq
  /\ View([run EXCEPT !.known = TRUE, !.lines = @ \cup {AsLine(c)}])

\* Without lines the output of the result is shown instead, stdout as 0.
Position(s) == IF s = "stdout" THEN 0 ELSE 1
Fallback ==
  {[seq |-> Position(s), stream |-> s, units |-> Captured(s)] :
     s \in {s \in Streams : Captured(s) # {}}}

OnResult ==
  /\ runStep = "finished"
  /\ View([known |-> TRUE, finished |-> TRUE,
           lines |-> IF run.lines = {} THEN Fallback ELSE run.lines])

OutputNext ==
  \/ \E s \in Streams :
       WriteUnit(s) \/ FlushFull(s) \/ TakeBuffer("ticker", s)
       \/ FlushAtClose(s) \/ CloseEmitter(s)
  \/ \E g \in Goroutines : HandOver(g)
  \/ ProcessEnds \/ FinishRun \/ OnAccepted \/ OnResult
  \/ \E c \in sent : OnChunk(c)

OutputSpec == OutputInit /\ [][OutputNext]_outputVars

-----------------------------------------------------------------------------
(* Properties.                                                             *)

Chunks == {c.chunk : c \in sent} \cup ({hand[g] : g \in Goroutines} \ {Empty})

\* Everything that was written is in exactly one chunk, published, in the hands
\* of one goroutine or in the buffer, and nothing stays in the buffer when Run
\* is through: flushes of the copier, the ticker and Close lose or repeat
\* nothing (exec.go: "so no tail is lost"). Nor is a unit shown twice, unless the
\* result came before all chunks and its output was shown instead of them.
EveryUnitOnce ==
  \A s \in Streams :
    /\ \A u \in 1..total[s] :
         Cardinality({c \in Chunks : c.stream = s /\ u \in c.from..c.to})
           = (IF u < bufFrom[s] THEN 1 ELSE 0)
    /\ runStep = "finished" => Buffered(s) = 0
    /\ \A k, l \in run.lines : k # l /\ k.stream = s /\ l.stream = s
         => k.units \cap l.units = {} \/ {k, l} \cap Fallback # {}

\* The capture is the first half and the last half of what was written, in
\* chronological order, and what it has dropped in between is what it says it
\* has (capWriter; a MaxOutput of 1 makes the ring empty, and Write panics).
CaptureIsHeadAndTail ==
  \A s \in Streams :
    OrderedTail(s) = [i \in 1..Len(tail[s]) |-> HeadLength(s) + Dropped(s) + i]
=============================================================================
