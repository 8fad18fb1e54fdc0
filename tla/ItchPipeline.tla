---------------------------- MODULE ItchPipeline ----------------------------
(***************************************************************************)
(* pipeline::run_itch_pipeline (pipeline/itch_pipeline.hpp): a producer    *)
(* thread walks a length-prefixed byte stream, decodes each record and     *)
(* pushes it into an SpscRingBuffer; a consumer thread pops and applies to *)
(* the book until it has seen producer_done and an empty ring after it.    *)
(*                                                                         *)
(* The records of a stream have the message that their bytes spell.        *)
(***************************************************************************)
EXTENDS OrderBookOps, SpscRingBuffer, Framing, ItchTypes

CONSTANT Streams    \* the streams the pipeline is run on

VARIABLES
  raw,             \* the stream of this run
  frame,           \* number of the frame that starts at offset
  offset,          \* the producer's offset
  producer,        \* "walk", "push", "finish" or "done"
  producer_done,   \* the atomic flag
  seen_done,       \* the value of the flag the consumer has seen last
  consumer,        \* "pop", "apply", "check" or "done"
  last_try,        \* this pop follows a check that found producer_done set
  book,            \* the book the consumer applies messages to
  processed        \* messages_processed

producerVars == <<raw, frame, offset, producer, producer_done>>
consumerVars == <<seen_done, consumer, last_try, book, processed>>
vars == <<ringVars, producerVars, consumerVars>>

-----------------------------------------------------------------------------
(* decode() answers a message and not nullopt. *)
decodes(f) == accepts(f.msg.type, f.len)

(* The fields that apply() reads have the values of their types. *)
IsMessage(msg) ==
  /\ msg.type \in MessageTypes
  /\ msg.type \notin NoOpTypes => msg.ref \in Refs
  /\ msg.type = "OrderReplace" => msg.new_ref \in Refs
  /\ msg.type \in AddTypes \cup {"OrderReplace"} => msg.price \in Prices
  /\ msg.type \notin NoOpTypes \cup {"OrderDelete"} =>
       msg.shares \in 0 .. ShareSpan - 1

ASSUME StreamAssumption ==
  /\ \A msg \in Items : IsMessage(msg)
  /\ \A s \in Streams :
       /\ IsFramed(s)
       /\ \A i \in 1 .. Len(s.frames) :
            decodes(s.frames[i]) => s.frames[i].msg \in Items

-----------------------------------------------------------------------------
Init ==
  /\ RingInit
  /\ raw \in Streams
  /\ frame = 1 /\ offset = 0
  /\ producer = "walk" /\ producer_done = FALSE
  /\ seen_done = FALSE
  /\ consumer = "pop" /\ last_try = FALSE
  /\ book = EmptyBook /\ processed = 0

(* The end of the frame that starts at offset. *)
FrameEnd == offset + 2 + raw.frames[frame].len

(* Mutant: the announced length is trusted. *)
Complete_prefix_only == offset + 2 <= raw.size

(* There is a length prefix, and all the bytes it announces. *)
Complete == offset + 2 <= raw.size /\ FrameEnd <= raw.size

(* One iteration of the producer's loop up to the push: the end of the     *)
(* stream or a truncated record ends the loop, a record that decode()      *)
(* refuses is skipped.                                                     *)
Walk ==
  /\ producer = "walk"
  /\ \/ /\ ~Complete
        /\ producer' = "finish" /\ UNCHANGED <<frame, offset>>
     \/ /\ Complete /\ ~decodes(raw.frames[frame])
        /\ offset' = FrameEnd /\ frame' = frame + 1 /\ UNCHANGED producer
     \/ /\ Complete /\ decodes(raw.frames[frame])
        /\ producer' = "push" /\ UNCHANGED <<frame, offset>>
  /\ UNCHANGED <<raw, producer_done, ringVars, consumerVars>>

(* Mutant: a push that fails is not tried again. *)
TryPush_once(r) ==
  /\ producer = "push"
  /\ PushLoad(raw.frames[frame].msg, r)
  /\ IF Full(write_index, r)
     THEN offset' = FrameEnd /\ frame' = frame + 1 /\ producer' = "walk"
     ELSE UNCHANGED <<frame, offset, producer>>
  /\ UNCHANGED <<raw, producer_done, consumerVars>>

(* The loop around push(): a full ring is tried again. *)
TryPush(r) ==
  /\ producer = "push"
  /\ PushLoad(raw.frames[frame].msg, r)
  /\ UNCHANGED <<producerVars, consumerVars>>

FillSlot == PushWrite /\ UNCHANGED <<producerVars, consumerVars>>

CompletePush ==
  /\ PushStore
  /\ offset' = FrameEnd /\ frame' = frame + 1
  /\ producer' = "walk"
  /\ UNCHANGED <<raw, producer_done, consumerVars>>

StoreDone ==
  /\ producer = "finish"
  /\ producer_done' = TRUE
  /\ producer' = "done"
  /\ UNCHANGED <<raw, frame, offset, ringVars, consumerVars>>

Producer ==
  \/ Walk
  \/ \E r \in Visible(seen_read, read_index) : TryPush(r)
  \/ FillSlot
  \/ CompletePush
  \/ StoreDone

-----------------------------------------------------------------------------
(* Mutant: the last failed pop does not end the loop. *)
TryPop_no_break(w) ==
  /\ consumer = "pop"
  /\ PopLoad(w)
  /\ consumer' = IF w # read_index THEN "pop" ELSE "check"
  /\ UNCHANGED <<seen_done, last_try, book, processed, producerVars>>

(* pop() finds the ring empty: the first try goes on to look at            *)
(* producer_done, the try after that ends the thread.                      *)
TryPop(w) ==
  /\ consumer = "pop"
  /\ PopLoad(w)
  /\ consumer' = IF w # read_index THEN "pop"
                 ELSE IF last_try THEN "done" ELSE "check"
  /\ UNCHANGED <<seen_done, last_try, book, processed, producerVars>>

CopySlot == PopRead /\ UNCHANGED <<producerVars, consumerVars>>

CompletePop ==
  /\ PopStore
  /\ consumer' = "apply"
  /\ UNCHANGED <<seen_done, last_try, book, processed, producerVars>>

ApplyMessage ==
  /\ consumer = "apply"
  /\ book' = apply(book, taken)
  /\ processed' = processed + 1
  /\ consumer' = "pop" /\ last_try' = FALSE
  /\ UNCHANGED <<seen_done, ringVars, producerVars>>

(* Mutant: the consumer stops as soon as the producer has. *)
CheckDone_no_retry(done) ==
  /\ consumer = "check"
  /\ seen_done' = done
  /\ consumer' = IF done THEN "done" ELSE "pop"
  /\ UNCHANGED <<last_try, book, processed, ringVars, producerVars>>

(* The load of producer_done returns done.  Reading TRUE synchronises with *)
(* the producer's store: every index it had stored is seen from now on.    *)
CheckDone(done) ==
  /\ consumer = "check"
  /\ seen_done' = done
  /\ seen_write' = IF done THEN write_index ELSE seen_write
  /\ consumer' = "pop" /\ last_try' = done
  /\ UNCHANGED <<book, processed, producerVars,
                 buffer, pushVars, pop_pc, out, read_index, taken>>

Consumer ==
  \/ \E w \in Visible(seen_write, write_index) : TryPop(w)
  \/ CopySlot
  \/ CompletePop
  \/ ApplyMessage
  \/ \E done \in {seen_done, producer_done} : CheckDone(done)

(* Both threads have ended and run_itch_pipeline returns processed. *)
BothJoined == producer = "done" /\ consumer = "done"

Return == BothJoined /\ UNCHANGED vars

Next == Producer \/ Consumer \/ Return

(***************************************************************************)
(* Both threads keep running, and a store becomes visible after finitely   *)
(* many loads of the same variable.                                        *)
(***************************************************************************)
Fairness ==
  /\ WF_vars(Producer) /\ WF_vars(Consumer)
  /\ SF_vars(TryPush(read_index))
  /\ SF_vars(TryPop(write_index))
  /\ SF_vars(CheckDone(producer_done))

Spec == Init /\ [][Next]_vars /\ Fairness

-----------------------------------------------------------------------------
(* The messages of a stream's first k records, found without an offset. *)
Messages(s) ==
  LET upTo[k \in 0 .. Len(s.frames)] ==
        IF k = 0 THEN <<>>
        ELSE IF BytesUpTo(s, k) <= s.size /\ decodes(s.frames[k])
             THEN Append(upTo[k - 1], s.frames[k].msg)
             ELSE upTo[k - 1]
  IN  upTo

StreamMessages(s) == Messages(s)[Len(s.frames)]

(* The book one thread would have built from the first n messages. *)
Books(s) ==
  LET messages == StreamMessages(s)
      after[n \in 0 .. Len(messages)] ==
        IF n = 0 THEN EmptyBook ELSE apply(after[n - 1], messages[n])
  IN  after

(* The threads' variables and the ring have the values the code can give   *)
(* them, and the producer never steps over the end of the stream.          *)
TypeOK ==
  /\ raw \in Streams
  /\ frame \in 1 .. Len(raw.frames) + 1
  /\ offset = BytesUpTo(raw, frame - 1) /\ offset <= raw.size
  /\ producer \in {"walk", "push", "finish", "done"}
  /\ consumer \in {"pop", "apply", "check", "done"}
  /\ {producer_done, seen_done, last_try} \subseteq BOOLEAN
  /\ seen_done => producer_done
  /\ producer_done <=> producer = "done"
  /\ book \in Book
  /\ RingTypeOK

(* At every moment the book is what a single thread would have built from  *)
(* the messages processed so far: none lost, repeated, torn or reordered.  *)
BookIsSequential ==
  /\ processed <= Len(StreamMessages(raw))
  /\ book = Books(raw)[processed]

(* run_itch_pipeline returns only when every complete, decodable record    *)
(* has been applied, also when the producer finishes between the           *)
(* consumer's failed pop and its look at producer_done.                    *)
AllProcessed == BothJoined => processed = Len(StreamMessages(raw))

(* run_itch_pipeline returns: a full ring is drained, and the consumer     *)
(* learns that the producer is done.                                       *)
Terminates == <>BothJoined
=============================================================================
