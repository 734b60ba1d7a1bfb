----------------------------- MODULE EventSpool -----------------------------
(***************************************************************************)
(* The V1 event spool (v1/spool.cpp) under Runtime (runtime/runtime.cpp):   *)
(* the capture thread checkpoints a growing window into its directory and   *)
(* completes it, the delivery thread offers the messages to the backend and *)
(* retires them.  Both hold Runtime's mutex during a call, but not while a  *)
(* message is on its way.                                                   *)
(*                                                                         *)
(* A call reads the directory, decides, and then makes durable steps; `todo' *)
(* holds the steps still to make.  atomic_write is one step: a crash before  *)
(* its directory sync leaves the old file or the new one.  A crash drops    *)
(* `todo'; a failing system call drops it and throws to the caller.         *)
(* Temporary files are never read and are left out.                         *)
(***************************************************************************)
EXTENDS WindowMessages, SequencesExt

CONSTANTS
    Events,         \* event ids; naturals, in the order inventory() sorts them
    Contracts,      \* VDP contract metadata a message carries
    MaxPre, MaxTotal,       \* samples in a window
    MaxWindows,     \* directories in the spool (8)
    MaxBytes,       \* encoded bytes in the spool
    MaxMishaps,     \* bound on stops, crashes, failures and refusals
    Mishaps         \* those that can happen: "stop", "crash", "fault", "refusal"

ASSUME SpoolAssumption ==
    /\ Events \subseteq Nat /\ Contracts # {}
    /\ {MaxPre, MaxTotal, MaxWindows, MaxBytes, MaxMishaps} \subseteq Nat
    /\ Mishaps \subseteq {"stop", "crash", "fault", "refusal"}

VARIABLES
    disk,           \* the event directories
    engine,         \* the window being captured: {} or one [id, pre, total]
    metadata,       \* metadata_
    adopt,          \* metadata to take over when the call returns: {} or one
    dropped,        \* dropped_event_id_: {} or one event
    used,           \* event ids drawn so far
    caller,         \* who holds the mutex; "none", or "down" between processes
    todo,           \* durable steps still to make
    unwinding,      \* subscribe() has thrown; disconnect() is next
    pending,        \* the message on its way: {} or one
    posted,         \* messages ever handed to the delivery thread
    stored,         \* external: messages the backend has stored
    mishaps

memory == <<engine, adopt, dropped, unwinding, pending>>
outside == <<used, posted, stored>>
vars == <<disk, metadata, caller, todo, memory, outside, mishaps>>

\* File names: chunk-000.json and so on, completion.json and
\* restart-completion.json; in this order next_message() takes them.
ChunkNames == 0..(MaxChunks - 1)
Completion == MaxChunks
Restart == MaxChunks + 1

EmptyDirectory ==
    [manifest |-> {}, data |-> <<>>, sum |-> <<>>, ack |-> {}]

Init ==
    /\ disk = <<>> /\ metadata \in Contracts /\ caller = "down" /\ todo = <<>>
    /\ engine = {} /\ adopt = {} /\ dropped = {} /\ unwinding = FALSE
    /\ pending = {} /\ used = {} /\ posted = {} /\ stored = {} /\ mishaps = 0

-----------------------------------------------------------------------------
(* Reading a directory.                                                    *)

Chunks(d) == DOMAIN d.data \intersect ChunkNames

\* The file and its .sha256 agree (durable_message, valid_message_file).
durable_message(d, n) ==
    /\ n \in DOMAIN d.data
    /\ n \in DOMAIN d.sum
    /\ d.sum[n] = d.data[n]

\* inspect_event() throws on a directory without a manifest, and inventory()
\* with it.
Readable == \A e \in DOMAIN disk : disk[e].manifest # {}

Encoded(n, bytes) == IF n \in ChunkNames THEN bytes.range.count ELSE 1

encoded_bytes(d) ==
    MapThenSumSet(LAMBDA n : Encoded(n, d.data[n]), DOMAIN d.data)

\* Mutant: quarantined directories do not count.
OtherBytes_live(id) ==
    MapThenSumSet(LAMBDA e : encoded_bytes(disk[e]),
                  {e \in DOMAIN disk \ {id} : disk[e].manifest # {"QUARANTINED"}})

OtherBytes(id) ==
    MapThenSumSet(LAMBDA e : encoded_bytes(disk[e]), DOMAIN disk \ {id})

\* The files of a message set, by name.
ChunkBytes(ranges, i) == [contract |-> metadata, range |-> ranges[i + 1]]
CompletionBytes(ranges, reason) ==
    [contract |-> metadata, ranges |-> ranges, reason |-> reason]

Message(e, n) == [event_id |-> e, name |-> n, bytes |-> disk[e].data[n]]

\* The completion lists exactly the chunks of the directory (Runtime's
\* verify_completed_set).
verify_completed_set(d) ==
    /\ durable_message(d, Completion)
    /\ Len(d.data[Completion].ranges) = Cardinality(Chunks(d))
    /\ \A i \in 0..(Cardinality(Chunks(d)) - 1) :
          /\ durable_message(d, i)
          /\ d.data[i].range = d.data[Completion].ranges[i + 1]
          /\ d.data[i].contract = d.data[Completion].contract

-----------------------------------------------------------------------------
(* The durable steps.                                                      *)

write_state(e, state) == <<"manifest", e, state>>
put(e, n, bytes) == <<<<"data", e, n, bytes>>, <<"sum", e, n, bytes>>>>

\* restart-completion.json becomes completion.json, then its .sha256 follows.
Publish(e) ==
    <<<<"move_data", e>>, <<"move_sum", e>>, write_state(e, "READY_TO_SEND")>>

Moved(files) ==
    (Completion :> files[Restart]) @@ Restrict(files, DOMAIN files \ {Restart})

Apply(step) ==
    LET e == step[2]
        kind == step[1]
    IN  IF kind = "mkdir" THEN (e :> EmptyDirectory) @@ disk
        ELSE [disk EXCEPT ![e] =
                CASE kind = "manifest"  -> [@ EXCEPT !.manifest = {step[3]}]
                  [] kind = "data" -> [@ EXCEPT !.data = (step[3] :> step[4]) @@ @]
                  [] kind = "sum"  -> [@ EXCEPT !.sum = (step[3] :> step[4]) @@ @]
                  [] kind = "ack"  -> [@ EXCEPT !.ack = @ \union {step[3]}]
                  [] kind = "move_data" -> [@ EXCEPT !.data = Moved(@)]
                  [] kind = "move_sum"  -> [@ EXCEPT !.sum = Moved(@)]]

Step ==
    /\ todo # <<>> /\ Head(todo)[1] # "remove_all"
    /\ disk' = Apply(Head(todo))
    /\ todo' = Tail(todo)
    /\ UNCHANGED <<metadata, caller, memory, outside, mishaps>>

\* The directory with one file less.
OneLess(d) ==
    {[d EXCEPT !.manifest = {}] : s \in d.manifest}
    \union {[d EXCEPT !.data = Restrict(@, DOMAIN @ \ {n})] : n \in DOMAIN d.data}
    \union {[d EXCEPT !.sum = Restrict(@, DOMAIN @ \ {n})] : n \in DOMAIN d.sum}
    \union {[d EXCEPT !.ack = @ \ {n}] : n \in d.ack}

\* remove_all unlinks the files in any order, then the directory.
RemoveStep ==
    /\ todo # <<>> /\ Head(todo)[1] = "remove_all"
    /\ LET e == Head(todo)[2]
       IN  \/ /\ \E d \in OneLess(disk[e]) : disk' = [disk EXCEPT ![e] = d]
              /\ UNCHANGED todo
           \/ /\ disk[e] = EmptyDirectory
              /\ disk' = Restrict(disk, DOMAIN disk \ {e})
              /\ todo' = Tail(todo)
    /\ UNCHANGED <<metadata, caller, memory, outside, mishaps>>

\* The mutex is free in a running process.
Free == caller = "none"

Call(who, steps) ==
    /\ caller' = who
    /\ todo' = steps

\* The process is gone.
Exit ==
    /\ caller' = "down" /\ todo' = <<>>
    /\ engine' = {} /\ adopt' = {} /\ dropped' = {}
    /\ unwinding' = FALSE /\ pending' = {}

-----------------------------------------------------------------------------
(* Capture.                                                                *)

\* What a checkpoint writes: chunks that changed, then the completion a
\* restart would use.
Checkpoint(id, ranges, reason, data) ==
    LET chunk(i) == IF i \in DOMAIN data /\ data[i] = ChunkBytes(ranges, i)
                    THEN <<>> ELSE put(id, i, ChunkBytes(ranges, i))
    IN  FlattenSeq([i \in 1..Len(ranges) |-> chunk(i - 1)])
        \o put(id, Restart, CompletionBytes(ranges, reason))

\* EventSpool::store for a new event.
StoreNew(id, ranges, capturing) ==
    LET last == IF capturing THEN Restart ELSE Completion
    IN  <<<<"mkdir", id>>, write_state(id, "CAPTURING")>>
        \o FlattenSeq([i \in 1..Len(ranges) |->
                          put(id, i - 1, ChunkBytes(ranges, i - 1))])
        \o put(id, last, CompletionBytes(ranges,
                             IF capturing THEN "SERVICE_RESTART" ELSE "CLOSED"))
        \o (IF capturing THEN <<>> ELSE <<write_state(id, "READY_TO_SEND")>>)

\* Runtime::store finds a chunk it may have sent and that the window would
\* change, or one it cannot read.
SealedChunkChanged(d, ranges) ==
    \E i \in 0..(Cardinality(Chunks(d)) - 1) :
        \/ ~durable_message(d, i)
        \/ i >= Len(ranges)
        \/ /\ sealed_capture_chunk(d.data[i].range) \/ i \in d.ack
           /\ d.data[i] # ChunkBytes(ranges, i)

\* A call of the capture thread throws: subscribe() ends and main's handler
\* disconnects; when that throws too, the process exits.
Thrown(who) ==
    IF who = "unwind" \/ who = "stop" THEN Exit
    ELSE /\ unwinding' = TRUE /\ caller' = "none" /\ todo' = <<>>
         /\ adopt' = {}
         /\ UNCHANGED <<dropped, pending>>

\* Admission is decided once per event.
Rejected(id) == dropped = {id}

\* What Runtime::store does to the spool: the steps to make, and whether the
\* event is dropped.  The checks of EventSpool's store, checkpoint_capturing
\* and complete_capturing are included; an event the engine still holds is
\* in no other state than CAPTURING or QUARANTINED.
Plan(w, capturing) ==
    LET ranges == build_growing_messages(w)
        reason == IF capturing THEN "SERVICE_RESTART" ELSE "CLOSED"
        full   == w.total + 1 > MaxBytes - OtherBytes(w.id)
        d      == disk[w.id]
    IN  CASE Rejected(w.id) -> [steps |-> <<>>, drop |-> FALSE]
          [] ~Rejected(w.id) /\ w.id \notin DOMAIN disk ->
                IF Cardinality(DOMAIN disk) >= MaxWindows \/ full
                THEN [steps |-> <<>>, drop |-> TRUE]
                ELSE [steps |-> StoreNew(w.id, ranges, capturing), drop |-> FALSE]
          [] OTHER ->
                IF d.manifest = {"QUARANTINED"}
                THEN [steps |-> <<>>, drop |-> FALSE]
                ELSE IF SealedChunkChanged(d, ranges) \/ full
                THEN [steps |-> <<write_state(w.id, "QUARANTINED")>>,
                      drop  |-> ~SealedChunkChanged(d, ranges)]
                ELSE [steps |-> Checkpoint(w.id, ranges, reason, d.data)
                                \o IF capturing THEN <<>> ELSE Publish(w.id),
                      drop  |-> FALSE]

\* Runtime::store; build_growing_messages throws for a window without samples,
\* and inventory() may throw, before anything is decided.
store(w, capturing, who) ==
    IF ~Rejected(w.id) /\ (w.total = 0 \/ ~Readable) THEN Thrown(who)
    ELSE /\ Call(who, Plan(w, capturing).steps)
         /\ dropped' = IF Plan(w, capturing).drop THEN {w.id} ELSE dropped
         /\ unwinding' = FALSE
         /\ UNCHANGED <<adopt, pending>>

\* The capture thread runs frames through the engine.
Capturing == Free /\ ~unwinding /\ adopt = {}

\* ingest(): the trigger starts a window with its PRE samples, and with the
\* frame itself when that is the first of its bucket.
Trigger(id, pre, first) ==
    /\ Capturing /\ engine = {} /\ id \notin used
    /\ LET w == [id |-> id, pre |-> pre, total |-> pre + first]
       IN  engine' = {w} /\ store(w, TRUE, "capture")
    /\ used' = used \union {id}
    /\ UNCHANGED <<disk, metadata, posted, stored, mishaps>>

\* ingest(): a retained sample; the copy of the engine that is aborted for
\* the restart completion holds the window as it is now.
Retain ==
    /\ Capturing
    /\ \E w \in engine :
          /\ w.total < MaxTotal
          /\ LET grown == [w EXCEPT !.total = @ + 1]
             IN  engine' = {grown} /\ store(grown, TRUE, "capture")
    /\ UNCHANGED <<disk, metadata, outside, mishaps>>

\* ingest(), disconnect() or expire_input(): the engine closes the window,
\* with the current sample or without it.
Close(samples) ==
    /\ Capturing
    /\ \E w \in engine :
          /\ w.total + samples <= MaxTotal
          /\ store([w EXCEPT !.total = @ + samples], FALSE, "capture")
    /\ engine' = {}
    /\ UNCHANGED <<disk, metadata, outside, mishaps>>

\* main's handler after a throw: disconnect().
Unwind ==
    /\ Free /\ unwinding
    /\ \/ /\ engine = {}
          /\ unwinding' = FALSE
          /\ UNCHANGED <<caller, todo, adopt, dropped, pending>>
       \/ \E w \in engine : store(w, FALSE, "unwind")
    /\ engine' = {}
    /\ UNCHANGED <<disk, metadata, outside, mishaps>>

\* A new session reads the metadata file ...
ReadMetadata(m) ==
    /\ Capturing /\ m # metadata
    /\ adopt' = {m}
    /\ UNCHANGED <<disk, metadata, caller, todo, engine, dropped, unwinding,
                   pending, outside, mishaps>>

\* ... and update_vdp_metadata closes the window under the old metadata.
update_vdp_metadata ==
    /\ Free /\ adopt # {}
    /\ \/ /\ engine = {}
          /\ Call("update", <<>>)
          /\ UNCHANGED <<adopt, dropped, unwinding, pending>>
       \/ \E w \in engine : store(w, FALSE, "update")
    /\ engine' = {}
    /\ UNCHANGED <<disk, metadata, outside, mishaps>>

Mishap(kind) ==
    /\ kind \in Mishaps /\ mishaps < MaxMishaps
    /\ mishaps' = mishaps + 1

\* Shutdown: stop() closes the window and the process ends.
stop ==
    /\ Mishap("stop") /\ Capturing
    /\ \/ engine = {} /\ Exit
       \/ \E w \in engine : store(w, FALSE, "stop") /\ engine' = {}
    /\ UNCHANGED <<disk, metadata, outside>>

-----------------------------------------------------------------------------
(* Delivery.                                                               *)

\* Mutant: the chunks' acknowledgements suffice.
Retire_chunks(e, d) ==
    IF Chunks(d) \subseteq d.ack
    THEN <<write_state(e, "ACKNOWLEDGED"), <<"remove_all", e>>>>
    ELSE <<>>

\* delete_if_fully_acknowledged, for a directory that is WAITING_ACK.
Retire(e, d) ==
    IF \A n \in Chunks(d) \union {Completion} : n \in d.ack
    THEN <<write_state(e, "ACKNOWLEDGED"), <<"remove_all", e>>>>
    ELSE <<>>

\* The names next_message() looks at in an event: while it is captured, its
\* chunks; later, the completion too.
Names(d) ==
    0..(Cardinality(Chunks(d)) - 1)
    \union IF d.manifest = {"CAPTURING"} THEN {} ELSE {Completion}

\* Mutant: an event that waits for acknowledgement is not looked at again.
Deliverable_ready(d) == d.manifest \in {{"CAPTURING"}, {"READY_TO_SEND"}}

Deliverable(d) == d.manifest \in {{"CAPTURING"}, {"READY_TO_SEND"}, {"WAITING_ACK"}}

FirstUnacked(d) ==
    {n \in Names(d) \ d.ack : \A k \in Names(d) \ d.ack : n <= k}

\* Mutant: a chunk that can still grow is offered.
Sendable_unsealed(d, n) == durable_message(d, n)

\* The file is intact and can no longer grow.
Sendable(d, n) ==
    /\ durable_message(d, n)
    /\ d.manifest = {"CAPTURING"} => sealed_capture_chunk(d.data[n].range)

\* The message next_message() returns from an event, if any.
Offer(e) ==
    {n \in FirstUnacked(disk[e]) : Deliverable(disk[e]) /\ Sendable(disk[e], n)}

\* The steps next_message() makes on an event before it returns a message or
\* goes on to the next one.
Prepare(e) ==
    LET d == disk[e]
        mark == IF d.manifest = {"READY_TO_SEND"}
                THEN <<write_state(e, "WAITING_ACK")>> ELSE <<>>
    IN  IF ~Deliverable(d) THEN <<>>
        ELSE IF \E n \in FirstUnacked(d) : ~durable_message(d, n)
        THEN mark \o <<write_state(e, "QUARANTINED")>>
        ELSE IF FirstUnacked(d) = {} /\ d.manifest # {"CAPTURING"}
        THEN mark \o Retire(e, d)
        ELSE mark

next_message ==
    /\ Free /\ pending = {} /\ Readable
    /\ LET offers  == {e \in DOMAIN disk : Offer(e) # {}}
           visited == {e \in DOMAIN disk : \A x \in offers : e <= x}
           steps   == FlattenSeq([i \in 1..Cardinality(visited) |->
                          Prepare(SetToSortSeq(visited, <)[i])])
       IN  /\ offers # {} \/ steps # <<>>
           /\ Call("next", steps)
           /\ pending' = UNION {{Message(e, n) : n \in Offer(e)} :
                                   e \in visited \intersect offers}
           /\ posted' = posted \union pending'
    /\ UNCHANGED <<disk, metadata, engine, adopt, dropped, unwinding, used,
                   stored, mishaps>>

SameKey(m, k) == m.event_id = k.event_id /\ m.name = k.name

\* External: the backend keeps the first content of a key.
Store ==
    /\ Free
    /\ \E m \in pending :
          /\ ~\E k \in stored : SameKey(k, m)
          /\ stored' = stored \union {m}
    /\ UNCHANGED <<disk, metadata, caller, todo, memory, used, posted, mishaps>>

\* The answers to a message: an acknowledgement that matches it, a refusal
\* that is not worth a retry (a conflicting key, or a mishap), or nothing.
Acknowledged(m) == m \in stored
Refused(m) ==
    \/ \E k \in stored : SameKey(k, m) /\ k # m
    \/ "refusal" \in Mishaps /\ mishaps < MaxMishaps

\* The steps of accept().
accept(m, answer) ==
    LET e == m.event_id
        d == disk[e]
    IN  IF e \notin DOMAIN disk \/ d.manifest = {"QUARANTINED"} THEN <<>>
        ELSE IF \/ ~durable_message(d, m.name)
                \/ d.data[m.name] # m.bytes
                \/ answer = "refused"
        THEN <<write_state(e, "QUARANTINED")>>
        ELSE IF answer = "acknowledged"
        THEN <<<<"ack", e, m.name>>>>
             \o IF d.manifest = {"WAITING_ACK"}
                THEN Retire(e, [d EXCEPT !.ack = @ \union {m.name}]) ELSE <<>>
        ELSE <<>>

Answer(answer) ==
    /\ Free /\ pending # {}
    /\ \E m \in pending :
          /\ answer = "acknowledged" => Acknowledged(m)
          /\ answer = "refused" => Refused(m)
          /\ mishaps' = IF answer = "refused" /\ ~\E k \in stored :
                              SameKey(k, m) /\ k # m
                        THEN mishaps + 1 ELSE mishaps
          /\ IF Readable THEN Call("accept", accept(m, answer))
             ELSE UNCHANGED <<caller, todo>>
    /\ pending' = {}
    /\ UNCHANGED <<disk, metadata, engine, adopt, dropped, unwinding, outside>>

-----------------------------------------------------------------------------
(* Start, mishaps.                                                         *)

ChunksValid(d) ==
    /\ Chunks(d) # {}
    /\ \A n \in Chunks(d) : durable_message(d, n)

\* The completion recover() expects to be intact.
CompletionFile(d) == IF d.manifest = {"CAPTURING"} THEN Restart ELSE Completion

\* EventSpool::recover on one directory.
Recover(e) ==
    LET d == disk[e]
    IN  IF d.manifest = {"QUARANTINED"} THEN <<>>
        ELSE IF \/ d.manifest = {} \/ ~ChunksValid(d)
                \/ ~durable_message(d, CompletionFile(d))
        THEN <<write_state(e, "QUARANTINED")>>
        ELSE IF d.manifest = {"CAPTURING"} THEN Publish(e) ELSE <<>>

\* Mutant: the set is not compared with its completion.
Verify_skipped(e) == <<>>

\* Runtime's constructor: a set of mixed checkpoints is not sent.
Verify(e) ==
    IF disk[e].manifest # {"QUARANTINED"} /\ ~verify_completed_set(disk[e])
    THEN <<write_state(e, "QUARANTINED")>> ELSE <<>>

Everywhere(Steps(_)) ==
    LET order == SetToSortSeq(DOMAIN disk, <)
    IN  FlattenSeq([i \in 1..Len(order) |-> Steps(order[i])])

Boot ==
    /\ caller = "down"
    /\ Call("recover", Everywhere(Recover))
    /\ UNCHANGED <<disk, metadata, memory, outside, mishaps>>

\* The call in progress has made its last step.
Return ==
    /\ caller \notin {"none", "down"} /\ todo = <<>>
    /\ CASE caller = "stop" -> Exit /\ UNCHANGED metadata
         [] caller = "recover" ->
               /\ Call("verify", Everywhere(Verify))
               /\ UNCHANGED <<metadata, memory>>
         [] caller = "update" ->
               /\ Call("none", <<>>)
               /\ metadata' \in adopt /\ adopt' = {}
               /\ UNCHANGED <<engine, dropped, unwinding, pending>>
         [] OTHER ->
               /\ Call("none", <<>>)
               /\ UNCHANGED <<metadata, memory>>
    /\ UNCHANGED <<disk, outside, mishaps>>

\* A system call of the step fails, before or after its effect.  recover()
\* quarantines the directory instead; the delivery thread tries again later.
Fail ==
    /\ Mishap("fault") /\ todo # <<>>
    /\ \/ UNCHANGED disk
       \/ Head(todo)[1] # "remove_all" /\ disk' = Apply(Head(todo))
    /\ CASE caller \in {"capture", "update", "unwind", "stop"} ->
               /\ Thrown(caller)
               /\ caller' = "none" => UNCHANGED engine
         [] caller = "verify" -> Exit
         [] caller = "recover" ->
               LET e == Head(todo)[2]
               IN  IF Head(todo) = write_state(e, "QUARANTINED") THEN Exit
                   ELSE /\ Call("recover", <<write_state(e, "QUARANTINED")>>
                                           \o SelectSeq(todo, LAMBDA t : t[2] # e))
                        /\ UNCHANGED memory
         [] OTHER ->
               /\ Call("none", <<>>)
               /\ pending' = {}
               /\ UNCHANGED <<engine, adopt, dropped, unwinding>>
    /\ UNCHANGED <<metadata, outside>>

Crash ==
    /\ Mishap("crash") /\ caller # "down"
    /\ Exit
    /\ UNCHANGED <<disk, metadata, outside>>

Next ==
    \/ \E id \in Events, pre \in 0..MaxPre, first \in 0..1 : Trigger(id, pre, first)
    \/ Retain
    \/ \E samples \in 0..1 : Close(samples)
    \/ Unwind
    \/ \E m \in Contracts : ReadMetadata(m)
    \/ update_vdp_metadata
    \/ stop
    \/ next_message
    \/ Store
    \/ \E a \in {"acknowledged", "refused", "none"} : Answer(a)
    \/ Boot \/ Step \/ RemoveStep \/ Return
    \/ Fail \/ Crash

Spec == Init /\ [][Next]_vars

\* The process is started again, calls return, the delivery thread keeps
\* asking, and a message sent again and again is at last stored and its
\* acknowledgement received.
FairSpec ==
    /\ Spec
    /\ WF_vars(Boot) /\ WF_vars(Step) /\ WF_vars(RemoveStep) /\ WF_vars(Return)
    /\ WF_vars(next_message) /\ SF_vars(Store) /\ SF_vars(Answer("acknowledged"))

-----------------------------------------------------------------------------
(* Properties.                                                             *)

\* Whatever is interrupted, left over or quarantined, the spool never holds
\* more windows or bytes than admission and every checkpoint allow.
WithinCapacity ==
    /\ Cardinality(DOMAIN disk) <= MaxWindows
    /\ MapThenSumSet(LAMBDA e : encoded_bytes(disk[e]), DOMAIN disk) <= MaxBytes

\* next_message() never offers two contents under one key, whatever grows,
\* fails or restarts in between: the backend never sees a conflict.
OneContentPerKey ==
    \A m, k \in posted : SameKey(m, k) => m = k

\* A completion that was offered describes the chunks that were offered:
\* the backend never gets the set of one checkpoint with the completion of
\* another, or chunks of two contracts.
NoMixedSet ==
    \A c, m \in posted :
        c.event_id = m.event_id /\ c.name = Completion /\ m.name # Completion =>
            /\ m.name < Len(c.bytes.ranges)
            /\ m.bytes.range = c.bytes.ranges[m.name + 1]
            /\ m.bytes.contract = c.bytes.contract

\* A file the delivery thread has offered keeps its bytes, and a chunk or
\* completion disappears only when the backend has it.
DeletedOnlyWhenStored ==
    [][\A e \in DOMAIN disk :
        \A n \in DOMAIN disk[e].data \ {Restart} :
            IF e \in DOMAIN disk' /\ n \in DOMAIN disk'[e].data
            THEN Message(e, n) \in posted => disk'[e].data[n] = disk[e].data[n]
            ELSE Message(e, n) \in stored]_vars

\* A closed event whose messages the backend takes leaves the queue.  What
\* remains of it after a crash in the middle of the deletion is an
\* ACKNOWLEDGED or QUARANTINED directory, which no later start removes.
Drained ==
    \A e \in Events :
        (e \in DOMAIN disk /\ disk[e].manifest \subseteq {"READY_TO_SEND", "WAITING_ACK"}
            /\ disk[e].manifest # {})
        ~> (e \notin DOMAIN disk
            \/ disk[e].manifest \in {{"QUARANTINED"}, {"ACKNOWLEDGED"}})

\* All samples of a checkpoint are there, with a completion that lists them:
\* restart-completion.json, or the same file under its final name.
Intact(d) ==
    \E n \in DOMAIN d.data \intersect {Completion, Restart} :
        /\ d.data[n] \in {d.sum[x] : x \in DOMAIN d.sum \intersect {Completion, Restart}}
        /\ Len(d.data[n].ranges) = Cardinality(Chunks(d))
        /\ \A i \in Chunks(d) :
              /\ durable_message(d, i)
              /\ d.data[i] = [contract |-> d.data[n].contract,
                              range |-> d.data[n].ranges[i + 1]]

\* "Restart ... closes intact interrupted capture with its original
\* provenance" (docs/runtime-executable.md).
ClosesIntact ==
    \A e \in DOMAIN disk :
        disk[e].manifest = {"QUARANTINED"} => ~Intact(disk[e])

=============================================================================
