--------------------------- MODULE WindowPartition --------------------------
(***************************************************************************)
(* A V1 window as it grows, sample by sample, and the messages Runtime      *)
(* builds from it at every step.  PRE samples come first and are fixed at   *)
(* the trigger; which of the other samples are ACTIVE and which POST is up  *)
(* to the pedal, which WindowEngine models.  A window that begins without   *)
(* any sample is not here: no messages can be built from it (SomeSample).   *)
(***************************************************************************)
EXTENDS WindowMessages

CONSTANTS MaxPre, MaxActive, MaxPost,   \* samples of each phase: 30, 100, 20
          MaxTotal,                     \* samples: 150
          MaxExtra                      \* bound on POST samples beyond MaxPost

VARIABLES window, active, post

vars == <<window, active, post>>

\* begin_event; the frame of the trigger is in the window when it is the
\* first of its bucket.
Init ==
    /\ active \in 0..1
    /\ window \in {[pre |-> pre, total |-> pre + active] : pre \in 0..MaxPre}
    /\ window.total > 0
    /\ post = 0

\* A retained frame.  ingest has closed a window that is full or has all its
\* ACTIVE samples; POST samples are counted only before a frame of the POST
\* phase, so each return to that phase can add one beyond MaxPost.
Retain ==
    /\ window.total < MaxTotal /\ active < MaxActive
    /\ \/ active' = active + 1 /\ UNCHANGED post
       \/ post < MaxPost + MaxExtra /\ post' = post + 1 /\ UNCHANGED active
    /\ window' = [window EXCEPT !.total = @ + 1]

Next == Retain

Spec == Init /\ [][Next]_vars

-----------------------------------------------------------------------------
\* The chunk list of every window with no more than MaxPost POST samples (see
\* PostWithinSchema for the others) is one that canonicalize_completion_content
\* and verify_completed_set accept: sealing PRE separately never makes a
\* sixteenth chunk, although it can make a partial one in the middle, and an
\* intact window is never taken for a mixture of two checkpoints.
Encodable ==
    post <= MaxPost =>
        LET chunks == build_growing_messages(window)
            most   == [pre |-> MaxPre, active |-> MaxActive, post |-> MaxPost]
        IN  /\ CompletionCounts(window, active, post, most, chunks)
            /\ Contiguous(window, chunks)

\* A chunk next_message() may have handed to the backend while the window
\* was being captured is still the same chunk in every later window.
SealedStable ==
    [][LET before == build_growing_messages(window)
           after  == build_growing_messages(window')
       IN  \A i \in 1..Len(before) :
              sealed_capture_chunk(before[i]) =>
                  /\ i <= Len(after)
                  /\ after[i] = before[i]]_vars

=============================================================================
