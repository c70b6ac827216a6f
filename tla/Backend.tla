------------------------------- MODULE Backend -------------------------------
(***************************************************************************)
(* The process-wide backend (llama_backend.rs): `LlamaBackend::init` and   *)
(* `drop` called from any thread, over one atomic flag.  The library's own *)
(* init and free are neither atomic nor reference-counted, so each is a    *)
(* region a thread enters and leaves.  A handle is Send: it may be dropped *)
(* by another thread than the one that made it.                            *)
(***************************************************************************)
CONSTANT Threads

VARIABLES
    INITIALIZED,    \* the static AtomicBool
    library,        \* "down" or "up": what llama_backend_init / _free left
    pc              \* pc[t]: the call thread t is in, or "live" while it holds the handle

vars == <<INITIALIZED, library, pc>>

Init ==
    /\ INITIALIZED = FALSE /\ library = "down"
    /\ pc = [t \in Threads |-> "idle"]

Goto(t, place) == pc' = [pc EXCEPT ![t] = place]

(* Mutant: the flag is set and its old value ignored. *)
SwapBlind(t) ==
    /\ pc[t] \in {"idle", "refused"}
    /\ INITIALIZED' = TRUE
    /\ Goto(t, "initializing")
    /\ UNCHANGED library

(* init: the swap decides, before the library is touched.                   *)
Swap(t) ==
    /\ pc[t] \in {"idle", "refused"}
    /\ INITIALIZED' = TRUE
    /\ Goto(t, IF INITIALIZED THEN "refused" ELSE "initializing")
    /\ UNCHANGED library

BackendInit(t) ==
    /\ pc[t] = "initializing" /\ Goto(t, "live")
    /\ library' = "up"
    /\ UNCHANGED INITIALIZED

(* The handle moves to another thread.                                      *)
Send(t, u) ==
    /\ pc[t] = "live" /\ pc[u] \in {"idle", "refused"}
    /\ pc' = [pc EXCEPT ![t] = "idle", ![u] = "live"]
    /\ UNCHANGED <<INITIALIZED, library>>

(* Mutant: the flag is cleared before the library is freed. *)
DropClearingFirst(t) ==
    /\ pc[t] = "live" /\ Goto(t, "freeing")
    /\ INITIALIZED' = FALSE
    /\ UNCHANGED library

Drop(t) ==
    /\ pc[t] = "live" /\ Goto(t, "freeing")
    /\ UNCHANGED <<INITIALIZED, library>>

BackendFree(t) ==
    /\ pc[t] = "freeing" /\ Goto(t, "clearing")
    /\ library' = "down"
    /\ UNCHANGED INITIALIZED

(* Mutant: drop forgets the flag. *)
ClearForgotten(t) ==
    /\ pc[t] = "clearing" /\ Goto(t, "idle")
    /\ UNCHANGED <<INITIALIZED, library>>

Clear(t) ==
    /\ pc[t] = "clearing" /\ Goto(t, "idle")
    /\ INITIALIZED' = FALSE
    /\ UNCHANGED library

Finish(t) == BackendInit(t) \/ BackendFree(t) \/ Clear(t)

Next == \E t \in Threads :
    Swap(t) \/ (\E u \in Threads : Send(t, u)) \/ Drop(t) \/ Finish(t)

(* A thread inside init or drop keeps running.                              *)
Spec == Init /\ [][Next]_vars /\ \A t \in Threads : WF_vars(Finish(t))

-----------------------------------------------------------------------------
(* Properties. *)

TypeOK ==
    /\ INITIALIZED \in BOOLEAN /\ library \in {"down", "up"}
    /\ pc \in [Threads -> {"idle", "refused", "initializing", "live", "freeing",
                           "clearing"}]

Busy(t) == pc[t] \in {"initializing", "live", "freeing", "clearing"}

(* From the swap that won to the store that ends a drop, no other thread     *)
(* initializes, holds or frees the backend ("called at most once at a time").*)
OneAtATime == \A t, u \in Threads : Busy(t) /\ Busy(u) => t = u

(* Whoever holds a handle finds the library initialized: no drop of an       *)
(* earlier handle is still about to free it.                                 *)
HandleMeansUp == \A t \in Threads : pc[t] = "live" => library = "up"

(* init is refused only while a handle exists, is being made or is being     *)
(* dropped.                                                                  *)
RefusedOnlyIfTaken ==
    [][ \A t \in Threads : pc'[t] = "refused" /\ pc[t] # "refused"
            => \E u \in Threads : Busy(u) ]_vars

(* Dropping the handle makes init possible again.                            *)
DropReopens == \A t \in Threads : (pc[t] = "freeing") ~> ~ INITIALIZED

-----------------------------------------------------------------------------
(* The inductive invariant: the flag is up exactly while a thread is busy,    *)
(* and the library is down while one is about to initialize it or has freed   *)
(* it.                                                                       *)
IInv ==
    /\ TypeOK /\ OneAtATime /\ HandleMeansUp
    /\ INITIALIZED <=> \E t \in Threads : Busy(t)

=============================================================================
