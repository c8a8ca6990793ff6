---------------------------- MODULE CatalogStore ----------------------------
(***************************************************************************)
(* One catalog file of the admin service and the handlers that edit it:    *)
(* catalog_store's locked load-change-save, its temporary file and atomic  *)
(* replace, and the crash that can hit in between.  Files do not interact: *)
(* each has a lock of its own.                                             *)
(*                                                                         *)
(* An item is what the form sets (`core') and what the form does not know  *)
(* and item_from_form takes over from the existing item (`rest').  What a  *)
(* handler writes into `core' is its own name.                             *)
(*                                                                         *)
(* The two `async' handlers run on the event loop, which they give up only *)
(* while they await the form and keep while they wait for the lock;        *)
(* catalog_delete runs in a thread of its own.                             *)
(***************************************************************************)
EXTENDS Naturals, Sequences, SequencesExt, FiniteSets

CONSTANTS
    Adders,       \* requests to POST /catalog/{kind}/new
    Editors,      \* requests to POST /catalog/{kind}/{index}/edit
    Removers,     \* requests to POST /catalog/{kind}/{index}/delete
    Original,     \* the names of the items in the file at first, a sequence
    Nobody,       \* the lock is free
    MaxCrashes    \* bound on crashes of the admin process

Handlers == Adders \cup Editors \cup Removers

Names == Handlers \cup {Original[i] : i \in DOMAIN Original}
Item == [core : Names, rest : Names]
NewItem(name) == [core |-> name, rest |-> name]

ASSUME CatalogAssumption ==
    /\ Adders \cap Editors = {} /\ Adders \cap Removers = {} /\ Editors \cap Removers = {}
    /\ IsFiniteSet(Handlers)
    /\ Original \in Seq(Names)
    /\ Nobody \notin Handlers
    /\ MaxCrashes \in Nat

VARIABLES
    file,      \* the items of the file as nginx serves it
    temps,     \* handlers whose temporary file is in the directory
    lock,      \* who holds the file's lock
    at,        \* per handler: where its thread is
    index,     \* per editor and remover: the index in its path, from 0
    existing,  \* per editor: the item it read before it awaited the form
    doc,       \* per handler: the document it has loaded and changed
    running,   \* whether the admin process is up
    crashes,
    wanted,    \* what the saved edits leave, each on top of the ones before (history)
    displaced  \* editors at whose index there is another item than they read (history)

vars == <<file, temps, lock, at, index, existing, doc, running, crashes, wanted, displaced>>

MaxLen == Len(Original) + Cardinality(Adders)
Blank == NewItem(CHOOSE n \in Names : TRUE)

Answered == {"saved", "notFound", "invalid", "error"}
Places == {"idle", "form", "locking", "loaded", "writing", "written", "lost"} \cup Answered

TypeOK ==
    /\ file \in Seq(Item) /\ Len(file) <= MaxLen
    /\ temps \subseteq Handlers
    /\ lock \in Handlers \cup {Nobody}
    /\ at \in [Handlers -> Places]
    /\ index \in [Handlers -> 0..MaxLen]
    /\ existing \in [Handlers -> Item]
    /\ \A h \in Handlers : doc[h] \in Seq(Item) /\ Len(doc[h]) <= MaxLen
    /\ running \in BOOLEAN
    /\ crashes \in 0..MaxCrashes
    /\ wanted \in Seq(Item) /\ Len(wanted) <= MaxLen
    /\ displaced \subseteq Editors

Init ==
    /\ file = [i \in DOMAIN Original |-> NewItem(Original[i])]
    /\ temps = {}
    /\ lock = Nobody
    /\ at = [h \in Handlers |-> "idle"]
    /\ index = [h \in Handlers |-> 0]
    /\ existing = [h \in Handlers |-> Blank]
    /\ doc = [h \in Handlers |-> <<>>]
    /\ running = TRUE
    /\ crashes = 0
    /\ wanted = file
    /\ displaced = {}

Move(h, place) == at' = [at EXCEPT ![h] = place]

HasIndex(items, i) == i < Len(items)
-----------------------------------------------------------------------------
(* The handlers up to the lock. *)

OnLoop(h) == h \in Adders \cup Editors

LoopIsFree == \A h \in Handlers : OnLoop(h) => at[h] \notin {"locking", "loaded", "writing", "written"}

Arrive(h) ==
    /\ running /\ at[h] = "idle" /\ LoopIsFree
    /\ \/ h \in Adders /\ UNCHANGED index
       \/ h \in Removers /\ \E i \in 0..MaxLen : index' = [index EXCEPT ![h] = i]
    /\ Move(h, "form")
    /\ UNCHANGED <<file, temps, lock, existing, doc, running, crashes, wanted, displaced>>

(* catalog_update reads the existing item, and awaits the form.            *)
ReadExisting(h) ==
    /\ h \in Editors
    /\ running /\ at[h] = "idle" /\ LoopIsFree
    /\ \E i \in 0..MaxLen :
          /\ index' = [index EXCEPT ![h] = i]
          /\ IF HasIndex(file, i)
               THEN existing' = [existing EXCEPT ![h] = file[i + 1]] /\ Move(h, "form")
               ELSE UNCHANGED existing /\ Move(h, "notFound")
    /\ displaced' = displaced \ {h}
    /\ UNCHANGED <<file, temps, lock, doc, running, crashes, wanted>>

(* The form is there, and valid or not.                                    *)
TakeForm(h) ==
    /\ at[h] = "form"
    /\ OnLoop(h) => LoopIsFree
    /\ Move(h, "locking") \/ (OnLoop(h) /\ Move(h, "invalid"))
    /\ UNCHANGED <<file, temps, lock, index, existing, doc, running, crashes, wanted, displaced>>
-----------------------------------------------------------------------------
(* Under the lock: load, change, write a temporary file, replace. *)

(* Mutant: the lock is not waited for.                                     *)
LockIsIgnored == TRUE

LockIsFree == lock = Nobody

Load(h) ==
    /\ at[h] = "locking"
    /\ LockIsFree
    /\ lock' = h
    /\ doc' = [doc EXCEPT ![h] = file]
    /\ Move(h, "loaded")
    /\ UNCHANGED <<file, temps, index, existing, running, crashes, wanted, displaced>>

(* item_from_form starts from the existing item.                           *)
NewVersion(h) == [core |-> h, rest |-> existing[h].rest]

(* Mutant: an edit adds the new version and leaves the old one.            *)
ChangedByAppending(h, items) ==
    IF h \in Removers THEN RemoveAt(items, index[h] + 1) ELSE Append(items, NewVersion(h))

(* Mutant: an addition goes to the front.                                  *)
ChangedByPrepending(h, items) ==
    CASE h \in Adders   -> <<NewItem(h)>> \o items
      [] h \in Editors  -> ReplaceAt(items, index[h] + 1, NewVersion(h))
      [] h \in Removers -> RemoveAt(items, index[h] + 1)

(* What a handler makes of a document that has its index.                  *)
Changed(h, items) ==
    CASE h \in Adders   -> Append(items, NewItem(h))
      [] h \in Editors  -> ReplaceAt(items, index[h] + 1, NewVersion(h))
      [] h \in Removers -> RemoveAt(items, index[h] + 1)

Change(h) ==
    /\ at[h] = "loaded"
    /\ h \in Adders \/ HasIndex(doc[h], index[h])
    /\ doc' = [doc EXCEPT ![h] = Changed(h, doc[h])]
    /\ temps' = temps \cup {h}
    /\ Move(h, "writing")
    /\ UNCHANGED <<file, lock, index, existing, running, crashes, wanted, displaced>>

(* Mutant: the 404 keeps the lock.                                         *)
FindBadIndexLocked(h) ==
    /\ at[h] = "loaded"
    /\ h \notin Adders /\ ~ HasIndex(doc[h], index[h])
    /\ Move(h, "notFound")
    /\ UNCHANGED <<file, temps, lock, index, existing, doc, running, crashes, wanted, displaced>>

(* IndexError leaves the `with' block: 404, and the file is as it was.     *)
FindBadIndex(h) ==
    /\ at[h] = "loaded"
    /\ h \notin Adders /\ ~ HasIndex(doc[h], index[h])
    /\ lock' = Nobody
    /\ Move(h, "notFound")
    /\ UNCHANGED <<file, temps, index, existing, doc, running, crashes, wanted, displaced>>

(* A deletion moves another item to the index of an editor, or an editor   *)
(* that has been displaced itself writes one there.                        *)
Displaces(h, e) ==
    \/ h \in Removers /\ index[h] <= index[e]
    \/ h \in displaced /\ index[h] = index[e]

(* os.replace: the temporary file becomes the file.                        *)
Replace(h) ==
    /\ at[h] = "writing"
    /\ file' = doc[h]
    /\ temps' = temps \ {h}
    /\ wanted' = Changed(h, wanted)
    /\ displaced' = displaced \cup {e \in Editors : Displaces(h, e)}
    /\ Move(h, "written")
    /\ UNCHANGED <<lock, index, existing, doc, running, crashes>>

(* The disk is full: _atomic_write takes the temporary file away again.    *)
FailWrite(h) ==
    /\ at[h] = "writing"
    /\ temps' = temps \ {h}
    /\ lock' = Nobody
    /\ Move(h, "error")
    /\ UNCHANGED <<file, index, existing, doc, running, crashes, wanted, displaced>>

Release(h) ==
    /\ at[h] = "written"
    /\ lock' = Nobody
    /\ Move(h, "saved")
    /\ UNCHANGED <<file, temps, index, existing, doc, running, crashes, wanted, displaced>>

Handler(h) ==
    \/ Arrive(h) \/ ReadExisting(h) \/ TakeForm(h)
    \/ Load(h) \/ Change(h) \/ FindBadIndex(h) \/ Replace(h) \/ FailWrite(h) \/ Release(h)
-----------------------------------------------------------------------------
(* The process is killed: no `except' runs, so temporary files stay.       *)
Crash ==
    /\ running
    /\ crashes < MaxCrashes
    /\ crashes' = crashes + 1
    /\ running' = FALSE
    /\ lock' = Nobody
    /\ at' = [h \in Handlers |-> IF at[h] \in {"idle"} \cup Answered THEN at[h] ELSE "lost"]
    /\ UNCHANGED <<file, temps, index, existing, doc, wanted, displaced>>

(* Mutant: starting leaves the directory as it is.                         *)
StartWithoutCleanup ==
    /\ ~ running
    /\ running' = TRUE
    /\ UNCHANGED <<file, temps, lock, at, index, existing, doc, crashes, wanted, displaced>>

(* Importing the module sweeps the directory (_cleanup_stale_temp_files).  *)
Start ==
    /\ ~ running
    /\ running' = TRUE
    /\ temps' = {}
    /\ UNCHANGED <<file, lock, at, index, existing, doc, crashes, wanted, displaced>>

Next == (\E h \in Handlers : Handler(h)) \/ Crash \/ Start

Spec == Init /\ [][Next]_vars

(* A handler past its form runs on whenever it can; a crashed container is *)
(* started again.  Every request is made once, so the lock cannot be       *)
(* taken from a waiting handler for ever.                                  *)
Fairness ==
    /\ WF_vars(Start)
    /\ \A h \in Handlers :
          WF_vars(Load(h) \/ Change(h) \/ FindBadIndex(h) \/ Replace(h) \/ FailWrite(h) \/ Release(h))

FairSpec == Spec /\ Fairness
-----------------------------------------------------------------------------
(* No edit is lost: what is served is what the saved edits make of the     *)
(* original, each applied to what the ones before it left, whatever is     *)
(* running, waiting or crashed in between (_lock_for, _atomic_write).      *)
NoEditLost == file = wanted

(* An edit replaces the item it read before it awaited the form, edited by *)
(* others or not, unless a deletion saved since then has shifted the list  *)
(* under its index, or such an edit went before it to the same index:      *)
(* additions, edits and deletions behind it move nothing (catalog_update,  *)
(* update_item, delete_item).                                              *)
OnlyDeletionsShift ==
    [][\A h \in Editors : at[h] = "writing" /\ at'[h] = "written" =>
          h \in displaced \/ file[index[h] + 1].rest = existing[h].rest]_vars

(* A temporary file belongs to a handler that is writing it: what a crash  *)
(* leaves behind is gone when the service is up again                      *)
(* (_cleanup_stale_temp_files).                                            *)
NoStaleTemps == running => \A h \in temps : at[h] = "writing"

(* A handler that waits for the lock, and blocks the event loop for it, is *)
(* answered, unless the process dies: every way out of the locked section  *)
(* releases the lock (add_item, update_item, delete_item).                 *)
EditsAnswered == \A h \in Handlers : at[h] = "locking" ~> at[h] \in Answered \cup {"lost"}
=============================================================================
