--------------------------- MODULE BackupLocations ---------------------------
(***************************************************************************)
(* The backup storage location that repositories, schedules and garbage    *)
(* collection share: the object a user changes, deletes and creates again, *)
(* the store behind it, and the controller that says whether it can be     *)
(* used.  The clock the controllers compare times with is here as well.    *)
(***************************************************************************)
EXTENDS Naturals, FiniteSets, Sequences

CONSTANTS
    MaxTime,     \* the last value of the clock
    MaxChanges,  \* how often a user changes or deletes the location
    MaxMishaps,  \* how many of these happen: calls of the API server that
                 \* fail, a store that cannot be reached, restarts
    Undisturbed  \* TRUE: no change of the location is overtaken by the end
                 \* of a connection begun before it, or lost with the process

ASSUME LocationsAssumption ==
    /\ MaxTime \in Nat
    /\ MaxChanges \in Nat
    /\ MaxMishaps \in Nat
    /\ Undisturbed \in BOOLEAN

VARIABLES
    now,       \* the clock
    location,  \* the object
    usable,    \* whether the store answers at the location as it is now
    unseen,    \* TRUE: the repository controller has not handled the last
               \* change yet
    changes,   \* the changes so far
    mishaps    \* the mishaps so far

locationVars == <<now, location, usable, unseen, changes, mishaps>>

\* config numbers the bucket, prefix, certificate and settings together.
Location == [exists : BOOLEAN, config : 1 .. MaxChanges + 1,
             mode : {"ReadWrite", "ReadOnly"},
             phase : {"", "Available", "Unavailable"}]

LocationsTypeOK ==
    /\ now \in 0 .. MaxTime
    /\ location \in Location
    /\ usable \in BOOLEAN
    /\ unseen \in BOOLEAN
    /\ changes \in 0 .. MaxChanges
    /\ mishaps \in 0 .. MaxMishaps

LocationsInit ==
    /\ now = 0
    /\ location = [exists |-> TRUE, config |-> 1, mode |-> "ReadWrite",
                   phase |-> ""]
    /\ usable = TRUE
    /\ unseen = FALSE
    /\ changes = 0
    /\ mishaps = 0

\* A step in which n calls fail.
Fails(n) ==
    /\ mishaps + n <= MaxMishaps
    /\ mishaps' = mishaps + n

NothingLocal == UNCHANGED <<now, location, usable, unseen, changes>>

----------------------------------------------------------------------------
(* The user and the store. *)

Tick ==
    /\ now < MaxTime
    /\ now' = now + 1
    /\ UNCHANGED <<location, usable, unseen, changes, mishaps>>

Change(new, reported) ==
    /\ changes < MaxChanges
    /\ location' = new
    /\ unseen' = (unseen \/ reported)
    /\ changes' = changes + 1
    /\ UNCHANGED <<now, mishaps>>

\* Anything a repository depends on: needInvalidBackupRepo.
ChangeConfig ==
    /\ location.exists
    /\ Change([location EXCEPT !.config = @ + 1], TRUE)
    /\ usable' \in BOOLEAN

\* The access mode is not compared.
ChangeMode ==
    /\ location.exists
    /\ \E m \in {"ReadWrite", "ReadOnly"} \ {location.mode} :
           Change([location EXCEPT !.mode = m], FALSE)
    /\ UNCHANGED usable

DeleteLocation ==
    /\ location.exists
    /\ Change([location EXCEPT !.exists = FALSE, !.phase = ""], TRUE)
    /\ UNCHANGED usable

\* The event of an object's creation is filtered out.
RecreateLocation ==
    /\ ~location.exists
    /\ \E c \in {location.config, location.config + 1} :
           location' = [location EXCEPT !.exists = TRUE, !.config = c]
    /\ UNCHANGED <<now, usable, unseen, changes, mishaps>>

StoreFails ==
    /\ usable
    /\ usable' = FALSE
    /\ Fails(1)
    /\ UNCHANGED <<now, location, unseen, changes>>

StoreRecovers ==
    /\ ~usable
    /\ usable' = TRUE
    /\ UNCHANGED <<now, location, unseen, changes, mishaps>>

UserStep == ChangeConfig \/ ChangeMode \/ DeleteLocation \/ RecreateLocation

StoreStep == StoreFails \/ StoreRecovers

----------------------------------------------------------------------------
(* The controller: the location is checked and its phase patched. *)

ReconcileLocation ==
    /\ location.exists
    /\ location' = [location EXCEPT !.phase = IF usable THEN "Available"
                                                        ELSE "Unavailable"]
    /\ UNCHANGED <<now, usable, unseen, changes, mishaps>>

FitForDeletion == /\ location.exists
                  /\ location.phase = "Available"
                  /\ location.mode = "ReadWrite"
=============================================================================
