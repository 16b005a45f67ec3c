--------------------------- MODULE UpgradeableLock ---------------------------
(***************************************************************************)
(* UpgradeableLockGuarded (util/LockUtils.h): a shared mutex `mut` behind  *)
(* a second mutex `upgradeMut`, which everybody takes first. One operator  *)
(* is one lock or unlock operation, or two that nothing can come between.  *)
(* lock() and ReadLocked::upgrade(), which nothing in the program calls,   *)
(* are left out.                                                           *)
(***************************************************************************)
EXTENDS FiniteSets

CONSTANTS Threads, NoThread

ASSUME UpgradeableLockAssumption == NoThread \notin Threads

VARIABLES
    upgradeMut,  \* the thread that has upgradeMut
    readers,     \* the threads that have shared ownership of mut
    writer       \* the thread that has exclusive ownership of mut

lockVars == <<upgradeMut, readers, writer>>

LockInit ==
    /\ upgradeMut = NoThread
    /\ readers = {}
    /\ writer = NoThread

(* immediateLock and readLock lock upgradeMut and then share mut. A writer  *)
(* has upgradeMut (LockInv), so the second cannot block after the first.   *)
immediateLock(t) ==
    /\ upgradeMut = NoThread /\ writer = NoThread
    /\ upgradeMut' = t
    /\ readers' = readers \cup {t}
    /\ UNCHANGED writer

(* readLock gives upgradeMut back at once.                                 *)
readLock(t) ==
    /\ upgradeMut = NoThread /\ writer = NoThread
    /\ readers' = readers \cup {t}
    /\ UNCHANGED <<upgradeMut, writer>>

(* ImmediateLocked::downgrade.                                             *)
DowngradeImmediate(t) ==
    /\ upgradeMut' = NoThread
    /\ UNCHANGED <<readers, writer>>

GiveBothUp(t) ==
    /\ readers' = readers \ {t}
    /\ upgradeMut' = NoThread
    /\ UNCHANGED writer

(* ImmediateLocked::upgrade gives the shared ownership up ...              *)
BeginUpgrade(t) ==
    /\ readers' = readers \ {t}
    /\ UNCHANGED <<upgradeMut, writer>>

(* ... and waits for the exclusive one.                                    *)
NoWriter == writer = NoThread
ExclusiveFree == readers = {} /\ writer = NoThread

EndUpgrade(t) ==
    /\ ExclusiveFree
    /\ writer' = t
    /\ UNCHANGED <<upgradeMut, readers>>

(* WriteLocked::downgrade gives the exclusive ownership up, but keeps      *)
(* upgradeMut until it has the shared one.                                 *)
BeginDowngrade(t) ==
    /\ writer' = NoThread
    /\ UNCHANGED <<upgradeMut, readers>>

EndDowngrade(t) ==
    /\ writer = NoThread
    /\ readers' = readers \cup {t}
    /\ upgradeMut' = NoThread
    /\ UNCHANGED writer

(* ~ReadLocked                                                             *)
UnlockShared(t) ==
    /\ readers' = readers \ {t}
    /\ UNCHANGED <<upgradeMut, writer>>

-----------------------------------------------------------------------------
LockTypeOK ==
    /\ upgradeMut \in Threads \cup {NoThread}
    /\ readers \in SUBSET Threads
    /\ writer \in Threads \cup {NoThread}

(* A writer is alone, and it has upgradeMut.                               *)
LockInv == writer # NoThread => readers = {} /\ upgradeMut = writer
=============================================================================
