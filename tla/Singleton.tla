------------------------------ MODULE Singleton ------------------------------
(***************************************************************************)
(* CSingleton<T>::Instance: the double-checked creation of sWsMsgParse,    *)
(* sOpensslSha, sOpensslBase64 and others, which task threads call for the *)
(* first time, several at once.                                            *)
(*                                                                         *)
(* An object is the number of its allocation, 0 is NULL.  mpInstance is    *)
(* read outside the mutex while another thread writes it, a data race; in  *)
(* the build of the repository (g++ -O0 on x86-64) the reads and writes    *)
(* are single loads and stores in program order, so the pointer is stored  *)
(* after the constructor returned.  Nothing deletes an instance: mcGarbo   *)
(* is declared and never defined.                                          *)
(***************************************************************************)
EXTENDS Naturals

CONSTANTS Thread,
          NoThread      \* holder of a free mutex

ASSUME ThreadAssumption == NoThread \notin Thread

VARIABLES mpInstance,
          mcStaticMutex,    \* its holder, or NoThread
          allocated,        \* how many objects were allocated
          built,            \* the objects whose constructor returned
          pc,               \* where a thread is in Instance
          new,              \* the object a thread has allocated
          got               \* what Instance returned to a thread last

instanceVars == <<mpInstance, mcStaticMutex, allocated, built, pc, new, got>>

NULL == 0

InstanceInit ==
    /\ mpInstance = NULL
    /\ mcStaticMutex = NoThread
    /\ allocated = 0
    /\ built = {}
    /\ pc = [t \in Thread |-> "idle"]
    /\ new = [t \in Thread |-> NULL]
    /\ got = [t \in Thread |-> NULL]

Goes(t, from, to) == pc[t] = from /\ pc' = [pc EXCEPT ![t] = to]

\* Some code needs the object.
Call(t) ==
    /\ Goes(t, "idle", "check")
    /\ UNCHANGED <<mpInstance, mcStaticMutex, allocated, built, new, got>>

\* The look at mpInstance before the lock.
Check(t) ==
    /\ Goes(t, "check", IF mpInstance = NULL THEN "lock" ELSE "return")
    /\ UNCHANGED <<mpInstance, mcStaticMutex, allocated, built, new, got>>

Lock(t) ==
    /\ Goes(t, "lock", "while")
    /\ mcStaticMutex = NoThread
    /\ mcStaticMutex' = t
    /\ UNCHANGED <<mpInstance, allocated, built, new, got>>

\* Mutant: mpInstance is not looked at again under the mutex.
While_Unchecked(t) ==
    /\ Goes(t, "while", IF mpInstance # NULL /\ new[t] = mpInstance THEN "unlock" ELSE "new")
    /\ UNCHANGED <<mpInstance, mcStaticMutex, allocated, built, new, got>>

\* The look at mpInstance under the mutex.
While(t) ==
    /\ Goes(t, "while", IF mpInstance = NULL THEN "new" ELSE "unlock")
    /\ UNCHANGED <<mpInstance, mcStaticMutex, allocated, built, new, got>>

New(t) ==
    /\ Goes(t, "new", "construct")
    /\ allocated' = allocated + 1
    /\ new' = [new EXCEPT ![t] = allocated + 1]
    /\ UNCHANGED <<mpInstance, mcStaticMutex, built, got>>

\* Mutant: the pointer is stored before the constructor runs.
Construct_Published(t) ==
    /\ Goes(t, "construct", "store")
    /\ mpInstance' = new[t]
    /\ UNCHANGED <<mcStaticMutex, allocated, built, new, got>>

Construct(t) ==
    /\ Goes(t, "construct", "store")
    /\ built' = built \cup {new[t]}
    /\ UNCHANGED <<mpInstance, mcStaticMutex, allocated, new, got>>

Store(t) ==
    /\ Goes(t, "store", "while")
    /\ mpInstance' = new[t]
    /\ UNCHANGED <<mcStaticMutex, allocated, built, new, got>>

\* Mutant: the mutex is not released.
UnLock_Never(t) ==
    /\ Goes(t, "unlock", "return")
    /\ UNCHANGED <<mpInstance, mcStaticMutex, allocated, built, new, got>>

UnLock(t) ==
    /\ Goes(t, "unlock", "return")
    /\ mcStaticMutex' = NoThread
    /\ UNCHANGED <<mpInstance, allocated, built, new, got>>

\* The last read of mpInstance, outside the mutex again.
Return(t) ==
    /\ Goes(t, "return", "idle")
    /\ got' = [got EXCEPT ![t] = mpInstance]
    /\ UNCHANGED <<mpInstance, mcStaticMutex, allocated, built, new>>

Instance(t) == \/ Check(t) \/ Lock(t) \/ While(t) \/ New(t) \/ Construct(t)
               \/ Store(t) \/ UnLock(t) \/ Return(t)

InstanceNext == \E t \in Thread : Call(t) \/ Instance(t)

\* A thread that is in Instance runs.  The mutex need not be fair: a thread
\* locks it once at most, so it is free for good in the end.
InstanceFairness == \A t \in Thread : WF_instanceVars(Instance(t))

InstanceSpec == InstanceInit /\ [][InstanceNext]_instanceVars /\ InstanceFairness

-----------------------------------------------------------------------------
Pc == {"idle", "check", "lock", "while", "new", "construct", "store", "unlock", "return"}

InstanceTypeOK ==
    /\ mpInstance \in 0 .. allocated
    /\ mcStaticMutex \in Thread \cup {NoThread}
    /\ allocated \in Nat
    /\ built \subseteq 1 .. allocated
    /\ pc \in [Thread -> Pc]
    /\ new \in [Thread -> 0 .. allocated]
    /\ got \in [Thread -> 0 .. allocated]

\* However many threads find mpInstance NULL at once, one object is made.
MadeOnce == allocated <= 1

\* A thread that reads mpInstance without the mutex never gets NULL, nor an
\* object whose constructor is still running.
ReturnsBuilt == \A t \in Thread : pc[t] = "return" => mpInstance \in built

\* Every thread that asks for the object gets it: nobody keeps the mutex.
EveryCallReturns == \A t \in Thread : pc[t] = "check" ~> pc[t] = "idle"

\* The object as Once has it: it is there when its constructor has returned.
Made == IF mpInstance \in built THEN mpInstance ELSE NULL

OneObject == INSTANCE Once WITH object <- Made, None <- NULL, Object <- {1}

\* Instance implements an object that is created once, whole, before anyone
\* gets it, also the threads that read mpInstance without the mutex.
ImplementsOnce == OneObject!Spec
==============================================================================
