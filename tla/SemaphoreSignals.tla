-------------------------- MODULE SemaphoreSignals --------------------------
(***************************************************************************)
(* Semaphores whose waiters receive signals.  do_tkill takes t->lock but   *)
(* neither S->sem_lock nor any lock cond_signal holds across its steps: it *)
(* removes a sleeper from the waiting queue behind sema_signal's back.     *)
(***************************************************************************)
EXTENDS Semaphore

CONSTANTS Machines,  \* the machines to look at, records of
                     \*   smp: several harts, or one, so that spinlock sections do not interleave,
                     \*   signals: the bound on the signals sent
          Kill       \* TRUE: the signals are SIGKILL or SIGSTOP

ASSUME SignalsAssumption == Machines \subseteq [smp : BOOLEAN, signals : Nat] /\ Kill \in BOOLEAN

VARIABLE machine  \* the machine; its signals are those still to come

\* Mutant: a signalled sleeper is left on its waiting queue.
do_tkill_StaysQueued(t) ==
    /\ machine.signals > 0 /\ machine' = [machine EXCEPT !.signals = @ - 1]
    /\ pc[t] # "dead" /\ tlock[t] = None
    /\ state[t] = "SLEEPING"
    /\ wait_chan_entry' = [wait_chan_entry EXCEPT ![t] = "NULL"]
    /\ state' = [state EXCEPT ![t] = "RUNNABLE"]
    /\ UNCHANGED <<semVars, tlock, killed, pc, target, panic>>

\* do_tkill(t, signo): thread_send_signal, thread_wakeup
do_tkill(t) ==
    /\ machine.signals > 0 /\ machine' = [machine EXCEPT !.signals = @ - 1]
    /\ pc[t] # "dead" /\ tlock[t] = None
    /\ IF state[t] = "SLEEPING"
       THEN IF wait_chan_entry[t] # "NULL"
            THEN /\ waiting_queue' = Remove(waiting_queue, t)
                 /\ wait_chan_entry' = [wait_chan_entry EXCEPT ![t] = "NULL"]
                 /\ state' = [state EXCEPT ![t] = "RUNNABLE"]
                 /\ UNCHANGED panic
            ELSE panic' = "no channel" /\ UNCHANGED <<waiting_queue, wait_chan_entry, state>>
       ELSE UNCHANGED <<waiting_queue, wait_chan_entry, state, panic>>
    /\ killed' = [killed EXCEPT ![t] = @ \/ Kill]
    /\ UNCHANGED <<value, wakeup, sem_lock, held, tlock, pc, target>>

\* A thread in a section with interrupts disabled keeps its hart.
InSection(t) == pc[t] \in {"cond_wait", "swtch", "isempty", "provide", "wake"}

\* Can t execute, or an interrupt arrive?
HasHart(t) == machine.smp \/ \A u \in Thread \ {t} : ~ InSection(u)

NextSignals ==
    /\ panic = "no"
    /\ \E t \in Thread :
        \/ HasHart(t) /\ Step(t) /\ UNCHANGED machine
        \/ HasHart(t) /\ (machine.smp \/ ~ InSection(t)) /\ do_tkill(t)

allVars == <<vars, machine>>
InitSignals == Init /\ machine \in Machines
SpecSignals == InitSignals /\ [][NextSignals]_allVars

\* As in Semaphore: threads inside semaphore.c go on, and a lock is given back.
FairSpecSignals ==
    /\ SpecSignals
    /\ \A t \in Thread :
        /\ SF_allVars(panic = "no" /\ HasHart(t) /\ Progress(t) /\ UNCHANGED machine)
        /\ SF_allVars(panic = "no" /\ HasHart(t) /\ MutexUse /\ sema_signal(t) /\ UNCHANGED machine)

=============================================================================
