-------------------------- MODULE SaveJournalProofs --------------------------
(***************************************************************************)
(* Theorems about the save journal, for any set of blocks and any bounds.  *)
(***************************************************************************)
EXTENDS SaveJournal, FiniteSetTheorems, TLAPS

SaveTasks == queue \cup running
Outputs == completed \cup inbox

\* An entry carries the generation of the last unload of its block, and the
\* only voxels it may hold are those; a block without an entry is saved.
EntriesAreNewest ==
  \A k \in Keys :
    LET e == journal[k]
    IN  /\ e.voxels \in {None, e.generation}
        /\ e.generation = None => e = NoEntry /\ stored[k] = newest[k]
        /\ e.generation # None => e.generation = newest[k]
        /\ e.generation < nextGeneration
        /\ newest[k] < nextGeneration
        /\ stored[k] <= newest[k]

\* A task carries the voxels of its generation, which is the one its entry
\* has in flight and not older than what the stream holds.
TasksAreInFlight ==
  \A t \in SaveTasks :
    /\ t.generation = journal[t.key].inFlight
    /\ t.generation # None
    /\ t.voxels = t.generation
    /\ stored[t.key] <= t.generation
    /\ t.generation <= newest[t.key]

\* An output answers for the generation in flight: the stream has it, or the
\* output brings its voxels back.
OutputsAreInFlight ==
  \A o \in Outputs :
    /\ o.generation = journal[o.key].inFlight
    /\ o.generation # None
    /\ o.dropped => o.voxels = o.generation
    /\ ~o.dropped => stored[o.key] = o.generation
    /\ o.generation <= newest[o.key]

\* No block has two saves under way.
Exclusive ==
  /\ \A x, y \in SaveTasks : x.key = y.key => x = y
  /\ \A x, y \in Outputs : x.key = y.key => x = y
  /\ \A x \in SaveTasks, y \in Outputs : x.key # y.key
  /\ queue \cap running = {} /\ completed \cap inbox = {}

\* Where the newest voxels of a journaled block are.
Held(k) ==
  \/ journal[k].voxels = newest[k]
  \/ stored[k] = newest[k]
  \/ newest[k] \in lost
  \/ \E t \in SaveTasks : t.key = k /\ t.generation = newest[k]
  \/ \E o \in Outputs : o.key = k /\ o.generation = newest[k]

\* A shutdown that returned Ok has left no entry behind, and none waits for
\* the pool with outputs still to apply.
ShutdownIsFinal ==
  /\ phase \in {"dispatching", "waiting"} => inbox = {}
  /\ result # "none" => phase \in {"stopping", "closed"}
  /\ result \in {"ok", "streamError"} => \A k \in Keys : journal[k].generation = None

\* Entries are dispatched as soon as they can be: the loop of shutdown_and_flush
\* finds none left.
AllDispatched == \A k \in Keys : ~CanDispatch(journal[k])

\* An entry is queued when it has voxels to save, and a generation in flight has its save
\* under way, unless the task panicked.
WaitsForItsSave(k) ==
  /\ journal[k].queued <=> journal[k].voxels # None
  /\ journal[k].inFlight # None =>
       journal[k].inFlight \in lost \/ \E x \in SaveTasks \cup Outputs : x.key = k

JournalInv ==
  /\ TypeOK
  /\ AllDispatched
  /\ \A k \in Keys : WaitsForItsSave(k)
  /\ EntriesAreNewest
  /\ TasksAreInFlight
  /\ OutputsAreInFlight
  /\ Exclusive
  /\ \A k \in Keys : Held(k)
  /\ ShutdownIsFinal


-----------------------------------------------------------------------------

LEMMA InvInit == Init => JournalInv
<1> SUFFICES ASSUME Init PROVE JournalInv
  OBVIOUS
<1> USE JournalAssumption DEF Init, None
<1>0. NoEntry \in Entries
  BY DEF NoEntry, Entries, Generations
<1>1. TypeOK
  BY <1>0 DEF TypeOK, Generations
<1>2. EntriesAreNewest
  BY DEF EntriesAreNewest, NoEntry
<1>3. TasksAreInFlight /\ OutputsAreInFlight /\ Exclusive
  BY DEF TasksAreInFlight, OutputsAreInFlight, Exclusive, SaveTasks, Outputs
<1>4. (\A k \in Keys : Held(k)) /\ ShutdownIsFinal
  BY DEF Held, ShutdownIsFinal
<1>5. AllDispatched /\ \A k \in Keys : WaitsForItsSave(k)
  BY DEF AllDispatched, CanDispatch, WaitsForItsSave, NoEntry
<1> QED BY <1>1, <1>2, <1>3, <1>4, <1>5 DEF JournalInv

LEMMA GenerationsFact == None \in Generations
  BY JournalAssumption DEF None, Generations

\* The types of what the arithmetic of generations is about.
LEMMA Typed ==
  ASSUME TypeOK
  PROVE  /\ nextGeneration \in Nat /\ None \in Nat
         /\ \A k \in Keys :
              /\ journal[k] \in Entries /\ stored[k] \in Nat /\ newest[k] \in Nat
              /\ journal[k].generation \in Nat /\ journal[k].inFlight \in Nat
              /\ journal[k].voxels \in Nat
         /\ \A x \in SaveTasks \cup Outputs :
              x.key \in Keys /\ x.generation \in Nat /\ x.voxels \in Nat
         /\ \A o \in Outputs : o.dropped \in BOOLEAN
<1>1. Generations \subseteq Nat /\ None \in Nat
  BY JournalAssumption DEF Generations, None
<1>2. nextGeneration \in Nat
  BY JournalAssumption DEF TypeOK
<1>3. \A k \in Keys :
        /\ journal[k] \in Entries /\ stored[k] \in Nat /\ newest[k] \in Nat
        /\ journal[k].generation \in Nat /\ journal[k].inFlight \in Nat
        /\ journal[k].voxels \in Nat
  BY <1>1 DEF TypeOK, Entries
<1>4. /\ \A x \in SaveTasks : x.key \in Keys /\ x.generation \in Nat /\ x.voxels \in Nat
      /\ \A o \in Outputs : /\ o.key \in Keys /\ o.generation \in Nat /\ o.voxels \in Nat
                           /\ o.dropped \in BOOLEAN
  BY <1>1 DEF TypeOK, SaveTasks, Outputs, TasksOf, OutputsOf
<1> QED BY <1>1, <1>2, <1>3, <1>4

LEMMA EntryFields ==
  ASSUME NEW e \in Entries
  PROVE  /\ e.generation \in Generations /\ e.queued \in BOOLEAN
         /\ e.inFlight \in Generations /\ e.voxels \in Generations
  BY DEF Entries

LEMMA DispatchedFields ==
  ASSUME NEW e \in Entries
  PROVE  /\ Dispatched(e) \in Entries
         /\ Dispatched(e).generation = e.generation
         /\ Dispatched(e).inFlight = e.generation
         /\ Dispatched(e).voxels = None
         /\ Dispatched(e).queued = FALSE
  BY GenerationsFact DEF Entries, Dispatched

LEMMA FiledFields ==
  ASSUME NEW e \in Entries, NEW g \in Generations
  PROVE  /\ Filed(e, g) \in Entries
         /\ Filed(e, g).generation = g
         /\ Filed(e, g).inFlight = e.inFlight
         /\ Filed(e, g).voxels = g
         /\ Filed(e, g).queued = TRUE
  BY DEF Entries, Filed

\* Filing an entry and dispatching it: what becomes of its voxels.
LEMMA FileAndDispatchType ==
  ASSUME TypeOK, NEW k \in Keys, NEW e \in Entries, FileAndDispatch(k, e)
  PROVE  /\ journal' \in [Keys -> Entries]
         /\ queue' \subseteq TasksOf
         /\ \A j \in Keys \ {k} : journal'[j] = journal[j]
         /\ journal'[k] \in Entries
         /\ journal'[k].generation = e.generation
         /\ ~CanDispatch(journal'[k])
         /\ AllDispatched => AllDispatched'
         /\ (e.queued <=> e.voxels # None) => (journal'[k].queued <=> journal'[k].voxels # None)
         /\ ~CanDispatch(e) => journal'[k] = e /\ queue' = queue
         /\ CanDispatch(e) => /\ e.inFlight = None
                              /\ journal'[k].voxels = None
                              /\ journal'[k].inFlight = e.generation
                              /\ queue' = queue \cup {SaveTask(k, e)}
                              /\ SaveTask(k, e) \in TasksOf
                              /\ SaveTask(k, e).key = k
                              /\ SaveTask(k, e).generation = e.generation
                              /\ SaveTask(k, e).voxels = e.voxels
                              /\ e.voxels # None
<1>1. CASE CanDispatch(e)
  <2>1. SaveTask(k, e) \in TasksOf
    BY EntryFields DEF SaveTask, TasksOf
  <2>2. /\ journal' = [journal EXCEPT ![k] = Dispatched(e)]
        /\ queue' = queue \cup {SaveTask(k, e)}
    BY <1>1 DEF FileAndDispatch
  <2>3. journal' \in [Keys -> Entries] /\ journal'[k] = Dispatched(e)
        /\ \A j \in Keys \ {k} : journal'[j] = journal[j]
    BY <2>2, DispatchedFields DEF TypeOK
  <2>4. ~CanDispatch(journal'[k])
    BY <2>3, DispatchedFields DEF CanDispatch
  <2>5. AllDispatched => AllDispatched'
    BY <2>3, <2>4 DEF AllDispatched, CanDispatch
  <2>6. queue' \subseteq TasksOf
    BY <2>1, <2>2 DEF TypeOK
  <2>7. e.inFlight = None /\ e.voxels # None
    BY <1>1 DEF CanDispatch
  <2>8. SaveTask(k, e).key = k /\ SaveTask(k, e).generation = e.generation
        /\ SaveTask(k, e).voxels = e.voxels
    BY DEF SaveTask
  <2> QED BY <1>1, <2>1, <2>2, <2>3, <2>4, <2>5, <2>6, <2>7, <2>8, DispatchedFields
<1>2. CASE ~CanDispatch(e)
  <2>1. journal' \in [Keys -> Entries] /\ journal'[k] = e /\ queue' = queue
        /\ \A j \in Keys \ {k} : journal'[j] = journal[j]
    BY <1>2 DEF FileAndDispatch, TypeOK
  <2>2. AllDispatched => AllDispatched'
    BY <1>2, <2>1 DEF AllDispatched, CanDispatch
  <2> QED BY <1>2, <2>1, <2>2 DEF TypeOK
<1> QED BY <1>1, <1>2

\* An unload: the new generation is newer than everything under way.
LEMMA InvEnqueue ==
  ASSUME JournalInv, NEW k \in Keys, EnqueueDataSave(k)
  PROVE  JournalInv'
<1> DEFINE g == nextGeneration
           e == Filed(journal[k], g)
<1>1. /\ g \in Nat /\ 1 <= g /\ g <= MaxGeneration /\ phase = "open" /\ inbox = {}
      /\ FileAndDispatch(k, e)
      /\ nextGeneration' = g + 1 /\ newest' = [newest EXCEPT ![k] = g]
      /\ UNCHANGED <<running, completed, inbox, stored, shutdownVars, lost, errors>>
  BY JournalAssumption DEF EnqueueDataSave, JournalInv, TypeOK
<1>0. g \in Generations /\ g # None /\ journal[k] \in Entries
  BY <1>1, JournalAssumption DEF JournalInv, TypeOK, Generations, None
<1>2. /\ e \in Entries
      /\ e.generation = g /\ e.voxels = g /\ e.inFlight = journal[k].inFlight /\ e.queued
  BY <1>0, FiledFields
<1> HIDE DEF g, e
<1>a. /\ journal' \in [Keys -> Entries] /\ queue' \subseteq TasksOf
      /\ \A j \in Keys \ {k} : journal'[j] = journal[j]
      /\ journal'[k].generation = g /\ journal'[k].voxels \in {None, g}
  BY <1>1, <1>2, FileAndDispatchType DEF JournalInv
<1>3. TypeOK'
  <2>1. nextGeneration' \in 1 .. MaxGeneration + 1
    BY <1>1, JournalAssumption
  <2>2. newest' \in [Keys -> Generations]
    BY <1>0, <1>1 DEF JournalInv, TypeOK
  <2> QED BY <1>1, <1>a, <2>1, <2>2 DEF JournalInv, TypeOK, shutdownVars
<1>b. newest'[k] = g /\ \A j \in Keys \ {k} : newest'[j] = newest[j]
  BY <1>1 DEF JournalInv, TypeOK
<1>c. g = nextGeneration
  BY DEF g
<1>d. journal'[k].queued <=> journal'[k].voxels # None
  BY <1>0, <1>1, <1>2, FileAndDispatchType DEF JournalInv
<1>4. EntriesAreNewest'
  BY <1>0, <1>1, <1>a, <1>b, <1>c, Typed DEF JournalInv, EntriesAreNewest
<1>9. ShutdownIsFinal' /\ AllDispatched'
  BY <1>1, <1>2, FileAndDispatchType DEF JournalInv, ShutdownIsFinal, shutdownVars
\* Either the entry waits for the save under way, or a task is added to none.
<1>5. CASE ~CanDispatch(e)
  <2>1. journal'[k].inFlight = journal[k].inFlight /\ journal'[k].voxels = g /\ queue' = queue
    BY <1>1, <1>2, <1>5, FileAndDispatchType DEF JournalInv
  <2>2. SaveTasks' = SaveTasks /\ Outputs' = Outputs
        /\ \A j \in Keys : journal'[j].inFlight = journal[j].inFlight
    BY <1>1, <1>a, <2>1 DEF SaveTasks, Outputs
  <2>3. TasksAreInFlight' /\ OutputsAreInFlight'
    BY <1>1, <1>b, <1>c, <2>2, Typed
       DEF JournalInv, TasksAreInFlight, OutputsAreInFlight, EntriesAreNewest
  <2>4. Exclusive'
    BY <1>1, <2>1, <2>2 DEF JournalInv, Exclusive
  <2>5. \A j \in Keys : Held(j)'
    BY <1>1, <1>a, <1>b, <2>1, <2>2 DEF JournalInv, Held
  <2>6. \A j \in Keys : WaitsForItsSave(j)'
    BY <1>1, <1>a, <1>d, <2>1, <2>2 DEF JournalInv, WaitsForItsSave
  <2> QED BY <1>3, <1>4, <1>9, <2>3, <2>4, <2>5, <2>6 DEF JournalInv
<1>6. CASE CanDispatch(e)
  <2> DEFINE t == SaveTask(k, e)
  <2>1. /\ journal[k].inFlight = None /\ journal'[k].inFlight = g
        /\ queue' = queue \cup {t} /\ t.key = k /\ t.generation = g /\ t.voxels = g
    BY <1>1, <1>2, <1>6, FileAndDispatchType DEF JournalInv
  <2> HIDE DEF t
  <2>2. \A x \in SaveTasks \cup Outputs : x.key # k
    BY <2>1 DEF JournalInv, TasksAreInFlight, OutputsAreInFlight
  <2>3. SaveTasks' = SaveTasks \cup {t} /\ Outputs' = Outputs
    BY <1>1, <2>1 DEF SaveTasks, Outputs
  <2>4. TasksAreInFlight' /\ OutputsAreInFlight'
    BY <1>0, <1>1, <1>a, <1>b, <1>c, <2>1, <2>2, <2>3, Typed
       DEF JournalInv, TasksAreInFlight, OutputsAreInFlight, EntriesAreNewest
  <2>5. Exclusive'
    BY <1>1, <2>1, <2>2, <2>3 DEF JournalInv, Exclusive, SaveTasks
  <2>6. \A j \in Keys : Held(j)'
    BY <1>1, <1>a, <1>b, <2>1, <2>2, <2>3 DEF JournalInv, Held
  <2>7. \A j \in Keys : WaitsForItsSave(j)'
    BY <1>1, <1>a, <1>d, <2>1, <2>3 DEF JournalInv, WaitsForItsSave
  <2> QED BY <1>3, <1>4, <1>9, <2>4, <2>5, <2>6, <2>7 DEF JournalInv
<1> QED BY <1>5, <1>6

\* What applying an output makes of the entry: nothing in flight, and the
\* newest voxels in the stream, lost by a panic, or back in the entry.
LEMMA AfterSaveFields ==
  ASSUME JournalInv, NEW o \in inbox, NEW c, NEW e,
         c = [journal[o.key] EXCEPT !.inFlight = None],
         e = AfterSave(c, o)
  PROVE  /\ IsInFlight(o) /\ o.key \in Keys
         /\ e \in Entries
         /\ e.inFlight = None
         /\ e.voxels \in {None, e.generation}
         /\ e.queued <=> e.voxels # None
         /\ \/ e = NoEntry /\ e.generation = None /\ stored[o.key] = newest[o.key]
            \/ e.generation = newest[o.key] /\ e.generation # None
         /\ \/ e.voxels = newest[o.key]
            \/ stored[o.key] = newest[o.key]
            \/ newest[o.key] \in lost
         /\ \A x \in SaveTasks : x.key # o.key
         /\ \A x \in Outputs : x # o => x.key # o.key
<1> DEFINE k == o.key
           old == journal[k]
<1>1. /\ o \in Outputs /\ k \in Keys /\ old \in Entries
      /\ o.generation = old.inFlight /\ o.generation # None /\ o.generation \in Generations
      /\ o.voxels \in Generations /\ o.dropped \in BOOLEAN
  BY Typed DEF JournalInv, OutputsAreInFlight, Outputs, TypeOK, OutputsOf
<1>2. /\ c \in Entries /\ c.inFlight = None /\ c.generation = old.generation
      /\ c.voxels = old.voxels /\ c.queued = old.queued
  BY <1>1, GenerationsFact DEF Entries
<1>3. /\ old.generation # None /\ old.generation = newest[k]
      /\ old.voxels \in {None, old.generation}
  <2>1. old.generation # None
    BY <1>1 DEF JournalInv, EntriesAreNewest, NoEntry
  <2> QED BY <1>1, <2>1 DEF JournalInv, EntriesAreNewest
<1>4. /\ \A x \in SaveTasks : x.key # k
      /\ \A x \in Outputs : x # o => x.key # k
  BY <1>1 DEF JournalInv, Exclusive
<1>5. IsInFlight(o)
  BY <1>1, <1>3 DEF IsInFlight
<1>9. c.queued <=> c.voxels # None
  BY <1>1, <1>2 DEF JournalInv, WaitsForItsSave
<1>6. CASE o.generation # c.generation
  <2>1. e = c
    BY <1>6 DEF AfterSave
  <2>2. o.generation # newest[k]
    BY <1>2, <1>3, <1>6
  <2>3. old.voxels = newest[k] \/ stored[k] = newest[k] \/ newest[k] \in lost
    BY <1>1, <1>4, <2>2 DEF JournalInv, Held
  <2> QED BY <1>1, <1>2, <1>3, <1>4, <1>5, <1>9, <2>1, <2>3
<1>7. CASE o.generation = c.generation /\ o.dropped
  <2>1. e = Restored(c, o) /\ o.voxels = c.generation
    BY <1>1, <1>7 DEF AfterSave, JournalInv, OutputsAreInFlight
  <2>2. /\ e \in Entries /\ e.inFlight = None /\ e.generation = c.generation
        /\ e.voxels = c.generation /\ (e.queued <=> e.voxels # None)
    BY <1>1, <1>2, <1>3, <2>1, GenerationsFact DEF Restored, Entries
  <2> QED BY <1>1, <1>2, <1>3, <1>4, <1>5, <2>2
<1>8. CASE o.generation = c.generation /\ ~o.dropped
  <2>1. e \in {c, NoEntry} /\ stored[k] = newest[k]
    BY <1>1, <1>2, <1>3, <1>8 DEF AfterSave, JournalInv, OutputsAreInFlight
  <2>2. NoEntry \in Entries /\ NoEntry.inFlight = None /\ NoEntry.voxels = None
        /\ NoEntry.generation = None /\ ~NoEntry.queued
    BY GenerationsFact DEF NoEntry, Entries
  <2> QED BY <1>1, <1>2, <1>3, <1>4, <1>5, <1>9, <2>1, <2>2
<1> QED BY <1>1, <1>6, <1>7, <1>8

\* An output is applied: the entry is removed, kept, or dispatched again.
LEMMA InvApply ==
  ASSUME JournalInv, NEW o \in inbox, ApplySaveResponse(o)
  PROVE  JournalInv'
<1> DEFINE k == o.key
           e == AfterSave([journal[k] EXCEPT !.inFlight = None], o)
<1>1. /\ k \in Keys /\ e \in Entries /\ e.inFlight = None
      /\ e.voxels \in {None, e.generation}
      /\ \/ e = NoEntry /\ e.generation = None /\ stored[k] = newest[k]
         \/ e.generation = newest[k] /\ e.generation # None
      /\ \/ e.voxels = newest[k] \/ stored[k] = newest[k] \/ newest[k] \in lost
      /\ \A x \in SaveTasks : x.key # k
      /\ \A x \in Outputs : x # o => x.key # k
  BY AfterSaveFields
<1>2. /\ inbox' = inbox \ {o}
      /\ FileAndDispatch(k, e)
      /\ UNCHANGED <<nextGeneration, running, completed, stored, shutdownVars, historyVars>>
  BY AfterSaveFields DEF ApplySaveResponse
<1> HIDE DEF e
<1>3. /\ journal' \in [Keys -> Entries] /\ queue' \subseteq TasksOf
      /\ \A j \in Keys \ {k} : journal'[j] = journal[j]
      /\ journal'[k].generation = e.generation
      /\ journal'[k].voxels \in {None, e.generation}
      /\ ~CanDispatch(e) => journal'[k] = e /\ queue' = queue
      /\ CanDispatch(e) => /\ journal'[k].inFlight = e.generation
                           /\ queue' = queue \cup {SaveTask(k, e)}
                           /\ SaveTask(k, e).key = k
                           /\ SaveTask(k, e).generation = e.generation
                           /\ SaveTask(k, e).voxels = e.generation
                           /\ e.generation # None
  BY <1>1, <1>2, FileAndDispatchType DEF JournalInv
<1>4. TypeOK'
  BY <1>2, <1>3 DEF JournalInv, TypeOK, shutdownVars, historyVars
<1>5. EntriesAreNewest'
  <2>1. e = NoEntry => ~CanDispatch(e)
    BY DEF CanDispatch, NoEntry
  <2>2. UNCHANGED <<stored, newest, nextGeneration>>
    BY <1>2 DEF historyVars
  <2>3. \A j \in Keys \ {k} : journal'[j] = journal[j]
    BY <1>3
  <2>4. newest[k] < nextGeneration /\ journal[k].generation < nextGeneration
    BY <1>1 DEF JournalInv, EntriesAreNewest
  <2>5. e.generation < nextGeneration
    BY <1>1, <2>4, Typed DEF JournalInv, None
  <2>6. /\ journal'[k].voxels \in {None, journal'[k].generation}
        /\ journal'[k].generation = None => journal'[k] = NoEntry /\ stored[k] = newest[k]
        /\ journal'[k].generation # None => journal'[k].generation = newest[k]
        /\ journal'[k].generation < nextGeneration
    BY <1>1, <1>3, <2>1, <2>5
  <2> QED BY <2>2, <2>3, <2>6 DEF JournalInv, EntriesAreNewest
<1>6. ShutdownIsFinal'
  BY <1>1, <1>2, <1>3, AfterSaveFields DEF JournalInv, ShutdownIsFinal, shutdownVars, IsInFlight
<1>7. Outputs' = Outputs \ {o}
  BY <1>2 DEF Outputs, JournalInv, Exclusive
<1>10. AllDispatched' /\ (journal'[k].queued <=> journal'[k].voxels # None)
  BY <1>1, <1>2, FileAndDispatchType, AfterSaveFields DEF JournalInv, e
<1>8. CASE ~CanDispatch(e)
  <2>1. SaveTasks' = SaveTasks
    BY <1>2, <1>3, <1>8 DEF SaveTasks
  <2>2. TasksAreInFlight' /\ OutputsAreInFlight'
    BY <1>1, <1>2, <1>3, <1>7, <2>1, Typed
       DEF JournalInv, TasksAreInFlight, OutputsAreInFlight, historyVars
  <2>3. Exclusive'
    BY <1>2, <1>3, <1>7, <1>8, <2>1 DEF JournalInv, Exclusive
  <2>5. \A j \in Keys : WaitsForItsSave(j)'
    BY <1>1, <1>2, <1>3, <1>7, <1>8, <1>10, <2>1 DEF JournalInv, WaitsForItsSave, historyVars
  <2>4. \A j \in Keys : Held(j)'
    BY <1>1, <1>2, <1>3, <1>7, <1>8, <2>1 DEF JournalInv, Held, historyVars
  <2> QED BY <1>4, <1>5, <1>6, <1>10, <2>2, <2>3, <2>4, <2>5 DEF JournalInv
<1>9. CASE CanDispatch(e)
  <2> DEFINE t == SaveTask(k, e)
  <2>1. /\ SaveTasks' = SaveTasks \cup {t} /\ t.key = k
        /\ t.generation = e.generation /\ t.voxels = e.generation
        /\ journal'[k].inFlight = e.generation
        /\ e.generation = newest[k] /\ e.generation # None
        /\ queue' = queue \cup {t}
    BY <1>1, <1>2, <1>3, <1>9 DEF SaveTasks
  <2> HIDE DEF t
  <2>2. TasksAreInFlight' /\ OutputsAreInFlight'
    BY <1>1, <1>2, <1>3, <1>7, <2>1, Typed
       DEF JournalInv, TasksAreInFlight, OutputsAreInFlight, historyVars, EntriesAreNewest
  <2>3. Exclusive'
    BY <1>1, <1>2, <1>7, <2>1 DEF JournalInv, Exclusive, SaveTasks
  <2>5. \A j \in Keys : WaitsForItsSave(j)'
    BY <1>1, <1>2, <1>3, <1>7, <1>10, <2>1 DEF JournalInv, WaitsForItsSave, historyVars
  <2>4. \A j \in Keys : Held(j)'
    BY <1>1, <1>2, <1>3, <1>7, <2>1 DEF JournalInv, Held, historyVars
  <2> QED BY <1>4, <1>5, <1>6, <1>10, <2>2, <2>3, <2>4, <2>5 DEF JournalInv
<1> QED BY <1>8, <1>9

\* A task starts: it moves from the queue to the running one.
LEMMA InvStart ==
  ASSUME JournalInv, NEW t \in queue, StartSave(t)
  PROVE  JournalInv'
<1>1. /\ queue' = queue \ {t} /\ running = {} /\ running' = {t}
      /\ UNCHANGED <<journalVars, completed, inbox, stored, shutdownVars, historyVars>>
  BY DEF StartSave
<1>2. SaveTasks' = SaveTasks /\ Outputs' = Outputs
  BY <1>1 DEF SaveTasks, Outputs
<1>3. TypeOK'
  BY <1>1 DEF JournalInv, TypeOK, journalVars, shutdownVars, historyVars
<1>4. Exclusive'
  BY <1>1, <1>2 DEF JournalInv, Exclusive
<1>5. EntriesAreNewest' /\ TasksAreInFlight' /\ OutputsAreInFlight' /\ AllDispatched'
  BY <1>1, <1>2 DEF JournalInv, EntriesAreNewest, TasksAreInFlight, OutputsAreInFlight,
                    AllDispatched, CanDispatch, journalVars, historyVars
<1>6. (\A k \in Keys : Held(k)' /\ WaitsForItsSave(k)') /\ ShutdownIsFinal'
  BY <1>1, <1>2 DEF JournalInv, Held, WaitsForItsSave, ShutdownIsFinal, journalVars, historyVars, shutdownVars
<1> QED BY <1>3, <1>4, <1>5, <1>6 DEF JournalInv

\* A task ends: its voxels are in the stream, in its output, or lost.
LEMMA InvEnd ==
  ASSUME JournalInv, NEW t \in running,
         SaveSucceeds(t) \/ SaveFails(t) \/ SavePanics(t)
  PROVE  JournalInv'
<1> DEFINE k == t.key
           new == Outputs' \ Outputs
<1>1. /\ t \in SaveTasks /\ k \in Keys /\ t.generation \in Generations
      /\ t.generation \in Nat /\ stored[k] \in Nat /\ newest[k] \in Nat
      /\ t.voxels = t.generation /\ t.generation # None
      /\ t.generation = journal[k].inFlight
      /\ stored[k] <= t.generation /\ t.generation <= newest[k]
      /\ \A x \in SaveTasks : x # t => x.key # k
      /\ \A x \in Outputs : x.key # k
  BY Typed DEF JournalInv, TypeOK, TasksOf, TasksAreInFlight, SaveTasks, Exclusive
<1>2. /\ running' = running \ {t}
      /\ UNCHANGED <<journalVars, queue, inbox, shutdownVars, newest>>
      /\ stored' \in {stored, [stored EXCEPT ![k] = t.generation]}
  BY <1>1 DEF SaveSucceeds, SaveFails, SavePanics, EndTask, MaybeStored
<1>3. SaveTasks' = SaveTasks \ {t}
  BY <1>2 DEF SaveTasks, JournalInv, Exclusive
<1>4. /\ stored' \in [Keys -> Generations]
      /\ \A j \in Keys \ {k} : stored'[j] = stored[j]
      /\ stored'[k] \in {stored[k], t.generation}
  BY <1>1, <1>2 DEF JournalInv, TypeOK
\* The one output there may be.
<1>5. \/ completed' = completed /\ lost' = lost \cup {t.generation}
      \/ \E o \in OutputsOf :
           /\ completed' = completed \cup {o} /\ o.key = k /\ o.generation = t.generation
           /\ o.dropped => o.voxels = t.generation
           /\ ~o.dropped => stored'[k] = t.generation
           /\ lost' = lost
  <2>1. \A b \in BOOLEAN : /\ Output(t, b) \in OutputsOf
                           /\ Output(t, b).key = k /\ Output(t, b).generation = t.generation
                           /\ Output(t, b).dropped = b
                           /\ b => Output(t, b).voxels = t.generation
    BY <1>1, GenerationsFact DEF Output, OutputsOf
  <2>2. CASE SaveSucceeds(t)
    <3>1. completed' = completed \cup {Output(t, FALSE)} /\ lost' = lost
          /\ stored' = [stored EXCEPT ![k] = t.generation]
      BY <1>1, <2>2 DEF SaveSucceeds, EndTask
    <3>2. stored'[k] = t.generation
      BY <1>1, <3>1 DEF JournalInv, TypeOK
    <3> QED BY <2>1, <3>1, <3>2
  <2>3. CASE SaveFails(t)
    <3>1. completed' = completed \cup {Output(t, TRUE)} /\ lost' = lost
      BY <2>3 DEF SaveFails, EndTask
    <3> QED BY <2>1, <3>1
  <2>4. CASE SavePanics(t)
    BY <1>1, <2>4 DEF SavePanics, EndTask
  <2> QED BY <2>2, <2>3, <2>4
<1>6. /\ completed' \subseteq OutputsOf /\ lost' \subseteq Generations /\ errors' \in Nat
      /\ lost \subseteq lost'
  <2>1. errors' \in Nat
    BY DEF JournalInv, TypeOK, SaveSucceeds, SaveFails, SavePanics
  <2> QED BY <1>1, <1>5, <2>1 DEF JournalInv, TypeOK
<1>7. TypeOK'
  BY <1>2, <1>4, <1>6 DEF JournalInv, TypeOK, journalVars, shutdownVars
<1>8. EntriesAreNewest'
  <2>1. journal[k].generation # None
    BY <1>1 DEF JournalInv, EntriesAreNewest, NoEntry
  <2>2. UNCHANGED <<journal, nextGeneration, newest>>
    BY <1>2 DEF journalVars
  <2> QED BY <1>1, <1>4, <2>1, <2>2, Typed DEF JournalInv, EntriesAreNewest
<1>9. TasksAreInFlight'
  BY <1>1, <1>2, <1>3, <1>4, Typed DEF JournalInv, TasksAreInFlight, journalVars
<1>10. /\ \A x \in Outputs : x \in Outputs'
       /\ \A x \in Outputs' : x \notin Outputs =>
            /\ x.key = k /\ x.generation = t.generation
            /\ x.dropped => x.voxels = t.generation
            /\ ~x.dropped => stored'[k] = t.generation
       /\ \A x, y \in Outputs' : x \notin Outputs /\ y \notin Outputs => x = y
  BY <1>2, <1>5 DEF Outputs
<1>11. OutputsAreInFlight'
  BY <1>1, <1>2, <1>4, <1>10, Typed DEF JournalInv, OutputsAreInFlight, journalVars
<1>12. Exclusive'
  <2>1. queue' \cap running' = {}
    BY <1>2 DEF JournalInv, Exclusive
  <2>2. completed' \cap inbox' = {}
    BY <1>1, <1>2, <1>5 DEF JournalInv, Exclusive, Outputs
  <2>3. \A x, y \in SaveTasks' : x.key = y.key => x = y
    BY <1>3 DEF JournalInv, Exclusive
  <2>4. \A x, y \in Outputs' : x.key = y.key => x = y
    BY <1>1, <1>10 DEF JournalInv, Exclusive
  <2>5. \A x \in SaveTasks', y \in Outputs' : x.key # y.key
    BY <1>1, <1>3, <1>10 DEF JournalInv, Exclusive
  <2> QED BY <2>1, <2>2, <2>3, <2>4, <2>5 DEF Exclusive
<1>13. ASSUME NEW j \in Keys PROVE Held(j)'
  <2>1. Held(j) /\ UNCHANGED <<journal, newest>>
    BY <1>2 DEF JournalInv, journalVars
  <2>2. CASE j # k
    BY <1>1, <1>3, <1>4, <1>6, <1>10, <2>1, <2>2 DEF Held
  <2>3. CASE j = k
    <3>1. journal[k].voxels = newest[k] \/ stored[k] = newest[k] \/ newest[k] \in lost
          \/ t.generation = newest[k]
      BY <1>1, <2>1, <2>3 DEF Held
    <3>2. stored[k] = newest[k] => stored'[k] = newest[k]
      BY <1>1, <1>4
    <3>3. t.generation = newest[k] =>
            newest[k] \in lost' \/ \E o \in Outputs' : o.key = k /\ o.generation = newest[k]
      BY <1>2, <1>5 DEF Outputs
    <3> QED BY <1>6, <2>1, <2>3, <3>1, <3>2, <3>3 DEF Held
  <2> QED BY <2>2, <2>3
<1>15. ASSUME NEW j \in Keys PROVE WaitsForItsSave(j)'
  <2>1. WaitsForItsSave(j) /\ UNCHANGED journal
    BY <1>2 DEF JournalInv, journalVars
  <2>2. \/ t.generation \in lost'
        \/ \E x \in Outputs' : x.key = k
    BY <1>2, <1>5 DEF Outputs
  <2>3. CASE j # k
    BY <1>3, <1>6, <1>10, <2>1, <2>3 DEF WaitsForItsSave
  <2>4. CASE j = k
    BY <1>1, <2>1, <2>2, <2>4 DEF WaitsForItsSave
  <2> QED BY <2>3, <2>4
<1>14. ShutdownIsFinal' /\ AllDispatched'
  BY <1>2 DEF JournalInv, ShutdownIsFinal, AllDispatched, CanDispatch, journalVars, shutdownVars
<1> QED BY <1>7, <1>8, <1>9, <1>11, <1>12, <1>13, <1>14, <1>15 DEF JournalInv

\* Draining moves the outputs, when none is left to apply.
LEMMA InvDrain ==
  ASSUME JournalInv, inbox = {}, inbox' = completed, completed' = {},
         UNCHANGED <<journalVars, queue, running, stored, historyVars, result, unsaved>>,
         UNCHANGED attempt,
         (phase = "open" /\ UNCHANGED phase) \/ (phase = "waiting" /\ phase' = "applying")
  PROVE  JournalInv'
<1>1. SaveTasks' = SaveTasks /\ Outputs' = Outputs
  BY DEF SaveTasks, Outputs
<1>2. TypeOK'
  BY DEF JournalInv, TypeOK, journalVars, historyVars
<1>3. EntriesAreNewest' /\ TasksAreInFlight' /\ OutputsAreInFlight' /\ Exclusive'
      /\ AllDispatched'
  BY <1>1 DEF JournalInv, EntriesAreNewest, TasksAreInFlight, OutputsAreInFlight, Exclusive,
              AllDispatched, CanDispatch, journalVars, historyVars
<1>4. (\A k \in Keys : Held(k)' /\ WaitsForItsSave(k)') /\ ShutdownIsFinal'
  BY <1>1 DEF JournalInv, Held, WaitsForItsSave, ShutdownIsFinal, journalVars, historyVars
<1> QED BY <1>2, <1>3, <1>4 DEF JournalInv

\* Steps of shutdown_and_flush that only move its own control.
LEMMA InvControl ==
  ASSUME JournalInv, UNCHANGED <<journalVars, poolVars, inbox, stored, historyVars>>,
         TypeOK', ShutdownIsFinal'
  PROVE  JournalInv'
<1>1. SaveTasks' = SaveTasks /\ Outputs' = Outputs
  BY DEF SaveTasks, Outputs, poolVars
<1>2. EntriesAreNewest' /\ TasksAreInFlight' /\ OutputsAreInFlight' /\ Exclusive'
      /\ AllDispatched'
  BY <1>1 DEF JournalInv, EntriesAreNewest, TasksAreInFlight, OutputsAreInFlight, Exclusive,
              AllDispatched, CanDispatch, journalVars, historyVars, poolVars
<1>3. \A k \in Keys : Held(k)' /\ WaitsForItsSave(k)'
  BY <1>1 DEF JournalInv, Held, WaitsForItsSave, journalVars, historyVars
<1> QED BY <1>2, <1>3 DEF JournalInv

\* The journal has finitely many entries: their count is a number.
LEMMA InvShutdown ==
  ASSUME JournalInv, BeginShutdown \/ ShutdownStep
  PROVE  JournalInv'
<1> USE JournalAssumption
<1>1. CASE BeginShutdown
  <2>1. TypeOK' /\ ShutdownIsFinal'
    BY <1>1 DEF JournalInv, TypeOK, ShutdownIsFinal, BeginShutdown, journalVars, poolVars, historyVars
  <2> QED BY <1>1, <2>1, InvControl DEF BeginShutdown
<1>2. CASE DispatchQueuedSaves
  <2>1. {k \in Keys : CanDispatch(journal[k])} = {}
    BY DEF JournalInv, AllDispatched
  <2>2. journal' = [k \in Keys |-> journal[k]] /\ queue' = queue
    BY <1>2, <2>1 DEF DispatchQueuedSaves
  <2>3. journal' = journal
    BY <2>2 DEF JournalInv, TypeOK
  <2>4. TypeOK' /\ ShutdownIsFinal'
    BY <1>2, <2>2, <2>3 DEF JournalInv, TypeOK, ShutdownIsFinal, DispatchQueuedSaves, historyVars
  <2> QED BY <1>2, <2>2, <2>3, <2>4, InvControl DEF DispatchQueuedSaves, journalVars, poolVars
<1>3. CASE DrainAfterWait
  <2>1. inbox = {}
    BY <1>3 DEF DrainAfterWait, JournalInv, ShutdownIsFinal
  <2> QED BY <1>3, <2>1, InvDrain DEF DrainAfterWait
<1>4. CASE NextAttempt
  <2>1. TypeOK' /\ ShutdownIsFinal'
    BY <1>4 DEF JournalInv, TypeOK, ShutdownIsFinal, NextAttempt, MayRetry, journalVars, poolVars, historyVars
  <2> QED BY <1>4, <2>1, InvControl DEF NextAttempt
<1>5. CASE Flush
  <2>1. TypeOK' /\ ShutdownIsFinal'
    BY <1>5 DEF JournalInv, TypeOK, ShutdownIsFinal, Flush, NothingJournaled, Journaled, journalVars, poolVars, historyVars
  <2> QED BY <1>5, <2>1, InvControl DEF Flush
<1>6. CASE ReportUnsaved
  <2>1. IsFiniteSet(Journaled)
    BY FS_Subset DEF Journaled
  <2>2. unsaved' \in Nat
    BY <1>6, <2>1, FS_CardinalityType DEF ReportUnsaved
  <2>3. TypeOK' /\ ShutdownIsFinal'
    BY <1>6, <2>2 DEF JournalInv, TypeOK, ShutdownIsFinal, ReportUnsaved, journalVars, poolVars, historyVars
  <2> QED BY <1>6, <2>3, InvControl DEF ReportUnsaved
<1>7. CASE StopPool
  <2>1. TypeOK' /\ ShutdownIsFinal'
    BY <1>7 DEF JournalInv, TypeOK, ShutdownIsFinal, StopPool, journalVars, poolVars, historyVars
  <2> QED BY <1>7, <2>1, InvControl DEF StopPool
<1> QED BY <1>1, <1>2, <1>3, <1>4, <1>5, <1>6, <1>7 DEF ShutdownStep

LEMMA InvNext ==
  ASSUME JournalInv, [Next]_vars
  PROVE  JournalInv'
<1>1. CASE \E k \in Keys : EnqueueDataSave(k)
  BY <1>1, InvEnqueue
<1>3. CASE DrainCompletedTasks
  BY <1>3, InvDrain DEF DrainCompletedTasks, shutdownVars
<1>4. CASE \E o \in inbox : ApplySaveResponse(o)
  BY <1>4, InvApply
<1>5. CASE SaveStep
  BY <1>5, InvStart, InvEnd DEF SaveStep, StartSave, SaveSucceeds, SaveFails, SavePanics, EndTask
<1>6. CASE BeginShutdown \/ ShutdownStep
  BY <1>6, InvShutdown
<1>7. CASE UNCHANGED vars
  <2>1. TypeOK' /\ ShutdownIsFinal'
    BY <1>7 DEF JournalInv, TypeOK, ShutdownIsFinal, vars, journalVars, poolVars, shutdownVars, historyVars
  <2> QED BY <1>7, <2>1, InvControl DEF vars
<1> QED BY <1>1, <1>3, <1>4, <1>5, <1>6, <1>7 DEF Next

-----------------------------------------------------------------------------
(* The theorems.                                                           *)

\* The inductive invariant holds in every reachable state.
THEOREM JournalInvariance == Spec => []JournalInv
<1>1. JournalInv /\ [Next]_vars => JournalInv'
  BY InvNext
<1> QED BY InvInit, <1>1, PTL DEF Spec

\* The journal, the tasks and the shutdown stay in their types.
THEOREM JournalTypeCorrect == Spec => []TypeOK
<1>1. JournalInv => TypeOK
  BY DEF JournalInv
<1> QED BY <1>1, JournalInvariance, PTL

\* No two saves of a block are ever under way.
THEOREM SavesDoNotOvertake == Spec => []OneSavePerBlock
<1>1. JournalInv => OneSavePerBlock
  <2> SUFFICES ASSUME JournalInv PROVE OneSavePerBlock
    OBVIOUS
  <2>1. \A k \in Keys : \A x, y \in UnderWay(k) : x = y
    BY DEF JournalInv, Exclusive, UnderWay, SaveTasks, Outputs
  <2>2. \A k \in Keys : \A x \in UnderWay(k) : x.generation = journal[k].inFlight
    BY DEF JournalInv, TasksAreInFlight, OutputsAreInFlight, UnderWay, SaveTasks, Outputs
  <2> QED BY <2>1, <2>2 DEF OneSavePerBlock, JournalInv, Exclusive
<1> QED BY <1>1, JournalInvariance, PTL

\* Whatever fails or panics, a block that is not saved has a journal entry.
THEOREM NothingUnsavedIsForgotten == Spec => []UnsavedIsJournaled
<1>1. JournalInv => UnsavedIsJournaled
  BY DEF JournalInv, EntriesAreNewest, UnsavedIsJournaled, Journaled
<1> QED BY <1>1, JournalInvariance, PTL

\* What waits in an entry waits for a save whose end dispatches it.
THEOREM NothingWaitsForEver == Spec => []NothingIsStranded
<1>1. JournalInv => NothingIsStranded
  <2> SUFFICES ASSUME JournalInv, NEW k \in Keys, journal[k].voxels # None
               PROVE  UnderWay(k) # {} \/ journal[k].inFlight \in lost
    BY DEF NothingIsStranded
  <2>1. journal[k].inFlight # None
    BY DEF JournalInv, AllDispatched, CanDispatch, WaitsForItsSave
  <2> QED BY <2>1 DEF JournalInv, WaitsForItsSave, UnderWay, SaveTasks, Outputs
<1> QED BY <1>1, JournalInvariance, PTL

\* The last voxels of a block are in the entry, in a task, in an output or in
\* the stream, unless they went with a task that panicked.
THEOREM NewestVoxelsAreHeld == Spec => []NewestIsHeld
<1>1. JournalInv => NewestIsHeld
  <2> SUFFICES ASSUME JournalInv, NEW k \in Keys
               PROVE  \/ newest[k] \in {stored[k], journal[k].voxels} \cup lost
                      \/ \E x \in UnderWay(k) : x.voxels = newest[k]
    BY DEF NewestIsHeld
  <2>1. Held(k)
    BY DEF JournalInv
  <2>2. CASE \E t \in SaveTasks : t.key = k /\ t.generation = newest[k]
    BY <2>2 DEF JournalInv, TasksAreInFlight, SaveTasks, UnderWay
  <2>3. CASE \E o \in Outputs : o.key = k /\ o.generation = newest[k]
    BY <2>3, Typed DEF JournalInv, OutputsAreInFlight, Outputs, UnderWay
  <2> QED BY <2>1, <2>2, <2>3 DEF Held
<1> QED BY <1>1, JournalInvariance, PTL

\* When shutdown_and_flush returns Ok, every block that was unloaded is saved.
THEOREM FlushSavesEverything == Spec => []FlushIsComplete
<1>1. JournalInv => FlushIsComplete
  <2> SUFFICES ASSUME JournalInv, result \in {"ok", "streamError"} PROVE stored = newest
    BY DEF FlushIsComplete
  <2>1. \A k \in Keys : stored[k] = newest[k]
    BY DEF JournalInv, ShutdownIsFinal, EntriesAreNewest
  <2> QED BY <2>1 DEF JournalInv, TypeOK
<1> QED BY <1>1, JournalInvariance, PTL

\* What a step may do to the stream: advance one block to voxels that are not
\* older than those it holds nor newer than the last unload.
LEMMA StreamStep ==
  ASSUME JournalInv, [Next]_vars
  PROVE  \/ stored' = stored
         \/ /\ \E k \in Keys : \E g \in Nat :
                 /\ stored' = [stored EXCEPT ![k] = g]
                 /\ stored[k] <= g /\ g <= newest[k]
            /\ UNCHANGED <<newest, result>>
<1>1. CASE \E t \in running : SaveSucceeds(t) \/ SaveFails(t) \/ SavePanics(t)
  <2>1. PICK t \in running : SaveSucceeds(t) \/ SaveFails(t) \/ SavePanics(t)
    BY <1>1
  <2>2. /\ t.key \in Keys /\ t.voxels \in Nat
        /\ stored[t.key] <= t.voxels /\ t.voxels <= newest[t.key]
    BY Typed DEF JournalInv, TasksAreInFlight, SaveTasks
  <2>3. /\ stored' = stored \/ stored' = [stored EXCEPT ![t.key] = t.voxels]
        /\ UNCHANGED <<newest, result>>
    BY <2>1 DEF SaveSucceeds, SaveFails, SavePanics, MaybeStored, EndTask, shutdownVars
  <2> QED BY <2>2, <2>3
<1>2. CASE ~\E t \in running : SaveSucceeds(t) \/ SaveFails(t) \/ SavePanics(t)
  <2>1. SaveStep => stored' = stored
    BY <1>2 DEF SaveStep, StartSave, SaveSucceeds, SaveFails, SavePanics, EndTask
  <2>2. ASSUME NEW k \in Keys, EnqueueDataSave(k) PROVE stored' = stored
    BY <2>2 DEF EnqueueDataSave
  <2>3. BeginShutdown \/ ShutdownStep \/ DrainCompletedTasks => stored' = stored
    BY DEF BeginShutdown, ShutdownStep, DispatchQueuedSaves, DrainAfterWait, NextAttempt, Flush,
           ReportUnsaved, StopPool, DrainCompletedTasks
  <2>4. ASSUME NEW o \in inbox, ApplySaveResponse(o) PROVE stored' = stored
    BY <2>4 DEF ApplySaveResponse
  <2> QED BY <2>1, <2>2, <2>3, <2>4 DEF Next, vars
<1> QED BY <1>1, <1>2

\* The stream never goes back to older voxels of a block.
THEOREM StreamOnlyAdvances == Spec => StreamNeverRegresses
<1>1. JournalInv /\ [Next]_vars => [\A k \in Keys : stored'[k] >= stored[k]]_vars
  <2> SUFFICES ASSUME JournalInv, [Next]_vars PROVE \A k \in Keys : stored'[k] >= stored[k]
    OBVIOUS
  <2> QED BY StreamStep, Typed DEF JournalInv, TypeOK
<1> QED BY <1>1, JournalInvariance, PTL DEF Spec, StreamNeverRegresses

\* The journal implements the write-back store.
THEOREM JournalImplementsWriteBack == Spec => ImplementsWriteBack
<1> DEFINE status == CASE result = "none" -> "open"
                       [] result \in {"ok", "streamError"} -> "flushed"
                       [] result = "unsaved" -> "lossy"
<1>1. Init => Store!Init
  BY DEF Init, Store!Init, None
<1>2. JournalInv /\ [Next]_vars => [Store!Next]_(Store!vars)
  <2> SUFFICES ASSUME JournalInv, [Next]_vars
               PROVE  Store!Next \/ UNCHANGED <<newest, stored, status>>
    BY DEF Store!vars
  <2>1. CASE \E k \in Keys : EnqueueDataSave(k)
    <3>1. PICK k \in Keys : EnqueueDataSave(k)
      BY <2>1
    <3>2. /\ result = "none" /\ result' = result /\ stored' = stored
          /\ newest' = [newest EXCEPT ![k] = nextGeneration]
      BY <3>1 DEF EnqueueDataSave, shutdownVars, JournalInv, ShutdownIsFinal, TypeOK
    <3>3. newest'[k] > newest[k] /\ newest'[k] = nextGeneration
      BY <3>2, Typed DEF JournalInv, TypeOK, EntriesAreNewest
    <3>4. Store!Unload(k)
      BY <3>2, <3>3 DEF Store!Unload
    <3> QED BY <3>4 DEF Store!Next
  <2>2. CASE stored' # stored
    <3>1. PICK k \in Keys : \E g \in Nat : /\ stored' = [stored EXCEPT ![k] = g]
                                 /\ stored[k] <= g /\ g <= newest[k]
                                 /\ UNCHANGED <<newest, result>>
      BY <2>2, StreamStep
    <3>2. PICK g \in Nat : /\ stored' = [stored EXCEPT ![k] = g]
                           /\ stored[k] <= g /\ g <= newest[k]
                           /\ UNCHANGED <<newest, result>>
      BY <3>1
    <3>3. stored'[k] = g /\ stored[k] \in Nat /\ stored[k] # g
      BY <2>2, <3>2, Typed DEF JournalInv, TypeOK
    <3>a. stored'[k] > stored[k] /\ stored'[k] <= newest[k]
      BY <3>2, <3>3
    <3>c. stored' = [stored EXCEPT ![k] = stored'[k]]
      BY <3>2, <3>3
    <3>b. newest' = newest /\ status' = status
      BY <3>2
    <3> HIDE DEF status
    <3>4. Store!Persist(k)
      BY <3>a, <3>b, <3>c DEF Store!Persist, status
    <3> QED BY <3>4 DEF Store!Next
  <2>3. CASE Flush
    <3>1. /\ result = "none" /\ result' \in {"ok", "streamError"}
          /\ UNCHANGED <<stored, newest>>
      BY <2>3 DEF Flush, historyVars, JournalInv, ShutdownIsFinal, TypeOK
    <3>2. \A k \in Keys : stored[k] = newest[k]
      BY <2>3 DEF Flush, NothingJournaled, Journaled, JournalInv, EntriesAreNewest
    <3>3. stored = newest
      BY <3>2 DEF JournalInv, TypeOK
    <3>4. Store!CloseFlushed
      BY <3>1, <3>3 DEF Store!CloseFlushed
    <3> QED BY <3>4 DEF Store!Next
  <2>4. CASE ReportUnsaved
    <3>1. /\ result = "none" /\ result' = "unsaved" /\ UNCHANGED <<stored, newest>>
      BY <2>4 DEF ReportUnsaved, historyVars, JournalInv, ShutdownIsFinal, TypeOK
    <3>2. Store!CloseLossy
      BY <3>1 DEF Store!CloseLossy
    <3> QED BY <3>2 DEF Store!Next
  <2>5. CASE /\ stored' = stored /\ ~Flush /\ ~ReportUnsaved
             /\ ~\E k \in Keys : EnqueueDataSave(k)
    <3>1. UNCHANGED <<newest, result>>
      <4>2. CASE \E o \in inbox : ApplySaveResponse(o)
        BY <4>2 DEF ApplySaveResponse, historyVars, shutdownVars
      <4>3. CASE SaveStep
        BY <4>3 DEF SaveStep, StartSave, SaveSucceeds, SaveFails, SavePanics, EndTask,
                    historyVars, shutdownVars
      <4>4. CASE BeginShutdown \/ ShutdownStep \/ DrainCompletedTasks
        BY <2>5, <4>4 DEF BeginShutdown, ShutdownStep, DispatchQueuedSaves, DrainAfterWait,
             NextAttempt, StopPool, DrainCompletedTasks, historyVars, shutdownVars
      <4>5. CASE UNCHANGED vars
        BY <4>5 DEF vars, historyVars, shutdownVars
      <4> QED BY <2>5, <4>2, <4>3, <4>4, <4>5 DEF Next
    <3> QED BY <2>5, <3>1
  <2> QED BY <2>1, <2>2, <2>3, <2>4, <2>5
<1> QED BY <1>1, <1>2, JournalInvariance, PTL DEF Spec, Store!Spec, ImplementsWriteBack
=============================================================================
