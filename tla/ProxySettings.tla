--------------------------- MODULE ProxySettings ---------------------------
(***************************************************************************)
(* The list of trusted proxies (proxies.py): one row of settings, which    *)
(* every worker process keeps in memory for CACHE_TTL seconds.  Requests   *)
(* of one process run in threads and take _cache_guard for each look at    *)
(* the memory, never while they read or write the database.  The list is   *)
(* abstracted to the number of the save that wrote it.                     *)
(***************************************************************************)
EXTENDS Integers, FiniteSets

CONSTANTS
  Proc,        \* worker processes
  Thread,      \* threads: a request in the middle of its work, or a refresh
  CacheTtl,    \* CACHE_TTL, in ticks
  MaxTick,     \* bound: time
  MaxWrites,   \* bound: saves of the list
  MaxOutages   \* bound: reads that fail

ASSUME ProxyAssumption ==
  /\ Proc # {}
  /\ {CacheTtl, MaxTick, MaxWrites, MaxOutages} \subseteq Nat

Unread == -1     \* _cache is None
Nobody == -2     \* the empty list a failed read stands for

VARIABLES
  tick,
  written,     \* the stored list
  memory,      \* each process: _cache, _cached_at, _cache_generation, _refreshing
  thread,      \* what each thread is about to do
  outages

proxyVars == <<tick, written, memory, thread, outages>>

List == {Unread, Nobody} \cup 0..MaxWrites
Cold == [list |-> Unread, at |-> 0, gen |-> 0, refreshing |-> FALSE]
Gone == [kind |-> "none", proc |-> CHOOSE p \in Proc : TRUE, gen |-> 0, list |-> Unread]

ProxyTypeOK ==
  /\ tick \in 0..MaxTick /\ written \in 0..MaxWrites /\ outages \in 0..MaxOutages
  /\ memory \in [Proc -> [list : List, at : 0..MaxTick, gen : Nat, refreshing : BOOLEAN]]
  /\ thread \in [Thread -> [kind : {"none", "cold", "refresh", "save", "clear"},
                            proc : Proc, gen : Nat, list : List]]

ProxyInit ==
  /\ tick = 0 /\ written = 0 /\ outages = 0
  /\ memory = [p \in Proc |-> Cold]
  /\ thread = [t \in Thread |-> Gone]

Expired(p) == memory[p].list = Unread \/ tick - memory[p].at >= CacheTtl

\* stored_value on a health path (waits = FALSE) or any other: a cold memory is read at
\* once by a request that may wait; otherwise what is there is served, however old, and
\* one thread at a time is started to refresh it.
StoredValue(t, p, waits) ==
  LET kind == IF memory[p].list = Unread /\ waits THEN "cold" ELSE "refresh"
  IN  /\ thread[t].kind = "none" /\ Expired(p)
      /\ kind = "refresh" => ~memory[p].refreshing
      /\ thread' = [thread EXCEPT ![t] = [kind |-> kind, proc |-> p, gen |-> memory[p].gen,
                                          list |-> Unread]]
      /\ memory' = [memory EXCEPT ![p].refreshing = @ \/ kind = "refresh"]
      /\ UNCHANGED <<tick, written, outages>>

\* _read_stored; a database that cannot be read trusts nobody.
ReadStored(t, fails) ==
  /\ thread[t].kind \in {"cold", "refresh"} /\ thread[t].list = Unread
  /\ fails => outages < MaxOutages
  /\ outages' = outages + (IF fails THEN 1 ELSE 0)
  /\ thread' = [thread EXCEPT ![t].list = IF fails THEN Nobody ELSE written]
  /\ UNCHANGED <<tick, written, memory>>

Remembered(p, list) ==
  [memory EXCEPT ![p].list = list, ![p].at = tick, ![p].gen = @ + 1]

\* (mutant) whatever was remembered since the read began
RememberLate(t) ==
  /\ thread[t].kind \in {"cold", "refresh"} /\ thread[t].list # Unread
  /\ memory' = Remembered(thread[t].proc, thread[t].list)
  /\ thread' = [thread EXCEPT ![t] = IF @.kind = "refresh" THEN [@ EXCEPT !.kind = "clear"] ELSE Gone]
  /\ UNCHANGED <<tick, written, outages>>

\* (mutant) a read that comes too late ends without clearing the flag
RememberOrQuit(t) ==
  /\ thread[t].kind \in {"cold", "refresh"} /\ thread[t].list # Unread
  /\ IF thread[t].gen = memory[thread[t].proc].gen
     THEN /\ memory' = Remembered(thread[t].proc, thread[t].list)
          /\ thread' = [thread EXCEPT ![t] = IF @.kind = "refresh" THEN [@ EXCEPT !.kind = "clear"] ELSE Gone]
     ELSE UNCHANGED memory /\ thread' = [thread EXCEPT ![t] = Gone]
  /\ UNCHANGED <<tick, written, outages>>

\* _remember of a read, unless something was remembered since the read began.
Remember(t) ==
  /\ thread[t].kind \in {"cold", "refresh"} /\ thread[t].list # Unread
  /\ memory' = IF thread[t].gen = memory[thread[t].proc].gen
               THEN Remembered(thread[t].proc, thread[t].list) ELSE memory
  /\ thread' = [thread EXCEPT ![t] = IF @.kind = "refresh" THEN [@ EXCEPT !.kind = "clear"] ELSE Gone]
  /\ UNCHANGED <<tick, written, outages>>

\* _refresh_stored: the flag, whatever became of the read.
ClearRefreshing(t) ==
  /\ thread[t].kind = "clear"
  /\ memory' = [memory EXCEPT ![thread[t].proc].refreshing = FALSE]
  /\ thread' = [thread EXCEPT ![t] = Gone]
  /\ UNCHANGED <<tick, written, outages>>

\* put_trusted_proxies, set_stored: the row first, then the memory of this process only.
SetStored(t, p) ==
  /\ thread[t].kind = "none" /\ written < MaxWrites
  /\ written' = written + 1
  /\ thread' = [thread EXCEPT ![t] = [kind |-> "save", proc |-> p, gen |-> 0, list |-> written']]
  /\ UNCHANGED <<tick, memory, outages>>

RememberSaved(t) ==
  /\ thread[t].kind = "save"
  /\ memory' = Remembered(thread[t].proc, thread[t].list)
  /\ thread' = [thread EXCEPT ![t] = Gone]
  /\ UNCHANGED <<tick, written, outages>>

\* The process is restarted; its threads and its memory are gone.
ProcRestarts(p) ==
  /\ memory[p].list # Unread
  /\ memory' = [memory EXCEPT ![p] = Cold]
  /\ thread' = [t \in Thread |-> IF thread[t].proc = p THEN Gone ELSE thread[t]]
  /\ UNCHANGED <<tick, written, outages>>

ProxyTick ==
  /\ tick < MaxTick /\ tick' = tick + 1
  /\ UNCHANGED <<written, memory, thread, outages>>

ProxyNext ==
  \/ \E t \in Thread :
       \/ Remember(t) \/ ClearRefreshing(t) \/ RememberSaved(t)
       \/ \E fails \in BOOLEAN : ReadStored(t, fails)
       \/ \E p \in Proc : SetStored(t, p) \/ \E waits \in BOOLEAN : StoredValue(t, p, waits)
  \/ \E p \in Proc : ProcRestarts(p)
  \/ ProxyTick

ProxySpec == ProxyInit /\ [][ProxyNext]_proxyVars

-----------------------------------------------------------------------------
(* What must hold *)

\* A process that believes a refresh is running has exactly one thread that will say it
\* is over: otherwise its list would never be read again (proxies.py:152-154, 75-82).
RefreshComesBack ==
  \A p \in Proc :
    Cardinality({t \in Thread : thread[t].proc = p /\ thread[t].kind \in {"refresh", "clear"}})
      = IF memory[p].refreshing THEN 1 ELSE 0

\* A read never takes a process back to a list older than the one it had: a save on this
\* worker supersedes any older read still in flight (proxies.py:142-143).  Only another
\* save that was slower to be remembered does.
ReadsNeverRegress ==
  [][\A p \in Proc :
       memory'[p].list # memory[p].list /\ memory[p].list # Unread /\ memory'[p].list # Unread =>
         \E t \in Thread :
           /\ thread[t].proc = p /\ thread[t].list = memory'[p].list
           /\ \/ thread[t].kind = "save"
              \/ memory'[p].list = Nobody
              \/ memory'[p].list >= memory[p].list]_proxyVars

-----------------------------------------------------------------------------
(* The inductive invariant behind them *)

Refreshes(t, p) == thread[t].proc = p /\ thread[t].kind \in {"refresh", "clear"}

OneRefresh ==
  \A p \in Proc :
    /\ memory[p].refreshing <=> \E t \in Thread : Refreshes(t, p)
    /\ \A t, u \in Thread : Refreshes(t, p) /\ Refreshes(u, p) => t = u

\* A read that still counts found nothing older than what the process has.
ReadsCount ==
  /\ \A p \in Proc : memory[p].list <= written
  /\ \A t \in Thread :
       thread[t].kind \in {"cold", "refresh"} =>
         /\ thread[t].gen <= memory[thread[t].proc].gen
         /\ thread[t].gen = memory[thread[t].proc].gen /\ thread[t].list \notin {Unread, Nobody} =>
              memory[thread[t].proc].list <= thread[t].list
  /\ \A t \in Thread : thread[t].list <= written

ProxyInv == ProxyTypeOK /\ OneRefresh /\ ReadsCount

=============================================================================
