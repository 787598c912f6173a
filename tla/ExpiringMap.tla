----------------------------- MODULE ExpiringMap -----------------------------
(***************************************************************************)
(* A map or set whose entries expire, libhilti/map_set.c, on top of the    *)
(* timer manager of Timer.  Each entry may own a timer; the manager owns   *)
(* the timer, the entry has a plain pointer to it, and the timer finds the *)
(* entry again by its key.  The program also has function timers, whose    *)
(* callbacks use the map in the middle of an advance.  Values, hashing and *)
(* defaults are left out; a set does the same with its own functions.      *)
(*                                                                         *)
(* timer_mgr.expire False is left out while entries have timers: it frees  *)
(* the timers and the entries keep pointers to them.                       *)
(***************************************************************************)
EXTENDS Timer, Functions

CONSTANTS
  Keys,      \* the keys of the map
  Funcs,     \* the function timers, the others belong to entries
  Timeouts   \* the timeouts the program sets, besides 0

None == "none"      \* a null pointer, and no due time

ASSUME MapAssumption ==
  /\ Funcs \subseteq Timers
  /\ Timeouts \subseteq Nat \ {0}
  /\ None \notin Timers

VARIABLES
  entries,    \* the map: key -> the entry's timer and, a history, when it is due
  timeout,    \* m->timeout
  strategy,   \* m->strategy
  cookie      \* entry timer -> timer->cookie.map.key

mapVars == <<entries, timeout, strategy, cookie>>
timerVars == <<time, heap, scheduled, at, queue_pos, refs, stack>>

EntryTimers == Timers \ Funcs

Drop(k) == [j \in DOMAIN entries \ {k} |-> entries[j]]
Put(k, x, d) ==
  [j \in DOMAIN entries \cup {k} |->
     IF j = k THEN [timer |-> x, due |-> d] ELSE entries[j]]

(* hlt_map_new; entries have no timers before the first hlt_map_timeout.   *)
MapNew ==
  /\ entries = [k \in {} |-> 0]
  /\ timeout = 0
  /\ strategy = "unset"
  /\ cookie = [x \in EntryTimers |-> None]

MapInit == Init /\ MapNew

-----------------------------------------------------------------------------
(* The program runs outside of all calls and in its callbacks; expiring an *)
(* entry runs no program code.                                             *)
CodeRuns == ProgramRuns /\ (stack # <<>> => Top.timer \in Funcs)

(* hlt_map_timeout.  Existing timers stay as they are. *)
MapTimeout(s, t) ==
  /\ CodeRuns
  /\ timeout' = t
  /\ strategy' = s
  /\ UNCHANGED <<entries, cookie, timerVars>>

(* Fault: the timer is restarted under every strategy (map_set.c:187). *)
Restarts_Always(k) == timeout # 0 /\ entries[k].timer # None

(* Fault: the comparison of the strategy is inverted (map_set.c:187). *)
Restarts_Inverted(k) ==
  strategy # "Access" /\ timeout # 0 /\ entries[k].timer # None

(* Accessing the entry of k restarts its timer. *)
Restarts(k) ==
  strategy = "Access" /\ timeout # 0 /\ entries[k].timer # None

(* _access_map *)
Access(k) ==
  IF Restarts(k)
    THEN /\ time + timeout \in Times
         /\ Update(entries[k].timer, time + timeout)
    ELSE UNCHANGED timerVars

(* When the entry of k is to expire once it has been accessed; a history,  *)
(* independent of what is done about its timer.                            *)
DueAfterAccess(k) ==
  IF strategy = "Access" /\ timeout # 0 /\ entries[k].timer # None
    THEN time + timeout ELSE entries[k].due

(* hlt_map_get, hlt_map_get_default, hlt_map_exists, and hlt_map_insert of *)
(* a key the map has.                                                      *)
MapGet(k) ==
  /\ CodeRuns
  /\ k \in DOMAIN entries
  /\ Access(k)
  /\ entries' = [entries EXCEPT ![k].due = DueAfterAccess(k)]
  /\ UNCHANGED <<timeout, strategy, cookie>>

(* hlt_map_insert of a new key.  The entry's timer is a new object. *)
MapInsert(k) ==
  /\ CodeRuns
  /\ k \notin DOMAIN entries
  /\ IF timeout # 0
       THEN \E x \in EntryTimers :
              /\ refs[x] = 0
              /\ cookie' = [cookie EXCEPT ![x] = k]
              /\ time + timeout \in Times
              /\ Schedule(x, time + timeout)
              /\ entries' = Put(k, x, time + timeout)
       ELSE /\ entries' = Put(k, None, None)
            /\ UNCHANGED <<cookie, timerVars>>
  /\ UNCHANGED <<timeout, strategy>>

(* Fault: the entry's timer is not cancelled (map_set.c:477). *)
MapRemove_KeepsTimer(k) ==
  /\ CodeRuns
  /\ k \in DOMAIN entries
  /\ entries' = Drop(k)
  /\ UNCHANGED <<timeout, strategy, cookie, timerVars>>

(* hlt_map_remove *)
MapRemove(k) ==
  /\ CodeRuns
  /\ k \in DOMAIN entries
  /\ IF entries[k].timer # None THEN Cancel(entries[k].timer) ELSE UNCHANGED timerVars
  /\ entries' = Drop(k)
  /\ UNCHANGED <<timeout, strategy, cookie>>

(* hlt_map_clear, and hlt_map_dtor: the timers of all entries are          *)
(* cancelled one after the other, in the order of the hash table.          *)
Owned == {entries[k].timer : k \in DOMAIN entries} \ {None}

UnqueueAll(order) ==
  LET left[k \in 0..Len(order)] ==
        IF k = 0 THEN Queue ELSE Remove(left[k - 1], at, order[k])
  IN  left[Len(order)]

MapClear ==
  /\ CodeRuns
  /\ \E order \in Bijection(1..Cardinality(Owned), Owned) : SetQueue(UnqueueAll(order))
  /\ refs' = [x \in Timers |-> IF x \in Owned THEN refs[x] - 1 ELSE refs[x]]
  /\ scheduled' = [x \in Timers |-> scheduled[x] /\ x \notin Owned]
  /\ at' = [x \in Timers |-> IF x \in Owned THEN 0 ELSE at[x]]
  /\ entries' = [k \in {} |-> 0]
  /\ UNCHANGED <<timeout, strategy, cookie, time, stack>>

(* hlt_map_expire, called by __hlt_timer_fire, with the end of that call. *)
EntryExpires ==
  /\ Call("fire") /\ Top.timer \in EntryTimers
  /\ entries' = Drop(cookie[Top.timer])
  /\ FireEnd
  /\ UNCHANGED <<timeout, strategy, cookie>>

-----------------------------------------------------------------------------
(* The program's own use of the timer manager. *)
TimerStep ==
  /\ \/ /\ CodeRuns
        /\ \/ \E x \in Funcs : \/ \E t \in Times : Schedule(x, t) \/ Update(x, t)
                               \/ Cancel(x)
           \/ \E t \in Times : Advance(t)
           \/ Expire
           \/ Owned = {} /\ CancelAll
     \/ Call("fire") /\ Top.timer \in Funcs /\ FireEnd
     \/ AdvanceFires \/ AdvanceEnd \/ ExpireFires \/ ExpireEnd
  /\ UNCHANGED mapVars

MapStep ==
  \/ \E k \in Keys : MapGet(k) \/ MapInsert(k) \/ MapRemove(k)
  \/ \E s \in {"Create", "Access"}, t \in Timeouts \cup {0} : MapTimeout(s, t)
  \/ MapClear
  \/ EntryExpires

MapNext == TimerStep \/ MapStep

MapSpec == MapInit /\ [][MapNext]_<<vars, mapVars>>
-----------------------------------------------------------------------------
(* Properties *)

(* Entries and timers match: an entry's pointer is to a timer the manager  *)
(* has and that will look for this entry, and every entry timer of the     *)
(* manager belongs to an entry of the map.  Otherwise an access, removal   *)
(* or clear would follow a pointer to a freed timer, or an old timer would *)
(* remove a new entry of the same key (map_set.c:189-196, 476, 495-504).   *)
EntriesMatchTimers ==
  /\ \A k \in DOMAIN entries :
       LET x == entries[k].timer
       IN x # None => /\ x \in EntryTimers /\ cookie[x] = k
                      /\ scheduled[x] /\ (Queued(x) \/ Firing(x))
  /\ \A x \in EntryTimers : Queued(x) \/ Firing(x) =>
       cookie[x] \in DOMAIN entries /\ entries[cookie[x]].timer = x

(* "Expired after an interval after they have been added or last accessed" *)
(* (hilti/instructions/map.cc:286-289): when no call is in progress no     *)
(* entry is left that is due.                                              *)
EntriesExpire ==
  stack = <<>> =>
    \A k \in DOMAIN entries : entries[k].timer # None => entries[k].due > time

(* An entry is expired only when it is due by the time of an advance in    *)
(* progress, or when the program expires the whole manager: an access or   *)
(* the replacement of an entry by a newer one in a callback counts at once *)
(* (map_set.c:194, 436).                                                   *)
DueBy(k) ==
  \E i \in 1..Len(stack) :
    \/ stack[i].op = "expire"
    \/ stack[i].op = "advance" /\ entries[k].due <= stack[i].time

NotExpiredEarly ==
  [][\A k \in DOMAIN entries : EntryExpires /\ k \notin DOMAIN entries' => DueBy(k)]_<<vars, mapVars>>
=============================================================================
