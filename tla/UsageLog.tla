------------------------------- MODULE UsageLog -------------------------------
(***************************************************************************)
(* The usage log of Trae Relay (AccountPool): one file of records for each *)
(* day, the newest records in memory for the pages of the window, and the  *)
(* counters of today.  Every operation holds m_usageMtx throughout.        *)
(*                                                                         *)
(* When a record is made and by which thread it is written is UsageLedger's. *)
(* Sums of tokens and credits are taken wherever records are counted, and   *)
(* are not modelled apart.                                                  *)
(***************************************************************************)
EXTENDS Integers, SequencesExt, FiniteSets

CONSTANTS
  Record,    \* records of requests
  Limit,     \* kUsageHistoryLimit: records kept in memory (100)
  KeepDays,  \* days a file is kept (30)
  MaxDay     \* bound: the last day

Day == 1 .. MaxDay

ASSUME LogAssumption == {Limit, KeepDays, MaxDay} \subseteq Nat \ {0}

VARIABLES
  today,        \* the local date
  at,           \* UsageRecord::ts: the day each record was made; 0 when none was
  files,        \* usage-YYYYMMDD.jsonl: the records of each day
  cacheLoaded,  \* m_usageCacheLoaded
  cache,        \* m_usageCache, newest first
  countedDay,   \* m_usageTodayStart, m_usageTodayEnd; 0 before the first count
  count,        \* m_usageTodayCount
  appended,     \* the records usageAppend was called for, in order
  hidden,       \* those that were in no file that was read when the cache was
  uncounted     \* those of countedDay that were not in its file when it was read

memoryVars == <<cacheLoaded, cache, countedDay, count>>
logVars == <<today, at, files, memoryVars, appended, hidden, uncounted>>

LogInit ==
  /\ today = 1 /\ at = [r \in Record |-> 0]
  /\ files = [d \in Day |-> <<>>]
  /\ cacheLoaded = FALSE /\ cache = <<>> /\ countedDay = 0 /\ count = 0
  /\ appended = <<>> /\ hidden = {} /\ uncounted = {}

(* A request is over: its record gets the time.                             *)
usageRecord(r) ==
  /\ at[r] = 0
  /\ at' = [at EXCEPT ![r] = today]
  /\ UNCHANGED <<today, files, memoryVars, appended, hidden, uncounted>>

(* usageAppendLine: the record goes to the file of the day it was made on,  *)
(* or, when that cannot be opened, to none.                                 *)
usageAppendLine(r) ==
  \/ files' = [files EXCEPT ![at[r]] = Append(@, r)]
  \/ UNCHANGED files

\* Mutant of InWindow: the end of the day is not looked at.
InWindowOpen(r) == countedDay > 0 /\ at[r] >= countedDay

InWindow(r) == at[r] = countedDay

\* Mutant of Keep: the newest record makes room.
KeepOld(list) == IF Len(list) > Limit THEN SubSeq(list, Len(list) - Limit + 1, Len(list))
                 ELSE list

Keep(list) == SubSeq(list, 1, IF Len(list) > Limit THEN Limit ELSE Len(list))

(* usageAppend, once the record is settled: at once, or days later.         *)
usageAppend(r) ==
  /\ at[r] # 0 /\ ~Contains(appended, r)
  /\ usageAppendLine(r)
  /\ cache' = IF cacheLoaded THEN Keep(<<r>> \o cache) ELSE cache
  /\ count' = IF InWindow(r) THEN count + 1 ELSE count
  /\ appended' = Append(appended, r)
  /\ UNCHANGED <<today, at, cacheLoaded, countedDay, hidden, uncounted>>

Expired(d) == today - d >= KeepDays

(* The records of the files up to each day that can be opened, the last     *)
(* line of the latest file first.                                           *)
UpTo(logs, readable) ==
  LET f[d \in 0 .. MaxDay] ==
        IF d = 0 THEN <<>>
        ELSE (IF d \in readable THEN Reverse(logs[d]) ELSE <<>>) \o f[d - 1]
  IN f

Recent(logs, readable) == UpTo(logs, readable)[MaxDay]

(* usageEnsureCacheLocked, on the first use: old files are deleted and the  *)
(* newest records are read.                                                 *)
usageEnsureCacheLocked ==
  IF cacheLoaded THEN UNCHANGED <<files, cacheLoaded, cache, hidden>>
  ELSE
    /\ cacheLoaded' = TRUE
    /\ files' = [d \in Day |-> IF Expired(d) THEN <<>> ELSE files[d]]
    /\ \E readable \in SUBSET {d \in Day : files[d] # <<>>} :
         /\ cache' = Keep(Recent(files', readable))
         /\ hidden' = ToSet(appended) \ ToSet(Recent(files', readable))

(* usagePage, usageTotalCount.                                              *)
usagePage ==
  /\ usageEnsureCacheLocked
  /\ UNCHANGED <<today, at, countedDay, count, appended, uncounted>>

(* usageCountToday: on a new day, and the first time, the file of the day   *)
(* is counted.  One that cannot be opened counts as empty.                  *)
usageCountToday ==
  /\ countedDay # today
  /\ countedDay' = today
  /\ \E read \in {files[today], <<>>} :
       /\ count' = Cardinality({i \in DOMAIN read : at[read[i]] = today})
       /\ uncounted' = {r \in ToSet(appended) \ ToSet(read) : at[r] = today}
  /\ UNCHANGED <<today, at, files, cacheLoaded, cache, appended, hidden>>

DayPasses ==
  /\ today < MaxDay
  /\ today' = today + 1
  /\ UNCHANGED <<at, files, memoryVars, appended, hidden, uncounted>>

(* The process is started again; what was not written is lost.              *)
Restart ==
  /\ at' = [r \in Record |-> IF Contains(appended, r) THEN at[r] ELSE 0]
  /\ cacheLoaded' = FALSE /\ cache' = <<>> /\ countedDay' = 0 /\ count' = 0
  /\ hidden' = {} /\ uncounted' = {}
  /\ UNCHANGED <<today, files, appended>>

LogNext ==
  \/ \E r \in Record : usageRecord(r) \/ usageAppend(r)
  \/ usagePage \/ usageCountToday \/ DayPasses \/ Restart

LogSpec == LogInit /\ [][LogNext]_logVars

-----------------------------------------------------------------------------
LogTypeOK ==
  /\ today \in Day /\ at \in [Record -> 0 .. MaxDay]
  /\ files \in [Day -> Seq(Record)]
  /\ cacheLoaded \in BOOLEAN /\ cache \in Seq(Record) /\ Len(cache) <= Limit
  /\ countedDay \in 0 .. today /\ count \in Nat
  /\ appended \in Seq(Record)

(* The counters of the usage page are those of the day they are shown for:  *)
(* a record is counted in the day it was made on, once, whether it was      *)
(* written before the day was counted or after, and however midnight falls  *)
(* between the request, the record and the count.                           *)
CountIsOfDay ==
  countedDay # 0 =>
    count = Cardinality({r \in ToSet(appended) : at[r] = countedDay} \ uncounted)

Position(r) == CHOOSE i \in DOMAIN appended : appended[i] = r

(* The pages show the newest records: one that is missing has been pushed   *)
(* out by as many as are kept, each made or written after it.  (But for     *)
(* records whose file could not be written or read.)                        *)
NewestShown ==
  cacheLoaded =>
    /\ IsInjective(cache) /\ ToSet(cache) \subseteq ToSet(appended)
    /\ \A r \in ToSet(appended) \ (ToSet(cache) \cup hidden) :
         /\ Len(cache) = Limit
         /\ \A c \in ToSet(cache) : at[c] > at[r] \/ Position(c) > Position(r)
=============================================================================
