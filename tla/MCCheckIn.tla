------------------------------- MODULE MCCheckIn -------------------------------
(* CheckIn with a default and a web credential of one account, two days (one *)
(* of two steps and the first step of the next), and one login of each; and  *)
(* how the upstream's answers are read (UpstreamAnswer), on its own: while   *)
(* the one moves the other is as it was in the beginning.                    *)
EXTENDS CheckIn, Sequences

VARIABLES answer, verdict, balance, identity
answerVars == <<answer, verdict, balance, identity>>

OneAccount == [r \in Row |-> "u"]

-----------------------------------------------------------------------------
(* The answers: numbers in a number or a string, flags of the three forms,   *)
(* an object in the wrapper's data or in an array there, before or after the *)
(* wrapper's own code, and an object just within and just below the depth.   *)
N(n)   == [kind |-> "scalar", form |-> "number", number |-> n, flag |-> n # 0]
S(n)   == [kind |-> "scalar", form |-> "string", number |-> n,
           flag |-> IF n = 0 THEN FALSE ELSE IF n = 1 THEN TRUE ELSE None]
B(b)   == [kind |-> "scalar", form |-> "bool", number |-> None, flag |-> b]
Obj(members) == [kind |-> "object", members |-> members]
Arr(items)   == [kind |-> "array", items |-> items]
Has(key, value) == [key |-> key, value |-> value]
May(key, values) == {<<>>} \cup {<<Has(key, v)>> : v \in values}

Business ==
  {Obj(c \o f \o d) : c \in May("code", {N(0), S(7), N(9095)}),
                      f \in May("checked_in", {B(TRUE), B(FALSE), S(0)}),
                      d \in May("did_checked_in", {B(TRUE), N(0)}) \cup May("claimed", {S(1)})}
Wrapped(o) ==
  LET own == {<<>>, <<Has("code", N(0))>>, <<Has("status_code", N(3))>>, <<Has("checked_in", B(FALSE))>>}
  IN {Obj(m \o <<Has("data", v)>>) : m \in own, v \in {o, Arr(<<N(1), o>>)}}
     \cup {Obj(<<Has("data", o)>> \o m) : m \in own}

Deep[n \in 0 .. 9] ==
  IF n = 0 THEN Obj(<<Has("code", N(7)), Has("checked_in", B(TRUE)), Has("ide_credits", N(4))>>)
  ELSE Obj(<<Has("data", Deep[n - 1])>>)
StatusAnswers == Business \cup UNION {Wrapped(o) : o \in Business} \cup {Deep[8], Deep[9]}

Pack(limit, used, expire, end) ==
  Obj(<<Has("credits_limit", N(limit)), Has("credits_amount", N(used)),
        Has("expire_time", N(expire)), Has("end_time", N(end))>>)
Packs == {Pack(5, u, t[1], t[2]) : u \in {0, 6}, t \in {<<0, 0>>, <<0, 2>>, <<0, 3>>, <<2, 3>>, <<3, 2>>}}
         \cup {Pack(-1, 0, 0, 0), N(1)}
PackList(items) == Obj(<<Has("user_entitlement_pack_list", Arr(items))>>)
UsageAnswers ==
  {PackList(<<p, q>>) : p \in Packs, q \in {Pack(4, 1, 0, 3), Pack(4, 1, 2, 0)}}
  \cup {Obj(<<Has("usage_summary", Obj(r \o t \o c)), Has("data", PackList(<<Pack(4, 1, 0, 3)>>))>>) :
          r \in May("remaining_amount", {N(3), S(-1), B(TRUE)}), t \in May("total_amount", {N(6)}),
          c \in May("consumed_amount", {N(2), N(8)})}
  \cup {Obj(<<Has("credits_remain_info", i), Has("ide_credits", N(2))>>) :
          i \in {Obj(<<Has("ide_credits", S(1))>>), N(0), Obj(<<>>)}}
  \cup {Deep[9], Obj(<<>>)}
IdentityAnswers == {Obj(m) : m \in May("user_pay_identity", {N(-1), N(0), N(2), S(1)})}

A == INSTANCE UpstreamAnswer WITH Answer <- StatusAnswers, Now <- 2
U == INSTANCE UpstreamAnswer WITH Answer <- UsageAnswers \cup IdentityAnswers, Now <- 2

AnswerIsRead == A!AnswerIsRead

(* A verdict does not depend on an earlier answer, so that one is enough.    *)
CheckInAtRest == Init
AnswersNext ==
  \/ answer = None /\ A!CheckinStatus
  \/ verdict # -1 /\ UNCHANGED answerVars
  \/ verdict = -1 /\ (U!refreshCredits \/ U!refreshPayIdentity)
CheckInNext ==
  \/ A!Init /\ Next /\ UNCHANGED answerVars
  \/ CheckInAtRest /\ AnswersNext /\ UNCHANGED vars
CheckInInit == Init /\ A!Init
CheckInSpec == CheckInInit /\ [][CheckInNext]_<<vars, answerVars>>

-----------------------------------------------------------------------------
(* What a row still means: whether its result is of today, and the time of   *)
(* the next try if it has failed.  What was said of other days does not      *)
(* matter any more, but for the truth of SavedIsTrue.                        *)
Meaning(c) ==
  IF c = None THEN <<>> ELSE
  <<c.generation, c.auto,
    IF c.day # Today THEN "open" ELSE IF c.result \in Final THEN "final" ELSE c.retryAt>>

(* Of a worker that is done nothing is used any more, and its result only    *)
(* when it is saved; the stop token only while the batch goes on.            *)
Working(w) == pc[w] \notin {"idle", "done"}
WorkerView(w) ==
  IF ~Working(w) THEN <<pc[w]>>
  ELSE <<pc[w], at[w], generation[w], day[w] = Today, began[w] = Today,
         IF pc[w] = "save" THEN result[w] ELSE 2>>

CheckInView ==
  <<now, active, refreshing, running, todo,
    [w \in Worker |-> WorkerView(w)],
    IF Working("batch") THEN <<stop, results>> ELSE <<>>,
    [r \in Row |-> Meaning(row[r])],
    [r \in Row |-> IF disk[r] = row[r] THEN <<"same">> ELSE Meaning(disk[r])],
    [r \in Row |-> IF failed[r] # None /\ failed[r].day = Today THEN failed[r] ELSE None],
    {c \in credited : c[2] = Today}, {c \in sent : c[2] = Today},
    IF \E w \in Worker : pc[w] = "claim" THEN answered ELSE {}, SavedIsTrue, answerVars>>
=============================================================================
