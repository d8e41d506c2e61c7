---------------------------- MODULE UpstreamAnswer ----------------------------
(***************************************************************************)
(* What Trae Relay reads in the upstream's answers about an account         *)
(* (AccountPool): whether it has checked in, its balance, and whether it    *)
(* pays.  The answers have no fixed form: the code looks for names it knows *)
(* at every level, so that what it finds depends on the order of the search.*)
(*                                                                         *)
(* A JSON value is an object with members in order, an array, or a scalar   *)
(* of a form (number, string, bool) with what it says as a number and as a  *)
(* flag (None: nothing).  The search goes through the objects from the      *)
(* outside in and in order, down to a depth.  When the answers are asked for is CheckIn's and UsageLedger's.   *)
(***************************************************************************)
EXTENDS Integers, SequencesExt, FiniteSetsExt

CONSTANTS
  Answer, \* answers of the upstream
  Now,    \* the time
  None

VARIABLES
  answer,   \* the last answer
  verdict,  \* doCheckin's state(): 1 checked in, 2 not, -1 failed, -2 the device has
  balance,  \* Account::credits
  identity  \* Account::payIdentity; -1: not known

vars == <<answer, verdict, balance, identity>>

First(s) == IF s = <<>> THEN None ELSE Head(s)
Known(s) == SelectSeq(s, LAMBDA x : x # None)

Find(j, key) ==
  LET members == IF j.kind = "object" THEN j.members ELSE <<>>
      n == SelectInSeq(members, LAMBDA m : m.key = key)
  IN IF n = 0 THEN None ELSE members[n].value
FindAll(o, keys) == Known([n \in DOMAIN keys |-> Find(o, keys[n])])

IsScalar(j, forms) == j # None /\ j.kind = "scalar" /\ j.form \in forms

NumberOf(j)  == IF j = None \/ j.kind # "scalar" THEN None ELSE j.number
FlagOf(j)    == IF j = None \/ j.kind # "scalar" THEN None ELSE j.flag
Numbers(o, keys) == Known([n \in DOMAIN keys |-> NumberOf(Find(o, keys[n]))])
Flags(o, keys)   == Known([n \in DOMAIN keys |-> FlagOf(Find(o, keys[n]))])

(* The objects of a value, down to the given depth, in the order in which   *)
(* the five searches meet them.                                             *)
RECURSIVE Objects(_, _)
Objects(j, depth) ==
  IF depth < 0 \/ j.kind = "scalar" THEN <<>>
  ELSE LET inner(values) == FlattenSeq([n \in DOMAIN values |-> Objects(values[n], depth - 1)]) IN
       IF j.kind = "object" THEN <<j>> \o inner([n \in DOMAIN j.members |-> j.members[n].value])
                            ELSE inner(j.items)

-----------------------------------------------------------------------------
(* findCodeDeep: "a business code comes before the code 0 of the wrapper".  *)
Codes(j) ==
  LET objects == Objects(j, 8) IN
  FlattenSeq([n \in DOMAIN objects |-> Numbers(objects[n], <<"code", "status_code", "error_code">>)])

\* Mutant of findCodeDeep: the outermost code decides.
findCodeOuter(j) == First(Codes(j))

findCodeDeep(j) ==
  LET bad == SelectSeq(Codes(j), LAMBDA c : c # 0) IN
  IF bad # <<>> THEN Head(bad) ELSE First(Codes(j))

(* findCheckinFlagDeep: of the official names of one object any that is     *)
(* true counts; of the others the first that is there.                      *)
Official == <<"checked_in", "did_checked_in", "didCheckedIn">>
Other    == <<"is_checked_in", "claimed">>

FlagIn(o) ==
  IF Flags(o, Official) # <<>> THEN TRUE \in ToSet(Flags(o, Official)) ELSE First(Flags(o, Other))
findCheckinFlagDeep(j) ==
  LET objects == Objects(j, 8) IN First(Known([n \in DOMAIN objects |-> FlagIn(objects[n])]))

(* state() of doCheckin.                                                    *)
state(j) ==
  LET code == findCodeDeep(j)
      flag == findCheckinFlagDeep(j)
      own  == Find(j, "checked_in")
  IN CASE code # None /\ code # 0 -> IF code = 9095 THEN -2 ELSE -1
       [] OTHER -> CASE flag = None -> -1
                     [] flag = FALSE -> 2
                     [] OTHER -> IF IsScalar(own, {"bool"}) /\ ~own.flag
                                   THEN -2 ELSE 1

-----------------------------------------------------------------------------
AtLeast0(x) == IF x # None /\ x < 0 THEN 0 ELSE x

(* findUsageSummaryDeep: what remains, or else total less consumed.         *)
SummaryIn(o) ==
  LET s == Find(o, "usage_summary") IN
  IF s = None \/ s.kind # "object" THEN None
  ELSE LET left  == NumberOf(First(FindAll(s, <<"remaining_amount", "available_amount">>)))
           total == NumberOf(Find(s, "total_amount"))
           used  == NumberOf(Find(s, "consumed_amount"))
       IN AtLeast0(CASE left # None -> left
                     [] left = None /\ total # None /\ used # None -> total - used
                     [] OTHER -> None)

(* findCreditsEventDeep: the object of the event, or the bare field.        *)
EventIn(o) ==
  LET infos == SelectSeq(FindAll(o, <<"cn_credits_remain_info", "credits_remain_info">>),
                         LAMBDA i : i.kind = "object")
      told  == FlattenSeq([n \in DOMAIN infos |-> Numbers(infos[n], <<"ide_credits", "remaining_amount">>)])
  IN AtLeast0(First(told \o Numbers(o, <<"ide_credits">>)))

(* findCreditsFromPacks: the packs of credits that have not expired.  A     *)
(* pack's base information, quota and usage are written as one object here. *)
Amount(p, key, def) == LET v == Find(p, key) IN IF IsScalar(v, {"number"}) THEN v.number ELSE def

Expired(p) ==
  LET own == Amount(p, "expire_time", 0)
      end == IF own = 0 THEN Amount(p, "end_time", 0) ELSE own
  IN end > 0 /\ end <= Now

Counts(p) == p.kind = "object" /\ ~Expired(p) /\ Amount(p, "credits_limit", -1) >= 0
PacksIn(o) ==
  LET list == Find(o, "user_entitlement_pack_list")
      good == IF list = None \/ list.kind # "array" THEN <<>> ELSE SelectSeq(list.items, Counts)
  IN IF good = <<>> THEN None
     ELSE FoldLeft(LAMBDA sum, p : sum + AtLeast0(Amount(p, "credits_limit", 0)
                                                 - Amount(p, "credits_amount", 0)), 0, good)

(* refreshCredits takes the first that is found, in this order.             *)
Credits(j) ==
  LET Look(depth, In(_)) ==
        LET objects == Objects(j, depth)
        IN Known([n \in DOMAIN objects |-> In(objects[n])])
  IN First(Look(8, SummaryIn) \o Look(10, EventIn) \o Look(8, PacksIn))

-----------------------------------------------------------------------------
Init == answer = None /\ verdict = -1 /\ balance = -1 /\ identity = -1

CheckinStatus ==
  /\ answer' \in Answer
  /\ verdict' = state(answer')
  /\ UNCHANGED <<balance, identity>>

(* An answer that has no balance leaves the old one.                        *)
refreshCredits ==
  /\ answer' \in Answer
  /\ balance' = LET credits == Credits(answer') IN IF credits = None THEN balance ELSE credits
  /\ UNCHANGED <<verdict, identity>>

(* An answer that does not say it, or says less than 0, leaves what is known.*)
refreshPayIdentity ==
  /\ answer' \in Answer
  /\ identity' = LET id == Find(answer', "user_pay_identity")
                 IN IF IsScalar(id, {"number"}) /\ id.number >= 0 THEN id.number ELSE identity
  /\ UNCHANGED <<verdict, balance>>

Next == CheckinStatus \/ refreshCredits \/ refreshPayIdentity

-----------------------------------------------------------------------------
SomeIn(j)  == ToSet(Objects(j, 8))
CodesOf(o) == ToSet(Numbers(o, <<"code", "status_code", "error_code">>))

(* A claim is sent only on an answer that no error comes with at any level  *)
(* and that says somewhere, with no official name to the contrary beside    *)
(* it, that the account has not checked in; an account counts as checked in *)
(* only if the answer says so and does not deny it for the account itself;  *)
(* the device has only with code 9095 or when the account's own flag is     *)
(* denied.                                                                  *)
VerdictIsRead(j, v) ==
  LET says(flag) == \E o \in SomeIn(j) : flag \in ToSet(Flags(o, Official \o Other))
      denied     == IsScalar(Find(j, "checked_in"), {"bool"}) /\ ~Find(j, "checked_in").flag
      clean      == \A o \in SomeIn(j) : CodesOf(o) \subseteq {0}
  IN /\ v \in {1, 2} => clean
     /\ v = 2 => \E o \in SomeIn(j) : /\ FALSE \in ToSet(Flags(o, Official \o Other))
                                       /\ TRUE \notin ToSet(Flags(o, Official))
     /\ v = 1 => says(TRUE) /\ ~denied
     /\ v = -2 => (clean /\ says(TRUE) /\ denied) \/ \E o \in SomeIn(j) : 9095 \in CodesOf(o)

(* A balance is never negative; without a summary or an event it is never   *)
(* more than the limits of the packs that can still be used.                *)
BalanceIsRead(j, b) ==
  LET all    == ToSet(Objects(j, 10))
      list(o) == Find(o, "user_entitlement_pack_list")
      packs  == UNION {{o} \X DOMAIN list(o).items :
                         o \in {x \in all : list(x) # None /\ list(x).kind = "array"}}
      pack(p) == list(p[1]).items[p[2]]
      ends(p) == ToSet(Numbers(pack(p), <<"expire_time", "end_time">>)) \ {0}
      usable == {p \in packs : ends(p) = {} \/ \E e \in ends(p) : e > Now}
      told   == {o \in all : FindAll(o, <<"usage_summary", "cn_credits_remain_info",
                                         "credits_remain_info", "ide_credits">>) # <<>>}
  IN /\ b >= 0
     /\ told = {} => b <= MapThenSumSet(LAMBDA p : AtLeast0(Amount(pack(p), "credits_limit", 0)), usable)

AnswerIsRead ==
  [][/\ verdict' # verdict => VerdictIsRead(answer', verdict')
     /\ balance' # balance => BalanceIsRead(answer', balance')]_vars

=============================================================================
