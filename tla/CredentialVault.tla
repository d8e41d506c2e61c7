---------------------------- MODULE CredentialVault ----------------------------
(***************************************************************************)
(* The credential store of Trae Relay (credentials::): index.json with a   *)
(* row per account, and one encrypted file per row, the vault, that holds   *)
(* its tokens.                                                              *)
(*                                                                         *)
(* An operation of the user (add, enable, setSource, remove) writes both,   *)
(* one after the other, under the registry lock; the threads that refresh   *)
(* a token write the vault of their account object (persist), which may be  *)
(* an object of an earlier login.  Every login has a generation of its own, *)
(* kept in its objects and in the row, that tells them apart.  Any write    *)
(* may fail, and the program may crash and start again at any step.         *)
(*                                                                         *)
(* The upstream rotates refresh tokens: the token a login was given last is *)
(* the one it accepts.  A token is its login and the number of rotations.   *)
(***************************************************************************)
EXTENDS Naturals, FiniteSets

CONSTANTS
  Id,           \* row ids; an id is never used again
  SourceOf,     \* where the account of a row comes from
  Object,       \* names for account objects
  Thread,       \* the threads that refresh tokens: a subset of Threads
  MaxLogin,     \* bound on the logins
  MaxRotation,  \* bound on the rotations of a login's token
  None

Source  == {"default", "web"}
Threads == {"request", "credit", "batch"}
Operator == "operator"

ASSUME VaultAssumption ==
  /\ SourceOf \in [Id -> Source]
  /\ Thread \subseteq Threads
  /\ None \notin Id \cup Object \cup Threads \cup {Operator}
  /\ MaxLogin \in Nat /\ MaxRotation \in Nat

VARIABLES
  rows,       \* generation in the row of each id, 0 when there is no row
  enabled,    \* registry["active"]
  source,     \* registry["source"]
  vaultLogin, \* the login whose token the vault file holds, 0: no file
  vaultTurn,  \* and the rotation of that token
  gone,       \* ids of removed rows
  logins,     \* number of logins so far
  latest,     \* the rotation of the token the upstream gave each login last
  pool,       \* the enabled account object, or None
  retired,    \* objects whose Account::retired is set
  dirty,      \* objects whose Account::credentialDirty is set
  idOf,       \* Account::auth.credentialId
  genOf,      \* Account::auth.credentialGeneration
  loginOf,    \* the token of the object: its login
  turnOf,     \*   and its rotation
  rmtx,       \* owner of Account::refreshMtx
  refreshing, \* credentials::refreshing
  pc,         \* where each thread is
  acct,       \* the object it works on
  opPc,       \* the operation that holds the registry lock: where it is,
  opKind,     \*   "add", "switch" or "remove",
  opId,       \*   the row it is about, or None,
  opNew,      \*   the object it will enable, or None,
  opSource,   \*   the source it will select
  promised,   \* the login of each id add said would be used on restart, or 0
  lost        \* logins whose last token was not received or not written

registryVars == <<rows, enabled, source, gone>>
fileVars     == <<vaultLogin, vaultTurn>>
upstreamVars == <<logins, latest>>
poolVars     == <<pool, retired>>
objectVars   == <<idOf, genOf, loginOf, turnOf>>
threadVars   == <<refreshing, pc, acct>>
opVars       == <<opPc, opKind, opId, opNew, opSource>>
vars == <<registryVars, fileVars, upstreamVars, poolVars, dirty, objectVars,
          rmtx, threadVars, opVars, promised, lost>>

Referenced == {pool, opNew} \cup {acct[t] : t \in Thread}
Fresh(o)   == o \in Object \ Referenced
GuardFree  == opPc = "idle"
\* requests that hold a slot of the enabled object (Account::active)
Slots      == {t \in Thread \cap {"request"} : pc[t] # "idle" /\ acct[t] = pool}

Init ==
  /\ rows = [i \in Id |-> 0] /\ enabled = None /\ source = "default"
  /\ vaultLogin = [i \in Id |-> 0] /\ vaultTurn = [i \in Id |-> 0]
  /\ gone = {} /\ logins = 0 /\ latest = [g \in 1..MaxLogin |-> 0]
  /\ pool = None /\ retired = {} /\ dirty = {}
  /\ idOf = [o \in Object |-> None] /\ genOf = [o \in Object |-> 0]
  /\ loginOf = [o \in Object |-> 0] /\ turnOf = [o \in Object |-> 0]
  /\ rmtx = [o \in Object |-> None]
  /\ refreshing = FALSE
  /\ pc = [t \in Thread |-> "idle"] /\ acct = [t \in Thread |-> None]
  /\ opPc = "idle" /\ opKind = "add" /\ opId = None /\ opNew = None
  /\ opSource = "default"
  /\ promised = [i \in Id |-> 0] /\ lost = {}

(* load: the token comes from the vault file, the generation from the row.  *)
Load(o, i) ==
  /\ idOf' = [idOf EXCEPT ![o] = i]
  /\ genOf' = [genOf EXCEPT ![o] = rows[i]]
  /\ loginOf' = [loginOf EXCEPT ![o] = vaultLogin[i]]
  /\ turnOf' = [turnOf EXCEPT ![o] = vaultTurn[i]]
  /\ dirty' = dirty \ {o} /\ retired' = retired \ {o}

-----------------------------------------------------------------------------
(* The operations of the user.  Each holds guard from its first to its last *)
(* step, and the refreshMtx of the enabled object.                          *)
TryTokenLock == pool # None => rmtx[pool] = None
TokenLock(o) == rmtx' = IF pool = None THEN rmtx ELSE [rmtx EXCEPT ![pool] = o]

(* The operation returns and the locks are released.                        *)
OpEnd ==
  /\ opPc' = "idle" /\ opId' = None /\ opNew' = None
  /\ rmtx' = [o \in Object |-> IF rmtx[o] = Operator THEN None ELSE rmtx[o]]
  /\ UNCHANGED <<opKind, opSource>>

(* replaceActive: the enabled object is retired and o takes its place.      *)
Replace(o) ==
  /\ pool' = o
  /\ retired' = IF pool = None THEN retired ELSE retired \cup {pool}

(* add: a login from the web or from the directory of the IDE.  The row of  *)
(* the account gets a new generation, or there is a new row.                *)
StartAdd(i, o) ==
  /\ GuardFree /\ TryTokenLock /\ Fresh(o)
  /\ logins < MaxLogin
  /\ i \notin gone /\ (rows[i] = 0 => vaultLogin[i] = 0)
  /\ SourceOf[i] = "web" \/ source = "default"
  /\ ~ (enabled = i /\ Slots # {})
  /\ logins' = logins + 1
  /\ idOf' = [idOf EXCEPT ![o] = i]
  /\ genOf' = [genOf EXCEPT ![o] = logins + 1]
  /\ loginOf' = [loginOf EXCEPT ![o] = logins + 1]
  /\ turnOf' = [turnOf EXCEPT ![o] = 0]
  /\ dirty' = dirty \ {o} /\ retired' = retired \ {o}
  /\ TokenLock(Operator)
  /\ opPc' = "write" /\ opKind' = "add" /\ opId' = i /\ opNew' = o
  /\ opSource' = source
  /\ UNCHANGED <<registryVars, fileVars, latest, pool, threadVars, promised, lost>>

(* add: writeAccount.                                                       *)
AddWrite ==
  /\ opPc = "write"
  /\ \/ /\ vaultLogin' = [vaultLogin EXCEPT ![opId] = loginOf[opNew]]
        /\ vaultTurn' = [vaultTurn EXCEPT ![opId] = turnOf[opNew]]
        /\ promised' = [promised EXCEPT ![opId] = 0]
        /\ opPc' = "commit"
        /\ UNCHANGED <<opKind, opId, opNew, opSource, rmtx>>
     \/ OpEnd /\ UNCHANGED <<fileVars, promised>>
  /\ UNCHANGED <<registryVars, upstreamVars, poolVars, dirty, objectVars, threadVars, lost>>

\* Mutant of AddCommit: the enabled object stays.
AddKeepsObject ==
  /\ opPc = "commit" /\ opKind = "add"
  /\ OpEnd
  /\ rows' = [rows EXCEPT ![opId] = genOf[opNew]]
  /\ UNCHANGED <<enabled, source, gone, fileVars, upstreamVars, poolVars, dirty, objectVars, threadVars, promised, lost>>

(* add: the row is committed, which fails if the file cannot be written; an *)
(* enabled account is replaced by the new object, unless a request was given *)
(* it since the operation began.                                            *)
AddCommit ==
  /\ opPc = "commit" /\ opKind = "add"
  /\ OpEnd
  /\ IF enabled = opId /\ Slots # {}
       THEN \* "Account is busy; saved credentials will be used on restart"
            /\ promised' = [promised EXCEPT ![opId] = genOf[opNew]]
            /\ UNCHANGED <<rows, poolVars>>
       ELSE /\ UNCHANGED promised
            /\ \/ /\ rows' = [rows EXCEPT ![opId] = genOf[opNew]]
                  /\ IF enabled = opId THEN Replace(opNew) ELSE UNCHANGED poolVars
               \/ UNCHANGED <<rows, poolVars>>
  /\ UNCHANGED <<enabled, source, gone, fileVars, upstreamVars, dirty, objectVars, threadVars, lost>>

(* switchTo, on behalf of enable (i is the row, src the source there is),    *)
(* setSource (i = None, src the other source) and remove.                   *)
StartSwitch(kind, i, src) ==
  /\ GuardFree /\ ~refreshing /\ TryTokenLock
  /\ TokenLock(Operator)
  /\ opPc' = "commit" /\ opKind' = kind /\ opId' = i /\ opSource' = src
  /\ UNCHANGED <<registryVars, fileVars, upstreamVars, pool, threadVars, promised, lost>>

StartEnable(i, o) ==
  /\ rows[i] # 0 /\ SourceOf[i] = source
  /\ vaultLogin[i] # 0 /\ Fresh(o)
  /\ Load(o, i) /\ opNew' = o
  /\ StartSwitch("switch", i, source)

StartSetSource(src) ==
  /\ src # source
  /\ opNew' = None /\ UNCHANGED <<objectVars, dirty, retired>>
  /\ StartSwitch("switch", None, src)

(* remove: a row that is not enabled is committed away without a switch.    *)
StartRemove(i) ==
  /\ GuardFree /\ rows[i] # 0
  /\ opNew' = None /\ UNCHANGED <<objectVars, dirty, retired>>
  /\ \/ enabled = i /\ StartSwitch("remove", i, source)
     \/ /\ enabled # i
        /\ opPc' = "commit" /\ opKind' = "remove" /\ opId' = i /\ opSource' = source
        /\ UNCHANGED <<rmtx, registryVars, fileVars, upstreamVars, pool, threadVars, promised, lost>>

(* The switch is refused while a request is in flight, or the commit fails. *)
SwitchCommit ==
  /\ opPc = "commit" /\ opKind = "switch"
  /\ OpEnd
  /\ \/ /\ Slots = {}
        /\ enabled' = opId /\ source' = opSource
        /\ Replace(opNew)
     \/ UNCHANGED <<enabled, source, poolVars>>
  /\ UNCHANGED <<rows, gone, fileVars, upstreamVars, dirty, objectVars, threadVars, promised, lost>>

\* Mutant of RemoveCommit: the file is deleted before the row is committed.
RemoveFileFirst ==
  /\ opPc = "commit" /\ opKind = "remove"
  /\ vaultLogin' = [vaultLogin EXCEPT ![opId] = 0]
  /\ vaultTurn' = [vaultTurn EXCEPT ![opId] = 0]
  /\ \/ /\ enabled = opId => Slots = {}
        /\ rows' = [rows EXCEPT ![opId] = 0] /\ gone' = gone \cup {opId}
        /\ promised' = [promised EXCEPT ![opId] = 0]
        /\ IF enabled = opId
             THEN enabled' = None /\ Replace(None)
             ELSE UNCHANGED <<enabled, poolVars>>
     \/ UNCHANGED <<rows, gone, promised, enabled, poolVars>>
  /\ OpEnd
  /\ UNCHANGED <<source, upstreamVars, dirty, objectVars, threadVars, lost>>

RemoveCommit ==
  /\ opPc = "commit" /\ opKind = "remove"
  /\ \/ /\ enabled = opId => Slots = {}
        /\ rows' = [rows EXCEPT ![opId] = 0] /\ gone' = gone \cup {opId}
        /\ promised' = [promised EXCEPT ![opId] = 0]
        /\ IF enabled = opId
             THEN enabled' = None /\ Replace(None)
             ELSE UNCHANGED <<enabled, poolVars>>
        /\ opPc' = "delete" /\ UNCHANGED <<opKind, opId, opNew, opSource, rmtx>>
     \/ OpEnd /\ UNCHANGED <<rows, gone, promised, enabled, poolVars>>
  /\ UNCHANGED <<source, fileVars, upstreamVars, dirty, objectVars, threadVars, lost>>

(* remove: the vault file is deleted, which may fail.                       *)
RemoveFile ==
  /\ opPc = "delete"
  /\ OpEnd
  /\ \/ /\ vaultLogin' = [vaultLogin EXCEPT ![opId] = 0]
        /\ vaultTurn' = [vaultTurn EXCEPT ![opId] = 0]
     \/ UNCHANGED fileVars
  /\ UNCHANGED <<registryVars, upstreamVars, poolVars, dirty, objectVars, threadVars, promised, lost>>

-----------------------------------------------------------------------------
(* A thread that refreshes the token of an account object.                  *)
Goto(t, to) == pc' = [pc EXCEPT ![t] = to]

(* A request takes the enabled object with a slot, the credits worker       *)
(* without one.                                                             *)
Take(t) ==
  /\ t \in {"request", "credit"} /\ pc[t] = "idle" /\ pool # None
  /\ acct' = [acct EXCEPT ![t] = pool] /\ Goto(t, "ensure")
  /\ UNCHANGED <<registryVars, fileVars, upstreamVars, poolVars, dirty, objectVars, rmtx, refreshing, opVars, promised, lost>>

(* refreshAll and runAutoCheckins: row by row, with the enabled object for  *)
(* the enabled row and a copy from the vault for the others.                *)
BatchStart ==
  /\ "batch" \in Thread /\ ~refreshing
  /\ refreshing' = TRUE
  /\ UNCHANGED <<registryVars, fileVars, upstreamVars, poolVars, dirty, objectVars, rmtx, pc, acct, opVars, promised, lost>>

IsEnabled(i) == pool # None /\ idOf[pool] = i

BatchTake(i, o) ==
  /\ "batch" \in Thread /\ refreshing /\ pc["batch"] = "idle" /\ GuardFree /\ rows[i] # 0
  /\ Goto("batch", "ensure")
  /\ \/ /\ IsEnabled(i)
        /\ acct' = [acct EXCEPT !["batch"] = pool]
        /\ UNCHANGED <<objectVars, dirty, retired>>
     \/ /\ ~IsEnabled(i)
        /\ vaultLogin[i] # 0 /\ Fresh(o)
        /\ Load(o, i) /\ acct' = [acct EXCEPT !["batch"] = o]
  /\ UNCHANGED <<registryVars, fileVars, upstreamVars, pool, rmtx, refreshing, opVars, promised, lost>>

BatchEnd ==
  /\ "batch" \in Thread /\ refreshing /\ pc["batch"] = "idle"
  /\ refreshing' = FALSE
  /\ UNCHANGED <<registryVars, fileVars, upstreamVars, poolVars, dirty, objectVars, rmtx, pc, acct, opVars, promised, lost>>

(* ensureFreshToken: a retired object is left alone, a token that could not *)
(* be written before is written first.                                      *)
Enter(t) ==
  /\ pc[t] = "ensure" /\ rmtx[acct[t]] = None
  /\ IF acct[t] \in retired
       THEN /\ pc' = [pc EXCEPT ![t] = "idle"] /\ acct' = [acct EXCEPT ![t] = None]
            /\ UNCHANGED rmtx
       ELSE /\ rmtx' = [rmtx EXCEPT ![acct[t]] = t]
            /\ Goto(t, IF acct[t] \in dirty THEN "retry" ELSE "exchange")
            /\ UNCHANGED acct
  /\ UNCHANGED <<registryVars, fileVars, upstreamVars, poolVars, dirty, objectVars, refreshing, opVars, promised, lost>>

(* ensureFreshToken returns and the thread gives the object back.           *)
Leave(t) ==
  /\ pc' = [pc EXCEPT ![t] = "idle"]
  /\ rmtx' = [rmtx EXCEPT ![acct[t]] = None]
  /\ acct' = [acct EXCEPT ![t] = None]

Valid(o) == turnOf[o] = latest[loginOf[o]]   \* the upstream accepts its token

\* Mutant of Exchange: the new token is used and not written.
ExchangeUnsaved(t) ==
  /\ pc[t] = "exchange"
  /\ LET o == acct[t] IN
       /\ Valid(o) /\ latest[loginOf[o]] < MaxRotation
       /\ latest' = [latest EXCEPT ![loginOf[o]] = @ + 1]
       /\ turnOf' = [turnOf EXCEPT ![o] = @ + 1]
  /\ Leave(t)
  /\ UNCHANGED <<registryVars, fileVars, logins, poolVars, dirty, idOf, genOf, loginOf, refreshing, opVars, promised, lost>>

(* The upstream rotates the token; or it does and its answer is lost, and   *)
(* no one has the new token; or it is not due, or the exchange fails.       *)
Exchange(t) ==
  /\ pc[t] = "exchange"
  /\ LET o == acct[t] IN
       \/ /\ Valid(o) /\ latest[loginOf[o]] < MaxRotation
          /\ latest' = [latest EXCEPT ![loginOf[o]] = @ + 1]
          /\ \/ /\ turnOf' = [turnOf EXCEPT ![o] = @ + 1]
                /\ dirty' = dirty \cup {o}
                /\ Goto(t, "persist") /\ UNCHANGED <<rmtx, acct, lost>>
             \/ /\ lost' = lost \cup {loginOf[o]}
                /\ Leave(t) /\ UNCHANGED <<turnOf, dirty>>
       \/ Leave(t) /\ UNCHANGED <<latest, turnOf, dirty, lost>>
  /\ UNCHANGED <<registryVars, fileVars, logins, poolVars, idOf, genOf, loginOf, refreshing, opVars, promised>>

\* Mutant of Persistable: the row is not compared.
PersistableAlways(o) == TRUE

\* Mutant of Persistable: the generation is not compared.
PersistableRow(o) == rows[idOf[o]] # 0

(* persist: only the object of the login in the row writes the vault.       *)
Persistable(o) == rows[idOf[o]] # 0 /\ rows[idOf[o]] = genOf[o]

PersistDone(t) ==
  /\ dirty' = dirty \ {acct[t]}
  /\ IF pc[t] = "retry" THEN Goto(t, "exchange") /\ UNCHANGED <<rmtx, acct>> ELSE Leave(t)

persist(t) ==
  /\ pc[t] \in {"retry", "persist"} /\ GuardFree
  /\ LET o == acct[t] IN
       \/ /\ ~Persistable(o) /\ PersistDone(t) /\ UNCHANGED <<fileVars, lost>>
       \/ /\ Persistable(o)
          /\ vaultLogin' = [vaultLogin EXCEPT ![idOf[o]] = loginOf[o]]
          /\ vaultTurn' = [vaultTurn EXCEPT ![idOf[o]] = turnOf[o]]
          /\ lost' = lost \ {loginOf[o]}
          /\ PersistDone(t)
       \/ /\ Persistable(o)       \* the write fails
          /\ lost' = lost \cup {loginOf[o]}
          /\ Leave(t) /\ UNCHANGED <<fileVars, dirty>>
  /\ UNCHANGED <<registryVars, upstreamVars, poolVars, objectVars, refreshing, opVars, promised>>

(* The process ends at any step and is started again: initialize loads the  *)
(* enabled row.                                                             *)
Restart(o) ==
  /\ pc' = [t \in Thread |-> "idle"] /\ acct' = [t \in Thread |-> None]
  /\ refreshing' = FALSE
  /\ opPc' = "idle" /\ opId' = None /\ opNew' = None /\ UNCHANGED <<opKind, opSource>>
  /\ rmtx' = [x \in Object |-> None]
  /\ dirty' = {} /\ retired' = {}
  /\ lost' = lost \cup {loginOf[x] : x \in dirty \cap Referenced}
  /\ promised' = promised
  /\ IF enabled # None /\ SourceOf[enabled] = source /\ vaultLogin[enabled] # 0
       THEN /\ pool' = o
            /\ idOf' = [x \in Object |-> IF x = o THEN enabled ELSE None]
            /\ genOf' = [x \in Object |-> IF x = o THEN rows[enabled] ELSE 0]
            /\ loginOf' = [x \in Object |-> IF x = o THEN vaultLogin[enabled] ELSE 0]
            /\ turnOf' = [x \in Object |-> IF x = o THEN vaultTurn[enabled] ELSE 0]
       ELSE /\ pool' = None
            /\ idOf' = [x \in Object |-> None] /\ genOf' = [x \in Object |-> 0]
            /\ loginOf' = [x \in Object |-> 0] /\ turnOf' = [x \in Object |-> 0]
  /\ UNCHANGED <<registryVars, fileVars, upstreamVars>>

-----------------------------------------------------------------------------
Operation ==
  \/ \E i \in Id, o \in Object : StartAdd(i, o) \/ StartEnable(i, o)
  \/ \E s \in Source : StartSetSource(s)
  \/ \E i \in Id : StartRemove(i)
  \/ AddWrite \/ AddCommit \/ SwitchCommit \/ RemoveCommit \/ RemoveFile

Refresh ==
  \/ \E t \in Thread : Take(t) \/ Enter(t) \/ Exchange(t) \/ persist(t)
  \/ BatchStart \/ BatchEnd
  \/ \E i \in Id, o \in Object : BatchTake(i, o)

Next == Operation \/ Refresh \/ \E o \in Object : Restart(o)

Spec == Init /\ [][Next]_vars

-----------------------------------------------------------------------------
TypeOK ==
  /\ rows \in [Id -> Nat] /\ enabled \in Id \cup {None}
  /\ source \in Source /\ gone \subseteq Id
  /\ vaultLogin \in [Id -> Nat] /\ vaultTurn \in [Id -> Nat]
  /\ logins \in Nat /\ latest \in [1..MaxLogin -> Nat]
  /\ pool \in Object \cup {None} /\ retired \subseteq Object /\ dirty \subseteq Object
  /\ idOf \in [Object -> Id \cup {None}] /\ genOf \in [Object -> Nat]
  /\ loginOf \in [Object -> Nat] /\ turnOf \in [Object -> Nat]
  /\ rmtx \in [Object -> Thread \cup {Operator, None}]
  /\ refreshing \in BOOLEAN
  /\ pc \in [Thread -> {"idle", "ensure", "retry", "exchange", "persist"}]
  /\ acct \in [Thread -> Object \cup {None}]
  /\ opPc \in {"idle", "write", "commit", "delete"}
  /\ opKind \in {"add", "switch", "remove"} /\ opId \in Id \cup {None}
  /\ opNew \in Object \cup {None} /\ opSource \in Source
  /\ \A t \in Thread : pc[t] = "idle" <=> acct[t] = None
  /\ \A t \in Thread, o \in Object :
       rmtx[o] = t <=> pc[t] \in {"retry", "exchange", "persist"} /\ acct[t] = o
  /\ promised \in [Id -> Nat] /\ lost \subseteq Nat

(* Every row can be loaded, also after a crash or a failed write: its file  *)
(* is written before the row is committed and deleted after it is gone.     *)
RowHasVault == \A i \in Id : rows[i] # 0 => vaultLogin[i] # 0

(* The vault never falls back to an earlier login than the one in the row,  *)
(* whoever writes: the generation keeps objects of earlier logins out.      *)
VaultNotOlder == \A i \in Id : vaultLogin[i] >= rows[i]

(* What the enabled object rotates is written: it is the object of the row  *)
(* index.json names as active, in its generation.                           *)
EnabledPersists ==
  pool # None =>
    /\ idOf[pool] = enabled /\ Persistable(pool)
    /\ SourceOf[enabled] = source

(* The vault holds the token the upstream will accept, or an object that    *)
(* may write it does, unless the answer that brought it was lost, a write   *)
(* failed or the program crashed between the exchange and the write.        *)
TokenKept ==
  \A i \in Id :
    LET g == vaultLogin[i] IN
      rows[i] # 0 =>
        \/ vaultTurn[i] = latest[g] \/ g \in lost
        \/ \E t \in Thread :
             /\ pc[t] = "persist" /\ loginOf[acct[t]] = g /\ Valid(acct[t])
             /\ idOf[acct[t]] = i /\ Persistable(acct[t])

(* A file that was deleted is never written again: a thread that still      *)
(* holds an object of a removed account does not bring its tokens back.     *)
DeletedStaysDeleted ==
  [][\A i \in gone : vaultLogin[i] = 0 => vaultLogin'[i] = 0]_vars

(* What add reports when it finds the account busy: "saved credentials will *)
(* be used on restart".                                                     *)
BusyAddIsKept ==
  \A i \in Id : promised[i] # 0 => vaultLogin[i] = promised[i]

=============================================================================
