---------------------------- MODULE AccountsProofs ----------------------------
(***************************************************************************)
(* What four parts guarantee for any devices, browsers, requests, answers  *)
(* and restarts: the clients' sessions (Sessions), the admin console's     *)
(* sign-in (AdminLogin), complexity routing (Routing) and the stream of an *)
(* answer (Answer).  They share no state, and their proofs share nothing   *)
(* but this module.                                                        *)
(*                                                                         *)
(* Sessions.  The tokens are everything anyone holds: answered to a        *)
(* sign-in, in a file, presented or got by a refresh.  A step adds one     *)
(* token at most, so what is true of all of them (TokensStand) is kept by  *)
(* looking at that one.  That a refresh keeps its session (SessionKept)    *)
(* is about where the tokens of the latest sign-in are: on one device,     *)
(* whose file and whose windows are at the card's last rotation, or one    *)
(* behind it within its grace and with somebody about to bring the new     *)
(* one.                                                                    *)
(*                                                                         *)
(* AdminLogin.  A code is accepted once because lastUsed only grows        *)
(* within a process, and the next process starts past every code the last  *)
(* one can have accepted.  A session stays out because its id comes into   *)
(* the table once and because whatever is in the table, or about to be,    *)
(* is of this epoch only if no ending came after it was signed.            *)
(*                                                                         *)
(* Routing.  A cheap provider serves what was called simple because every  *)
(* decision and every draft carries only providers its own complexity      *)
(* allows (ChainsStand).  The budget holds because the day's reservations  *)
(* are counted whole before the classifier is asked and only ever given    *)
(* back for a call that ended (BudgetStands), for which the call being     *)
(* settled must still stand at the reserve (Reserved); that an invocation  *)
(* is not asked about twice rests on how long its decision is kept         *)
(* (CallsApart).                                                           *)
(*                                                                         *)
(* Answer.  Kiro gets every call whole because the buffers are the calls   *)
(* begun, each with its own pieces alone (BuffersStand), and what Kiro has *)
(* is, of each, the part sent on, and the whole of those that ended        *)
(* (KiroStands).  A round of advance keeps both (RoundStands), so all its  *)
(* rounds do, and so, call by call, do the frames an answer ends with      *)
(* (EndedUpTo).  A bill follows the upstream because a restated prompt is  *)
(* what the guard has counted from then on (HeardStands).                  *)
(***************************************************************************)
EXTENDS Sessions, AdminLogin, Routing, Answer, SumProofs

TokenType == [signIn : Nat, device : Devices, version : Nat, refresh : Nat]

Stages == {"idle", "asked", "verified", "rotated", "answered", "used", "ended"}

RefreshType ==
  [stage : Stages, live : BOOLEAN,
   token : TokenType \cup {NoToken}, got : TokenType \cup {NoToken}]

Statuses == {"Unactivated", "Active", "Frozen"}

CardType ==
  [status : Statuses, from : Statuses, lapsed : BOOLEAN, version : Nat,
   refresh : Nat, signIn : Nat, bound : Devices \cup {NoDevice}]

TypesOK ==
  /\ card \in CardType
  /\ rotated \in {"never", "grace", "long"}
  /\ login \in [Devices -> TokenType \cup {NoToken}]
  /\ file \in [Devices -> TokenType \cup {NoToken}]
  /\ fresh \subseteq Devices /\ signedIn \subseteq Windows /\ owed \subseteq Windows
  /\ refresh \in [Windows -> RefreshType]
  /\ issued \subseteq [device : Devices, version : Nat]
  /\ spoilt \in BOOLEAN

Nonidle(w) == ~At(w, "idle")

\* The tokens anyone holds.
Tokens ==
  ({login[d] : d \in Devices} \cup {file[d] : d \in Devices}
     \cup {refresh[w].token : w \in Windows} \cup {refresh[w].got : w \in Windows})
  \ {NoToken}

\* What is true of a token t: it is not ahead of the card; of the card's version, it is
\* of the device that is bound; at the last rotation, or one behind it while it is
\* young, it is of the latest sign-in.
Stands(t) ==
  /\ t.version <= card.version /\ t.signIn <= card.signIn /\ t.refresh <= card.refresh
  /\ t.version = card.version => t.device = card.bound
  /\ t.refresh = card.refresh => Latest(t)
  /\ t.refresh + 1 = card.refresh /\ rotated = "grace" => Latest(t)

\* Tokens that go back to one sign-in are of one device, and access tokens are current.
TokensStand ==
  /\ \A t \in Tokens : Stands(t)
  /\ \A t, u \in Tokens : t.signIn = u.signIn => t.device = u.device
  /\ \A t \in issued : t.version = card.version /\ t.device = card.bound

\* Where tokens are, and how a refresh relates what it got to what it presented.
RefreshesMatch ==
  /\ \A d \in Devices : login[d] # NoToken => login[d].device = d
  /\ \A w \in Windows :
       /\ At(w, "idle") => refresh[w] = Idle
       /\ Nonidle(w) => refresh[w].token # NoToken
       /\ At(w, "rotated") \/ At(w, "answered") => refresh[w].got # NoToken
       /\ refresh[w].got # NoToken =>
            /\ refresh[w].got.signIn = refresh[w].token.signIn
            /\ refresh[w].got.device = refresh[w].token.device
            /\ refresh[w].got.refresh = refresh[w].token.refresh + 1
       /\ refresh[w].live =>
            /\ file[Device[w]] # NoToken
            /\ file[Device[w]].signIn = refresh[w].token.signIn

Cur(t) == t # NoToken /\ Latest(t)

\* A window of the device waits for an answer or is about to ask again.
Awaited(d) == \E w \in Windows : Device[w] = d /\ (refresh[w].live \/ w \in owed)

\* A refresh with a token of the latest sign-in.
Current(w) == Nonidle(w) /\ Cur(refresh[w].token)

\* The sign-in that was answered and not yet saved is the only holder of its tokens.
LoginKept(d) ==
  Cur(login[d]) =>
    /\ login[d].refresh = card.refresh
    /\ \A e \in Devices : ~Cur(file[e])
    /\ \A w \in Windows : ~Current(w)

\* The file of the latest sign-in is at the last rotation, or about to be.
FileKept(d) ==
  Cur(file[d]) =>
    /\ file[d].device = d
    /\ \/ file[d].refresh = card.refresh
       \/ file[d].refresh + 1 = card.refresh /\ rotated = "grace" /\ Awaited(d)
    /\ d \in fresh => file[d].refresh = card.refresh

\* So is every refresh that is waited for; refreshes of a device go on side by side only
\* with one token, which is not the one its file was renewed with.
RefreshKept(w) ==
  Current(w) =>
    LET d == Device[w]
        t == refresh[w].token
    IN /\ t.device = d
       /\ Cur(file[d]) =>
            /\ d \notin fresh => t.refresh = file[d].refresh
            /\ d \in fresh => t.refresh < card.refresh
            /\ t.refresh = card.refresh => Awaited(d)
       /\ refresh[w].live =>
            /\ \/ t.refresh = card.refresh
               \/ t.refresh + 1 = card.refresh /\ rotated = "grace"
            /\ At(w, "rotated") \/ At(w, "answered") => refresh[w].got.refresh = card.refresh
            /\ ~At(w, "used") /\ ~At(w, "ended")

Kept ==
  /\ \A d \in Devices : LoginKept(d) /\ FileKept(d)
  /\ \A w \in Windows : RefreshKept(w)

SessionKept == spoilt \/ Kept

SInv == TypesOK /\ TokensStand /\ RefreshesMatch /\ SessionKept

-----------------------------------------------------------------------------
\* Types.

\* The windows' devices and what stands for none of a kind.
LEMMA ConstantTypes ==
  /\ NoDevice \notin Devices /\ Device \in [Windows -> Devices] /\ CopiedTo \subseteq Devices
  /\ NoToken \notin TokenType /\ Idle \in RefreshType
BY SeatsAreDevices DEF NoToken, TokenType, Idle, RefreshType, Stages

\* An abandoned refresh and one that comes to a stage are refreshes.
LEMMA RefreshMoves ==
  ASSUME refresh \in [Windows -> RefreshType], NEW w \in Windows
  PROVE  /\ Abandoned(w) \in RefreshType
         /\ \A stage \in Stages, got \in TokenType \cup {NoToken} :
              Tell(w, stage, got) \in [Windows -> RefreshType]
<1>1. refresh[w] \in RefreshType
  OBVIOUS
<1>2. [refresh[w] EXCEPT !.live = FALSE] \in RefreshType
  BY <1>1 DEF RefreshType
<1>3. Abandoned(w) \in RefreshType
  BY <1>2, ConstantTypes DEF Abandoned
<1>4. ASSUME NEW stage \in Stages, NEW got \in TokenType \cup {NoToken}
      PROVE  Tell(w, stage, got) \in [Windows -> RefreshType]
  <2>1. [refresh[w] EXCEPT !.stage = stage, !.got = got] \in RefreshType
    BY <1>1 DEF RefreshType
  <2> QED
    BY <2>1, ConstantTypes DEF Tell
<1> QED
  BY <1>3, <1>4

\* An activated card is a card.
LEMMA ActivatedCard ==
  ASSUME NEW c \in CardType, NEW bound \in Devices \cup {NoDevice}
  PROVE  LET a == [c EXCEPT !.status = "Active", !.bound = bound,
                            !.refresh = c.refresh + 1, !.signIn = c.signIn + 1]
         IN /\ a \in CardType
            /\ a.signIn = c.signIn + 1 /\ a.refresh = c.refresh + 1
            /\ a.version = c.version /\ a.bound = bound
<1> DEFINE b == [c EXCEPT !.status = "Active", !.bound = bound]
           d == [b EXCEPT !.refresh = c.refresh + 1]
           a == [d EXCEPT !.signIn = c.signIn + 1]
<1>1. c.refresh + 1 \in Nat /\ c.signIn + 1 \in Nat
  BY DEF CardType
<1>2. b \in CardType /\ b.version = c.version /\ b.bound = bound /\ b.signIn = c.signIn
  BY DEF CardType, Statuses
<1>3. /\ d \in CardType /\ d.version = b.version /\ d.bound = b.bound /\ d.signIn = b.signIn
      /\ d.refresh = c.refresh + 1
  <2> HIDE DEF b
  <2> QED
    BY <1>1, <1>2 DEF CardType
<1>4. /\ a \in CardType /\ a.version = d.version /\ a.bound = d.bound /\ a.refresh = d.refresh
      /\ a.signIn = c.signIn + 1
  <2> HIDE DEF d
  <2> QED
    BY <1>1, <1>3 DEF CardType
<1>5. a = [c EXCEPT !.status = "Active", !.bound = bound,
                    !.refresh = c.refresh + 1, !.signIn = c.signIn + 1]
  BY DEF CardType
<1> HIDE DEF a, b, d
<1> QED
  BY <1>2, <1>3, <1>4, <1>5

\* A sign-in's card and its token.
LEMMA ActivationTypes ==
  ASSUME card \in CardType, NEW d \in Devices \cup {NoDevice}, ActivateCardWithDevice(d)
  PROVE  /\ card' \in CardType /\ rotated' = "never" /\ spoilt' = FALSE
         /\ card'.signIn = card.signIn + 1 /\ card'.refresh = card.refresh + 1
         /\ card'.version = card.version
         /\ d # NoDevice => card.bound \in {NoDevice, d} /\ card'.bound = d
         /\ d = NoDevice => card'.bound = card.bound
         /\ d \in Devices =>
              /\ Token(card', d) \in TokenType
              /\ Access(Token(card', d)) = [device |-> d, version |-> card.version]
<1>1. /\ card' = Activated(d) /\ rotated' = "never" /\ spoilt' = FALSE
      /\ d = NoDevice \/ card.bound \in {NoDevice, d}
  BY DEF ActivateCardWithDevice, BindDevice
<1> DEFINE bound == IF d = NoDevice THEN card.bound ELSE d
<1>2. bound \in Devices \cup {NoDevice}
  BY DEF CardType
<1>3. Activated(d) = [card EXCEPT !.status = "Active", !.bound = bound,
                                  !.refresh = @ + 1, !.signIn = @ + 1]
  BY DEF Activated, CardType
<1> HIDE DEF bound
<1>4. /\ card' \in CardType
      /\ card'.signIn = card.signIn + 1 /\ card'.refresh = card.refresh + 1
      /\ card'.version = card.version /\ card'.bound = bound
  <2>1. card' = [card EXCEPT !.status = "Active", !.bound = bound,
                             !.refresh = card.refresh + 1, !.signIn = card.signIn + 1]
    BY <1>1, <1>3
  <2> QED
    BY <1>2, <2>1, ActivatedCard
<1>5. ASSUME d \in Devices
      PROVE  /\ Token(card', d) \in TokenType
             /\ Access(Token(card', d)) = [device |-> d, version |-> card.version]
  BY <1>4, <1>5 DEF CardType, Token, TokenType, Access
<1> QED
  BY <1>1, <1>4, <1>5 DEF bound

\* A card whose tokens end.
LEMMA RevocationTypes ==
  ASSUME card \in CardType
  PROVE  /\ Revoked(card) \in CardType /\ UnbindDevice \in CardType
         /\ AdminUnbindDevice \in CardType
         /\ [Revoked(card) EXCEPT !.status = "Frozen", !.from = card.status] \in CardType
         /\ [card EXCEPT !.status = card.from, !.from = "Unactivated"] \in CardType
         /\ \A lapsed \in BOOLEAN : [card EXCEPT !.lapsed = lapsed] \in CardType
<1> USE DEF CardType, Statuses
<1>1. Revoked(card) \in CardType
  BY DEF Revoked
<1>2. UnbindDevice \in CardType /\ AdminUnbindDevice \in CardType
  BY <1>1 DEF UnbindDevice, AdminUnbindDevice
<1>3. [Revoked(card) EXCEPT !.status = "Frozen", !.from = card.status] \in CardType
  BY <1>1
<1>4. [card EXCEPT !.status = card.from, !.from = "Unactivated"] \in CardType
  OBVIOUS
<1>5. \A lapsed \in BOOLEAN : [card EXCEPT !.lapsed = lapsed] \in CardType
  OBVIOUS
<1> QED
  BY <1>1, <1>2, <1>3, <1>4, <1>5

\* The initial state has the types.
LEMMA InitTyped == SessionsInit => TypesOK
<1> SUFFICES ASSUME SessionsInit PROVE TypesOK
  OBVIOUS
<1>1. card \in CardType /\ rotated \in {"never", "grace", "long"}
  BY DEF SessionsInit, CardType, Statuses
<1>2. spoilt \in BOOLEAN /\ fresh = {} /\ signedIn = {} /\ owed = {} /\ issued = {}
  BY Zenon DEF SessionsInit
<1> QED
  BY <1>1, <1>2, ConstantTypes DEF SessionsInit, TypesOK

\* Signing in and copying keep the types.
LEMMA DeviceTyped ==
  ASSUME TypesOK, NEW d \in Devices,
         \/ SignIn(d) \/ SaveSignIn(d) \/ LoseSignIn(d)
         \/ \E e \in CopiedTo : CopyFile(d, e)
  PROVE  TypesOK'
<1> USE ConstantTypes DEF TypesOK
<1>1. CASE SignIn(d)
  <2>1. ActivateCardWithDevice(d)
    BY <1>1 DEF SignIn
  <2>2. /\ card' \in CardType /\ rotated' = "never" /\ Token(card', d) \in TokenType
        /\ Access(Token(card', d)) = [device |-> d, version |-> card.version]
    BY <2>1, ActivationTypes
  <2>4. Access(Token(card', d)) \in [device : Devices, version : Nat]
    BY <2>2 DEF CardType
  <2>3. spoilt' \in BOOLEAN
    BY <2>1, Zenon DEF ActivateCardWithDevice
  <2> QED
    BY <1>1, <2>2, <2>3, <2>4 DEF SignIn
<1>2. CASE SaveSignIn(d)
  <2>1. \A w \in Windows : Abandoned(w) \in RefreshType
    BY RefreshMoves
  <2>2. refresh' \in [Windows -> RefreshType]
    BY <1>2, <2>1 DEF SaveSignIn
  <2>3. file' \in [Devices -> TokenType \cup {NoToken}] /\ login' \in [Devices -> TokenType \cup {NoToken}]
    BY <1>2 DEF SaveSignIn
  <2>4. fresh' \subseteq Devices /\ signedIn' \subseteq Windows /\ owed' \subseteq Windows
    BY <1>2 DEF SaveSignIn
  <2> QED
    BY <1>2, <2>2, <2>3, <2>4 DEF SaveSignIn
<1>3. CASE LoseSignIn(d)
  BY <1>3 DEF LoseSignIn
<1>4. CASE \E e \in CopiedTo : CopyFile(d, e)
  <2>1. spoilt' \in BOOLEAN
    BY <1>4, Zenon DEF CopyFile
  <2> QED
    BY <1>4, <2>1 DEF CopyFile
<1> QED
  BY <1>1, <1>2, <1>3, <1>4

\* A refresh keeps the types.
LEMMA ExchangeTyped ==
  ASSUME TypesOK, RefreshesMatch, NEW w \in Windows, Exchange(w)
  PROVE  TypesOK'
<1> USE ConstantTypes DEF TypesOK
<1>1. refresh[w] \in RefreshType /\ Device[w] \in Devices /\ Abandoned(w) \in RefreshType
  BY RefreshMoves
<1>2. CASE Ask(w)
  <2>1. [Idle EXCEPT !.stage = "asked", !.live = TRUE, !.token = file[Device[w]]] \in RefreshType
    BY <1>1 DEF Idle, RefreshType, Stages
  <2> QED
    BY <1>2, <2>1 DEF Ask
<1>3. ASSUME NEW t, NEW next \in Stages, Judge(w, t, next)
      PROVE  refresh' \in [Windows -> RefreshType] /\ spoilt' \in BOOLEAN
  <2>1. refresh[w].got \in TokenType \cup {NoToken} /\ "ended" \in Stages
    BY <1>1 DEF RefreshType, Stages
  <2>2. refresh' \in [Windows -> RefreshType]
    BY <1>3, <2>1, RefreshMoves DEF Judge
  <2>3. spoilt' \in BOOLEAN
    BY <1>3, Zenon DEF Judge
  <2> QED
    BY <2>2, <2>3
<1>4. CASE Verify(w)
  <2>1. "verified" \in Stages
    BY DEF Stages
  <2> QED
    BY <1>3, <1>4, <2>1 DEF Verify
<1>5. CASE RotateRefresh(w)
  <2> DEFINE t == refresh[w].token
  <2>1. card' \in CardType /\ rotated' \in {"never", "grace", "long"}
    BY <1>5 DEF RotateRefresh, CardType
  <2>2. CASE Rotates(t) \/ Reissues(t)
    <3>1. t \in TokenType
      BY <1>1, <1>5 DEF RefreshType, RefreshesMatch, Nonidle, At, RotateRefresh
    <3>2. Got(t, card') \in TokenType
      BY <2>1, <3>1 DEF Got, Token, TokenType, CardType, RefreshesMatch, Rotates, Reissues
    <3>3. refresh' \in [Windows -> RefreshType]
      BY <1>5, <2>2, <3>2, RefreshMoves DEF RotateRefresh, Stages
    <3> QED
      BY <1>5, <2>1, <3>3 DEF RotateRefresh
  <2>3. CASE ~(Rotates(t) \/ Reissues(t))
    <3>1. refresh' \in [Windows -> RefreshType]
      BY <1>5, <2>3, RefreshMoves DEF RotateRefresh, Stages
    <3> QED
      BY <1>5, <2>1, <3>1 DEF RotateRefresh
  <2> QED
    BY <2>2, <2>3
<1>6. CASE Answer(w)
  <2>1. refresh' \in [Windows -> RefreshType] /\ spoilt' \in BOOLEAN
    BY <1>3, <1>6 DEF Answer, Stages
  <2>2. refresh[w].got \in TokenType
    BY <1>1, <1>6 DEF RefreshType, RefreshesMatch, At, Answer
  <2>3. Access(refresh[w].got) \in [device : Devices, version : Nat]
    BY <2>2 DEF Access, TokenType
  <2> QED
    BY <1>1, <1>6, <2>1, <2>3 DEF Answer
<1>7. CASE Save(w)
  BY <1>1, <1>7 DEF Save, RefreshType
<1>8. CASE Refused(w)
  BY <1>1, <1>8 DEF Refused
<1>9. CASE Unanswered(w)
  BY <1>1, <1>9 DEF Unanswered
<1> QED
  BY <1>2, <1>4, <1>5, <1>6, <1>7, <1>8, <1>9 DEF Exchange

\* So do the portal, the operator and the clock.
LEMMA OthersTyped ==
  ASSUME TypesOK,
         \/ PortalActivate \/ PortalUnbind \/ OperatorRevokes \/ FreezeOrUnfreeze
         \/ Validity \/ GraceEnds \/ HourPasses
  PROVE  TypesOK'
<1> USE ConstantTypes DEF TypesOK
<1>1. ASSUME NEW c \in CardType, EndTokens(c)
      PROVE  card' \in CardType /\ issued' \subseteq [device : Devices, version : Nat]
  BY <1>1 DEF EndTokens
<1>2. CASE PortalActivate
  <2>1. CASE \E d \in Devices \cup {NoDevice} : ActivateCardWithDevice(d)
    <3>1. card' \in CardType /\ rotated' = "never"
      BY <2>1, ActivationTypes
    <3>2. spoilt' \in BOOLEAN
      BY <2>1, Zenon DEF ActivateCardWithDevice
    <3> QED
      BY <1>2, <3>1, <3>2 DEF PortalActivate
  <2>2. CASE \E d \in Devices : BindDevice(d) /\ card' = [card EXCEPT !.bound = d]
    <3>1. card' \in CardType
      BY <2>2 DEF CardType
    <3> QED
      BY <1>2, <3>1, <2>1 DEF PortalActivate
  <2> QED
    BY <1>2, <2>1, <2>2 DEF PortalActivate
<1>3. CASE PortalUnbind
  BY <1>1, <1>3, RevocationTypes DEF PortalUnbind
<1>4. CASE OperatorRevokes
  BY <1>1, <1>4, RevocationTypes DEF OperatorRevokes
<1>5. CASE FreezeOrUnfreeze
  BY <1>1, <1>5, RevocationTypes DEF FreezeOrUnfreeze
<1>6. CASE Validity
  <2>1. card' \in CardType
    BY <1>6, RevocationTypes DEF Validity
  <2> QED
    BY <1>6, <2>1 DEF Validity
<1>7. CASE GraceEnds
  BY <1>7 DEF GraceEnds
<1>8. CASE HourPasses
  BY <1>8 DEF HourPasses
<1> QED
  BY <1>2, <1>3, <1>4, <1>5, <1>6, <1>7, <1>8

\* Every step keeps the types.
LEMMA StepTyped ==
  ASSUME TypesOK, RefreshesMatch, [SessionsNext]_vars
  PROVE  TypesOK'
<1>1. CASE UNCHANGED vars
  BY <1>1 DEF vars, TypesOK
<1>2. CASE SessionsNext
  BY <1>2, DeviceTyped, ExchangeTyped, OthersTyped DEF SessionsNext
<1> QED
  BY <1>1, <1>2

-----------------------------------------------------------------------------
\* The refreshes.

\* What an exchange does to the refresh it is of, and that it leaves the others alone.
LEMMA ExchangeMoves ==
  ASSUME TypesOK, NEW w \in Windows, Exchange(w)
  PROVE  /\ \A v \in Windows \ {w} : refresh'[v] = refresh[v]
         /\ login' = login
         /\ \A d \in Devices \ {Device[w]} : file'[d] = file[d]
         /\ ~Save(w) => file' = file
BY DEF Exchange, Ask, Verify, Judge, RotateRefresh, Answer, Save, Refused, Unanswered, Tell, TypesOK

\* A refresh that is told a stage is at it, or at none any more.
LEMMA Told ==
  ASSUME TypesOK, NEW w \in Windows, NEW stage, NEW got, refresh' = Tell(w, stage, got)
  PROVE  \/ refresh'[w] = Idle
         \/ /\ refresh'[w].stage = stage /\ refresh'[w].got = got
            /\ refresh'[w].token = refresh[w].token /\ refresh'[w].live = refresh[w].live
            /\ stage \in {"answered", "used", "ended"} => refresh[w].live
BY DEF Tell, TypesOK, RefreshType

\* A refresh somebody or nobody waits for any longer is as far as it was, or idle.
LEMMA AbandonedIs ==
  ASSUME TypesOK, NEW w \in Windows
  PROVE  \/ Abandoned(w) = Idle
         \/ /\ refresh[w].stage \in {"asked", "verified", "rotated"}
            /\ Abandoned(w).stage = refresh[w].stage /\ ~Abandoned(w).live
            /\ Abandoned(w).token = refresh[w].token /\ Abandoned(w).got = refresh[w].got
BY DEF Abandoned, TypesOK, RefreshType

\* What RefreshesMatch says of one refresh.
Matches(w) ==
  /\ At(w, "idle") => refresh[w] = Idle
  /\ Nonidle(w) => refresh[w].token # NoToken
  /\ At(w, "rotated") \/ At(w, "answered") => refresh[w].got # NoToken
  /\ refresh[w].got # NoToken =>
       /\ refresh[w].got.signIn = refresh[w].token.signIn
       /\ refresh[w].got.device = refresh[w].token.device
       /\ refresh[w].got.refresh = refresh[w].token.refresh + 1
  /\ refresh[w].live =>
       /\ file[Device[w]] # NoToken
       /\ file[Device[w]].signIn = refresh[w].token.signIn

\* Going on with an exchange matches, as an exchange and beside it.
LEMMA ExchangeMatches ==
  ASSUME TypesOK, TokensStand, RefreshesMatch, NEW w \in Windows, Exchange(w)
  PROVE  RefreshesMatch'
<1> DEFINE r == refresh[w]
           d == Device[w]
<1>1. /\ \A v \in Windows : Matches(v)
      /\ r \in RefreshType /\ d \in Devices
      /\ Matches(w)
  BY ConstantTypes DEF RefreshesMatch, Matches, TypesOK
<1>2. refresh'[w] = Idle => Matches(w)'
  BY DEF Matches, Idle, At, Nonidle
<1>3. ASSUME NEW stage \in Stages \ {"idle"}, r.stage # "idle", file' = file,
             refresh' = Tell(w, stage, r.got), stage \in {"rotated", "answered"} => r.got # NoToken
      PROVE  Matches(w)'
  BY <1>1, <1>2, <1>3, Told DEF Matches, At, Nonidle
<1>4. ASSUME Ask(w) PROVE Matches(w)'
  <2>1. /\ refresh'[w].stage = "asked" /\ refresh'[w].token = file[d] /\ file[d] # NoToken
        /\ refresh'[w].got = NoToken /\ file' = file
    BY <1>4 DEF Ask, Idle, TypesOK
  <2> QED
    BY <2>1, <1>1 DEF Matches, At, Nonidle
<1>5. ASSUME Verify(w) PROVE Matches(w)'
  <2>1. /\ r.stage = "asked" /\ file' = file
        /\ refresh' = Tell(w, IF VerifyTokenForCard(r.token) THEN "verified" ELSE "ended", r.got)
    BY <1>5 DEF Verify, Judge, At
  <2> QED
    BY <1>3, <2>1 DEF Stages
<1>6. ASSUME RotateRefresh(w) PROVE Matches(w)'
  <2> DEFINE t == r.token
  <2>1. r.stage = "verified" /\ file' = file /\ login' = login
    BY <1>6 DEF RotateRefresh, At
  <2>2. CASE Rotates(t) \/ Reissues(t)
    <3>1. /\ t \in Tokens /\ t \in TokenType
      BY <1>1, <2>1 DEF Matches, Nonidle, At, Tokens, RefreshType
    <3>2. Latest(t) /\ card'.refresh = t.refresh + 1 /\ card'.signIn = card.signIn
      BY <1>6, <2>2, <3>1 DEF RotateRefresh, TokensStand, Stands, Rotates, Reissues, TypesOK,
                              CardType, TokenType
    <3>3. /\ Got(t, card').signIn = t.signIn /\ Got(t, card').device = t.device
          /\ Got(t, card').refresh = t.refresh + 1 /\ Got(t, card') # NoToken
      BY <3>1, <3>2 DEF Got, Token, TokenType, Latest, NoToken
    <3>4. refresh' = Tell(w, "rotated", Got(t, card'))
      BY <1>6, <2>2 DEF RotateRefresh
    <3>5. \/ refresh'[w] = Idle
          \/ /\ refresh'[w].stage = "rotated" /\ refresh'[w].got = Got(t, card')
             /\ refresh'[w].token = t /\ refresh'[w].live = r.live
      BY <1>1, <3>4, Told
    <3>6. CASE refresh'[w] = Idle
      BY <1>2, <3>6
    <3>7. CASE /\ refresh'[w].stage = "rotated" /\ refresh'[w].got = Got(t, card')
               /\ refresh'[w].token = t /\ refresh'[w].live = r.live
      <4>1. t # NoToken
        BY <1>1, <2>1 DEF Matches, At, Nonidle
      <4> QED
        BY <1>1, <2>1, <3>3, <3>7, <4>1 DEF Matches, At, Nonidle
    <3> QED
      BY <3>5, <3>6, <3>7
  <2>3. CASE ~(Rotates(t) \/ Reissues(t))
    <3>1. refresh' = Tell(w, "used", NoToken)
      BY <1>6, <2>3 DEF RotateRefresh
    <3> QED
      BY <1>1, <1>2, <2>1, <3>1, Told DEF Matches, At, Nonidle
  <2> QED
    BY <2>2, <2>3
<1>7. ASSUME Answer(w) PROVE Matches(w)'
  <2>1. /\ r.stage = "rotated" /\ file' = file
        /\ refresh' = Tell(w, IF VerifyTokenForCard(r.got) THEN "answered" ELSE "ended", r.got)
    BY <1>7 DEF Answer, Judge, At
  <2> QED
    BY <1>1, <1>3, <2>1 DEF Stages, Matches, At
<1>8. ASSUME Save(w) \/ Refused(w) PROVE Matches(w)'
  BY <1>2, <1>8 DEF Save, Refused, TypesOK
<1>9. ASSUME Unanswered(w) PROVE Matches(w)'
  <2>1. file' = file /\ refresh'[w] \in {Idle, Abandoned(w)}
    BY <1>9 DEF Unanswered, TypesOK
  <2> QED
    BY <1>1, <1>2, <2>1, AbandonedIs DEF Matches, At, Nonidle
<1>10. Matches(w)'
  BY <1>4, <1>5, <1>6, <1>7, <1>8, <1>9 DEF Exchange
<1>11. ASSUME NEW v \in Windows \ {w} PROVE Matches(v)'
  <2>1. refresh'[v] = refresh[v] /\ Device[v] \in Devices
    BY ExchangeMoves, ConstantTypes
  <2>2. CASE Save(w) /\ Device[v] = d
    <3>1. file'[Device[v]] = r.got /\ r.got # NoToken /\ r.got.signIn = file[d].signIn
      BY <1>1, <2>2 DEF Save, TypesOK, Matches, At
    <3> QED
      BY <1>1, <2>1, <2>2, <3>1 DEF Matches, At, Nonidle
  <2>3. CASE ~(Save(w) /\ Device[v] = d)
    <3>1. file'[Device[v]] = file[Device[v]]
      BY <2>1, <2>3, ExchangeMoves
    <3> QED
      BY <1>1, <2>1, <3>1 DEF Matches, At, Nonidle
  <2> QED
    BY <2>2, <2>3
<1>12. \A e \in Devices : login'[e] # NoToken => login'[e].device = e
  BY ExchangeMoves DEF RefreshesMatch
<1> QED
  BY <1>10, <1>11, <1>12 DEF RefreshesMatch, Matches

\* Every step does.
LEMMA StepMatches ==
  ASSUME TypesOK, TokensStand, RefreshesMatch, [SessionsNext]_vars
  PROVE  RefreshesMatch'
<1>1. \A v \in Windows : Matches(v) /\ Device[v] \in Devices
  BY ConstantTypes DEF RefreshesMatch, Matches
<1>2. ASSUME UNCHANGED <<login, file, refresh>> PROVE RefreshesMatch'
  BY <1>2 DEF RefreshesMatch, At, Nonidle
<1>3. CASE \E w \in Windows : Exchange(w)
  BY <1>3, ExchangeMatches
<1>4. ASSUME NEW d \in Devices, SignIn(d)
      PROVE  RefreshesMatch'
  <2>1. UNCHANGED <<file, refresh>> /\ login' = [login EXCEPT ![d] = Token(card', d)]
    BY <1>4 DEF SignIn
  <2>2. Token(card', d).device = d
    BY DEF Token
  <2> QED
    BY <2>1, <2>2 DEF RefreshesMatch, At, Nonidle, TypesOK
<1>5. ASSUME NEW d \in Devices, LoseSignIn(d)
      PROVE  RefreshesMatch'
  BY <1>5 DEF LoseSignIn, RefreshesMatch, At, Nonidle, TypesOK
<1>6. ASSUME NEW d \in Devices, SaveSignIn(d)
      PROVE  RefreshesMatch'
  <2>1. /\ file' = [file EXCEPT ![d] = login[d]] /\ login' = [login EXCEPT ![d] = NoToken]
        /\ \A v \in Windows : refresh'[v] = IF Device[v] = d THEN Abandoned(v) ELSE refresh[v]
    BY <1>6 DEF SaveSignIn
  <2>2. ASSUME NEW v \in Windows PROVE Matches(v)'
    <3>1. CASE Device[v] = d
      <4>1. refresh'[v] = Abandoned(v)
        BY <2>1, <3>1
      <4>2. CASE Abandoned(v) = Idle
        BY <4>1, <4>2 DEF Matches, At, Nonidle, Idle
      <4>3. CASE Abandoned(v) # Idle
        BY <1>1, <4>1, <4>3, AbandonedIs DEF Matches, At, Nonidle
      <4> QED
        BY <4>2, <4>3
    <3>2. CASE Device[v] # d
      BY <1>1, <2>1, <3>2 DEF Matches, At, Nonidle, TypesOK
    <3> QED
      BY <3>1, <3>2
  <2>3. \A e \in Devices : login'[e] # NoToken => login'[e].device = e
    BY <2>1 DEF RefreshesMatch, TypesOK
  <2> QED
    BY <2>2, <2>3 DEF RefreshesMatch, Matches
<1>7. ASSUME NEW d \in Devices, NEW e \in CopiedTo, CopyFile(d, e)
      PROVE  RefreshesMatch'
  <2>1. /\ file' = [file EXCEPT ![e] = file[d]] /\ UNCHANGED <<login, refresh>>
        /\ \A v \in Windows : Device[v] = e => ~refresh[v].live
    BY <1>7 DEF CopyFile
  <2>2. ASSUME NEW v \in Windows PROVE Matches(v)'
    BY <1>1, <2>1 DEF Matches, At, Nonidle, TypesOK
  <2> QED
    BY <2>1, <2>2 DEF RefreshesMatch, Matches
<1> QED
  BY <1>2, <1>3, <1>4, <1>5, <1>6, <1>7
     DEF SessionsNext, vars, PortalActivate, PortalUnbind, OperatorRevokes,
         FreezeOrUnfreeze, Validity, GraceEnds, HourPasses

-----------------------------------------------------------------------------
\* The tokens.

\* What a step may do to the card: its version goes on or its seat stays unless it was
\* free; nothing rotates, a refresh does, or somebody signs in.
CardMoves ==
  /\ \/ card'.version > card.version
     \/ card'.version = card.version /\ (card'.bound = card.bound \/ card.bound = NoDevice)
  /\ \/ /\ card'.refresh = card.refresh /\ card'.signIn = card.signIn
        /\ rotated' = "grace" => rotated = "grace"
     \/ card'.refresh = card.refresh + 1 /\ card'.signIn = card.signIn /\ rotated' = "grace"
     \/ card'.refresh = card.refresh + 1 /\ card'.signIn = card.signIn + 1 /\ rotated' = "never"

\* What ends the card's tokens moves it, and so does a sign-in.
LEMMA RevocationMoves ==
  ASSUME TypesOK, UNCHANGED rotated
  PROVE  /\ card' = Revoked(card) \/ card' = UnbindDevice \/ card' = AdminUnbindDevice
              => CardMoves /\ card'.version > card.version
         /\ card' = [Revoked(card) EXCEPT !.status = "Frozen", !.from = card.status]
              => CardMoves /\ card'.version > card.version
<1> DEFINE c == Revoked(card)
           frozen == [c EXCEPT !.status = "Frozen", !.from = card.status]
<1>1. /\ c.version = card.version + 1 /\ c.refresh = card.refresh /\ c.signIn = card.signIn
      /\ card.version \in Nat
  BY DEF TypesOK, CardType, Revoked
<1>2. \A e \in {c, UnbindDevice, AdminUnbindDevice, frozen} :
        e.version = c.version /\ e.refresh = c.refresh /\ e.signIn = c.signIn
  BY DEF TypesOK, CardType, Revoked, UnbindDevice, AdminUnbindDevice
<1>3. ASSUME card'.version = c.version, card'.refresh = c.refresh, card'.signIn = c.signIn
      PROVE  CardMoves /\ card'.version > card.version
  <2> HIDE DEF c
  <2> QED
    BY <1>1, <1>3 DEF CardMoves
<1>4. ASSUME NEW e \in {c, UnbindDevice, AdminUnbindDevice, frozen}, card' = e
      PROVE  CardMoves /\ card'.version > card.version
  <2> HIDE DEF c, frozen
  <2> QED
    BY <1>2, <1>3, <1>4
<1> QED
  BY <1>4, Zenon

\* A sign-in's activation moves the card as the other operations do.
LEMMA ActivationMoves ==
  ASSUME TypesOK, NEW d \in Devices \cup {NoDevice}, ActivateCardWithDevice(d)
  PROVE  CardMoves
BY ActivationTypes DEF TypesOK, CardMoves

\* Every step moves the card so, and the access tokens end with its version.
LEMMA StepMoves ==
  ASSUME TypesOK, [SessionsNext]_vars
  PROVE  /\ CardMoves
         /\ card'.version > card.version =>
              issued' = {t \in issued : t.version = card'.version}
<1>1. ASSUME UNCHANGED <<card, rotated>> PROVE CardMoves /\ card'.version = card.version
  BY <1>1 DEF CardMoves, TypesOK, CardType
<1>2. ASSUME NEW d \in Devices \cup {NoDevice}, ActivateCardWithDevice(d)
      PROVE  CardMoves /\ card'.version = card.version
  BY <1>2, ActivationTypes, ActivationMoves DEF TypesOK
<1>3. CASE PortalActivate
  <2>1. CASE \E d \in Devices : BindDevice(d) /\ card' = [card EXCEPT !.bound = d] /\ UNCHANGED rotated
    BY <2>1 DEF BindDevice, CardMoves, TypesOK, CardType
  <2> QED
    BY <1>2, <1>3, <2>1 DEF PortalActivate, TypesOK, CardType
<1>4. CASE PortalUnbind \/ OperatorRevokes
  BY <1>4, RevocationMoves DEF PortalUnbind, OperatorRevokes, EndTokens
<1>5. CASE FreezeOrUnfreeze
  <2>1. CASE card' = [card EXCEPT !.status = card.from, !.from = "Unactivated"]
    BY <1>5, <2>1 DEF FreezeOrUnfreeze, CardMoves, TypesOK, CardType
  <2> QED
    BY <1>5, <2>1, RevocationMoves DEF FreezeOrUnfreeze, EndTokens
<1>6. CASE Validity \/ GraceEnds \/ HourPasses
  BY <1>6 DEF Validity, GraceEnds, HourPasses, CardMoves, TypesOK, CardType
<1>7. CASE \E d \in Devices : SignIn(d) \/ SaveSignIn(d) \/ LoseSignIn(d)
  BY <1>1, <1>2, <1>7 DEF SignIn, SaveSignIn, LoseSignIn, TypesOK, CardType
<1>8. ASSUME NEW w \in Windows, RotateRefresh(w)
      PROVE  CardMoves /\ card'.version = card.version
  BY <1>1, <1>8 DEF RotateRefresh, CardMoves, TypesOK, CardType
<1>9. CASE \E w \in Windows : Exchange(w)
  BY <1>1, <1>8, <1>9
     DEF Exchange, Ask, Verify, Answer, Save, Refused, Unanswered, TypesOK, CardType
<1>10. CASE UNCHANGED vars \/ \E d \in Devices, e \in CopiedTo : CopyFile(d, e)
  BY <1>1, <1>10 DEF vars, CopyFile, TypesOK, CardType
<1> QED
  BY <1>3, <1>4, <1>5, <1>6, <1>7, <1>9, <1>10 DEF SessionsNext

\* A token stands when the card moves.
LEMMA StandsOn ==
  ASSUME TypesOK, TypesOK', CardMoves, NEW t \in TokenType, Stands(t)
  PROVE  Stands(t)'
BY ConstantTypes DEF TypesOK, CardType, TokenType, CardMoves, Stands, Latest

\* Tokens are well-typed, and everybody holds one or none.
LEMMA TokensTyped ==
  ASSUME TypesOK
  PROVE  /\ Tokens \subseteq TokenType
         /\ \A d \in Devices : login[d] \in Tokens \cup {NoToken} /\ file[d] \in Tokens \cup {NoToken}
         /\ \A w \in Windows : /\ refresh[w].token \in Tokens \cup {NoToken}
                              /\ refresh[w].got \in Tokens \cup {NoToken}
BY DEF Tokens, TypesOK, RefreshType

\* The only token there is afterwards and was not before is x, when nobody holds another.
LEMMA TokensGrow ==
  ASSUME NEW x,
         \A d \in Devices : /\ login'[d] \in Tokens \cup {NoToken, x}
                            /\ file'[d] \in Tokens \cup {NoToken, x},
         \A w \in Windows : /\ refresh'[w].token \in Tokens \cup {NoToken, x}
                            /\ refresh'[w].got \in Tokens \cup {NoToken, x}
  PROVE  Tokens' \subseteq Tokens \cup {x}
BY DEF Tokens

\* What is enough for the tokens to stand after a step: a token that is new stands, and
\* is of the device of every token of its sign-in.
LEMMA NewTokenStands ==
  ASSUME TypesOK, TypesOK', TokensStand, CardMoves, NEW x,
         Tokens' \subseteq Tokens \cup {x},
         x \in Tokens' \ Tokens => /\ x \in TokenType /\ Stands(x)'
                                   /\ \A t \in Tokens : t.signIn = x.signIn => t.device = x.device,
         \A t \in issued' : t.version = card'.version /\ t.device = card'.bound
  PROVE  TokensStand'
<1>1. Tokens \subseteq TokenType
  BY TokensTyped
<1>2. \A t \in Tokens : Stands(t)'
  BY <1>1, StandsOn DEF TokensStand
<1>3. \A t \in Tokens' : Stands(t)'
  BY <1>2
<1>4. \A t, u \in Tokens' : t.signIn = u.signIn => t.device = u.device
  BY DEF TokensStand
<1> QED
  BY <1>3, <1>4 DEF TokensStand

\* The access tokens there were are current after any step.
LEMMA IssuedStand ==
  ASSUME TypesOK, TokensStand, CardMoves,
         card'.version > card.version => issued' = {t \in issued : t.version = card'.version}
  PROVE  /\ \A t \in issued : card'.version = card.version =>
              t.version = card'.version /\ t.device = card'.bound
         /\ card'.version > card.version => issued' = {}
<1>1. \A t \in issued : t.device \in Devices /\ t.version \in Nat /\ t.version = card.version
                        /\ t.device = card.bound
  BY DEF TypesOK, TokensStand
<1> QED
  BY <1>1, ConstantTypes DEF CardMoves, TypesOK, CardType

\* The tokens stand after a step that lets nobody hold another one, and issues none.
LEMMA NoNewToken ==
  ASSUME TypesOK, TypesOK', TokensStand, CardMoves,
         \A d \in Devices : /\ login'[d] \in Tokens \cup {NoToken}
                            /\ file'[d] \in Tokens \cup {NoToken},
         \A w \in Windows : /\ refresh'[w].token \in Tokens \cup {NoToken}
                            /\ refresh'[w].got \in Tokens \cup {NoToken},
         card'.version > card.version => issued' = {t \in issued : t.version = card'.version},
         card'.version <= card.version => issued' \subseteq issued
  PROVE  TokensStand'
<1>1. Tokens' \subseteq Tokens \cup {NoToken}
  BY TokensGrow
<1>2. NoToken \notin Tokens'
  BY DEF Tokens
<1>3. card'.version > card.version \/ card'.version = card.version
  BY DEF TypesOK, CardType, CardMoves
<1>4. \A t \in issued' : t.version = card'.version /\ t.device = card'.bound
  BY <1>3, IssuedStand DEF TypesOK, CardType
<1> QED
  BY <1>1, <1>2, <1>4, NewTokenStands

\* An exchange's step.
LEMMA ExchangeStands ==
  ASSUME TypesOK, TypesOK', TokensStand, RefreshesMatch, CardMoves,
         NEW w \in Windows, Exchange(w)
  PROVE  TokensStand'
<1> DEFINE r == refresh[w]
           d == Device[w]
<1>1. /\ d \in Devices /\ r \in RefreshType
      /\ r.token \in Tokens \cup {NoToken} /\ r.got \in Tokens \cup {NoToken}
      /\ \A e \in Devices : login[e] \in Tokens \cup {NoToken} /\ file[e] \in Tokens \cup {NoToken}
      /\ \A v \in Windows : /\ refresh[v].token \in Tokens \cup {NoToken}
                            /\ refresh[v].got \in Tokens \cup {NoToken}
  BY TokensTyped, ConstantTypes DEF TypesOK
<1>2. /\ \A v \in Windows \ {w} : refresh'[v] = refresh[v]
      /\ login' = login
      /\ \A e \in Devices \ {d} : file'[e] = file[e]
      /\ ~Save(w) => file' = file
  BY ExchangeMoves
<1>3. Idle.token = NoToken /\ Idle.got = NoToken
  BY DEF Idle
<1>4. ASSUME NEW stage, NEW got \in Tokens \cup {NoToken}, refresh' = Tell(w, stage, got)
      PROVE  /\ refresh'[w].token \in Tokens \cup {NoToken}
             /\ refresh'[w].got \in Tokens \cup {NoToken}
  BY <1>1, <1>3, <1>4, Told
<1>5. ASSUME UNCHANGED <<card, issued>>,
             refresh'[w].token \in Tokens \cup {NoToken},
             refresh'[w].got \in Tokens \cup {NoToken},
             file'[d] \in Tokens \cup {NoToken}
      PROVE  TokensStand'
  <2>1. ~(card'.version > card.version)
    BY <1>5 DEF TypesOK, CardType
  <2> QED
    BY <1>1, <1>2, <1>5, <2>1, NoNewToken
<1>6. CASE Ask(w)
  <2>1. refresh'[w].token = file[d] /\ refresh'[w].got = NoToken
    BY <1>6 DEF Ask, Idle, TypesOK
  <2> QED
    BY <1>1, <1>5, <1>6, <2>1 DEF Ask
<1>7. CASE Verify(w)
  <2>1. UNCHANGED <<card, issued, file>>
    BY <1>7 DEF Verify
  <2>2. \E stage : refresh' = Tell(w, stage, r.got)
    BY <1>7 DEF Verify, Judge
  <2> QED
    BY <1>1, <1>4, <1>5, <2>1, <2>2
<1>8. CASE RotateRefresh(w)
  <2> DEFINE t == r.token
  <2>0. PICK x : x = Got(t, card')
    OBVIOUS
  <2>1. /\ At(w, "verified") /\ UNCHANGED <<file, issued>> /\ card'.signIn = card.signIn
        /\ card'.version = card.version /\ card'.bound = card.bound
    BY <1>8 DEF RotateRefresh, TypesOK, CardType
  <2>2. t \in Tokens /\ t \in TokenType
    BY <1>1, <2>1, TokensTyped DEF RefreshesMatch, Nonidle, At
  <2>3. \A i \in issued' : i.version = card'.version /\ i.device = card'.bound
    BY <2>1 DEF TokensStand
  <2>4. CASE Rotates(t) \/ Reissues(t)
    <3>1. Latest(t) /\ Stands(t) /\ (\A u \in Tokens : u.signIn = t.signIn => u.device = t.device)
      BY <2>2, <2>4 DEF TokensStand, Stands, Rotates, Reissues
    <3>2. /\ x.signIn = card.signIn /\ x.device = t.device /\ x.version = t.version
          /\ x.refresh = card'.refresh /\ x \in TokenType
      BY <2>0, <2>1, <2>2 DEF Got, Token, TokenType, TypesOK, CardType
    <3>3. refresh' = Tell(w, "rotated", x)
      BY <1>8, <2>0, <2>4 DEF RotateRefresh
    <3>4. /\ refresh'[w].token \in Tokens \cup {NoToken}
          /\ refresh'[w].got \in {NoToken, x}
      BY <1>1, <1>3, <3>3, Told
    <3>5. Tokens' \subseteq Tokens \cup {x, NoToken}
      BY <1>1, <1>2, <2>1, <3>4 DEF Tokens
    <3>6. Tokens' \subseteq Tokens \cup {x}
      BY <3>5 DEF Tokens
    <3>7. Stands(x)'
      BY <2>1, <3>1, <3>2 DEF Stands, Latest, TypesOK, CardType, TokenType
    <3>8. \A u \in Tokens : u.signIn = x.signIn => u.device = x.device
      BY <3>1, <3>2 DEF Latest
    <3> QED
      BY <2>3, <3>2, <3>6, <3>7, <3>8, NewTokenStands
  <2>5. CASE ~(Rotates(t) \/ Reissues(t))
    <3>1. refresh' = Tell(w, "used", NoToken) /\ card' = card
      BY <1>8, <2>5 DEF RotateRefresh
    <3> QED
      BY <1>1, <1>4, <1>5, <2>1, <3>1
  <2> QED
    BY <2>4, <2>5
<1>9. CASE Answer(w)
  <2> DEFINE t == r.got
  <2>1. /\ UNCHANGED <<card, file>> /\ At(w, "rotated")
        /\ issued' = IF VerifyTokenForCard(t) THEN issued \cup {Access(t)} ELSE issued
    BY <1>9 DEF Answer
  <2>2. t \in Tokens
    BY <1>1, <2>1 DEF RefreshesMatch
  <2>3. \E stage : refresh' = Tell(w, stage, t)
    BY <1>9 DEF Answer, Judge
  <2>4. refresh'[w].token \in Tokens \cup {NoToken} /\ refresh'[w].got \in Tokens \cup {NoToken}
    BY <1>4, <2>2, <2>3
  <2>5. \A i \in issued' : i.version = card'.version /\ i.device = card'.bound
    BY <2>1, <2>2 DEF TokensStand, Stands, VerifyTokenForCard, Access
  <2>6. Tokens' \subseteq Tokens \cup {NoToken}
    BY <1>1, <1>2, <2>1, <2>4, TokensGrow
  <2>7. NoToken \notin Tokens'
    BY DEF Tokens
  <2> QED
    BY <2>5, <2>6, <2>7, NewTokenStands
<1>10. CASE Save(w)
  <2>1. /\ UNCHANGED <<card, issued>> /\ file'[d] = r.got /\ refresh'[w] = Idle
    BY <1>1, <1>10 DEF Save, TypesOK
  <2> QED
    BY <1>1, <1>3, <1>5, <2>1
<1>11. CASE Refused(w)
  <2>1. UNCHANGED <<card, issued, file>> /\ refresh'[w] = Idle
    BY <1>1, <1>11 DEF Refused, TypesOK
  <2> QED
    BY <1>1, <1>3, <1>5, <2>1
<1>12. CASE Unanswered(w)
  <2>1. UNCHANGED <<card, issued, file>> /\ refresh'[w] \in {Idle, Abandoned(w)}
    BY <1>1, <1>12 DEF Unanswered, TypesOK
  <2> QED
    BY <1>1, <1>3, <1>5, <2>1, AbandonedIs
<1> QED
  BY <1>6, <1>7, <1>8, <1>9, <1>10, <1>11, <1>12 DEF Exchange

\* Every step.
LEMMA StepStands ==
  ASSUME TypesOK, TypesOK', TokensStand, RefreshesMatch, [SessionsNext]_vars
  PROVE  TokensStand'
<1>1. /\ CardMoves
      /\ card'.version > card.version => issued' = {t \in issued : t.version = card'.version}
  BY StepMoves
<1>2. /\ \A e \in Devices : login[e] \in Tokens \cup {NoToken} /\ file[e] \in Tokens \cup {NoToken}
      /\ \A v \in Windows : /\ refresh[v].token \in Tokens \cup {NoToken}
                            /\ refresh[v].got \in Tokens \cup {NoToken}
      /\ Tokens \subseteq TokenType
  BY TokensTyped
<1>3. ASSUME UNCHANGED <<login, file, refresh>>, issued' \subseteq issued PROVE TokensStand'
  BY <1>1, <1>2, <1>3, NoNewToken
<1>4. CASE \E w \in Windows : Exchange(w)
  BY <1>1, <1>4, ExchangeStands
<1>5. ASSUME NEW d \in Devices, SignIn(d)
      PROVE  TokensStand'
  <2>0. PICK x : x = Token(card', d)
    OBVIOUS
  <2>1. /\ UNCHANGED <<file, refresh>> /\ login' = [login EXCEPT ![d] = x]
        /\ issued' = issued \cup {Access(x)} /\ ActivateCardWithDevice(d)
    BY <1>5, <2>0 DEF SignIn
  <2>2. /\ card'.signIn = card.signIn + 1 /\ card'.refresh = card.refresh + 1
        /\ card'.version = card.version /\ card'.bound = d
        /\ x \in TokenType /\ Access(x) = [device |-> d, version |-> card.version]
    BY <2>0, <2>1, ActivationTypes, ConstantTypes DEF TypesOK
  <2>3. /\ x.signIn = card'.signIn /\ x.device = d /\ x.version = card'.version
        /\ x.refresh = card'.refresh
    BY <2>0 DEF Token
  <2>4. Stands(x)'
    BY <2>2, <2>3 DEF Stands, Latest, TypesOK, CardType
  <2>5. \A t \in Tokens : t.signIn # x.signIn
    BY <1>2, <2>2, <2>3 DEF TokensStand, Stands, TypesOK, CardType, TokenType
  <2>6. \A i \in issued' : i.version = card'.version /\ i.device = card'.bound
    <3>1. \A i \in issued : i.version = card'.version /\ i.device = card'.bound
      BY <1>1, <2>2, IssuedStand
    <3> QED
      BY <2>1, <2>2, <3>1
  <2>7. Tokens' \subseteq Tokens \cup {x}
    <3>1. \A e \in Devices : login'[e] \in Tokens \cup {NoToken, x}
      BY <1>2, <2>1 DEF TypesOK
    <3> QED
      BY <1>2, <2>1, <3>1, TokensGrow
  <2> QED
    BY <1>1, <2>2, <2>4, <2>5, <2>6, <2>7, NewTokenStands
<1>6. ASSUME NEW d \in Devices, SaveSignIn(d)
      PROVE  TokensStand'
  <2>1. /\ file' = [file EXCEPT ![d] = login[d]] /\ login' = [login EXCEPT ![d] = NoToken]
        /\ UNCHANGED <<card, issued>>
        /\ \A v \in Windows : refresh'[v] \in {refresh[v], Abandoned(v)}
    BY <1>6 DEF SaveSignIn
  <2>2. \A v \in Windows : /\ refresh'[v].token \in Tokens \cup {NoToken}
                           /\ refresh'[v].got \in Tokens \cup {NoToken}
    BY <1>2, <2>1, AbandonedIs DEF Idle
  <2>3. \A e \in Devices : login'[e] \in Tokens \cup {NoToken} /\ file'[e] \in Tokens \cup {NoToken}
    BY <1>2, <2>1 DEF TypesOK
  <2> QED
    BY <1>1, <2>1, <2>2, <2>3, NoNewToken
<1>7. ASSUME NEW d \in Devices, LoseSignIn(d)
      PROVE  TokensStand'
  <2>1. /\ login' = [login EXCEPT ![d] = NoToken] /\ UNCHANGED <<card, issued, file, refresh>>
    BY <1>7 DEF LoseSignIn
  <2>2. \A e \in Devices : login'[e] \in Tokens \cup {NoToken}
    BY <1>2, <2>1 DEF TypesOK
  <2> QED
    BY <1>1, <1>2, <2>1, <2>2, NoNewToken
<1>8. ASSUME NEW d \in Devices, NEW e \in CopiedTo, CopyFile(d, e)
      PROVE  TokensStand'
  <2>1. /\ file' = [file EXCEPT ![e] = file[d]] /\ UNCHANGED <<card, issued, login, refresh>>
    BY <1>8 DEF CopyFile
  <2>2. \A f \in Devices : file'[f] \in Tokens \cup {NoToken}
    BY <1>2, <2>1 DEF TypesOK
  <2> QED
    BY <1>1, <1>2, <2>1, <2>2, NoNewToken
<1>9. ASSUME NEW c, EndTokens(c) PROVE issued' \subseteq issued
  BY <1>9 DEF EndTokens
<1> QED
  BY <1>3, <1>4, <1>5, <1>6, <1>7, <1>8, <1>9
     DEF SessionsNext, vars, PortalActivate, PortalUnbind, OperatorRevokes,
         FreezeOrUnfreeze, Validity, GraceEnds, HourPasses

-----------------------------------------------------------------------------
\* The session.

\* The card's counters and the grace are as they were.
SameRotation ==
  card'.refresh = card.refresh /\ card'.signIn = card.signIn /\ rotated' = rotated

\* A device whose file, freshness and windows are as they were keeps what it has.
LEMMA FileStays ==
  ASSUME NEW d \in Devices, FileKept(d), SameRotation, file'[d] = file[d],
         d \in fresh' => d \in fresh, Cur(file[d]) /\ Awaited(d) => Awaited(d)'
  PROVE  FileKept(d)'
BY DEF FileKept, SameRotation, Cur, Latest

\* So does a refresh that is as it was, or is not waited for any more.
LEMMA RefreshStays ==
  ASSUME NEW w \in Windows, RefreshKept(w), SameRotation,
         refresh'[w].token = refresh[w].token, refresh'[w].got = refresh[w].got,
         refresh'[w].stage = refresh[w].stage, refresh'[w].live => refresh[w].live,
         file'[Device[w]] = file[Device[w]], Device[w] \in fresh' <=> Device[w] \in fresh,
         Cur(file[Device[w]]) /\ Awaited(Device[w]) => Awaited(Device[w])'
  PROVE  RefreshKept(w)'
BY DEF RefreshKept, SameRotation, Cur, Latest, Current, Nonidle, At

\* A step that leaves the rotation alone keeps a login when it makes no file and no
\* refresh of the latest sign-in where there was none.
LEMMA LoginStays ==
  ASSUME NEW d \in Devices, LoginKept(d), SameRotation, login'[d] \in {login[d], NoToken},
         \A e \in Devices : Cur(file[e])' => \E f \in Devices : Cur(file[f]),
         \A w \in Windows : Current(w)' => \/ Current(w)
                                          \/ \E f \in Devices : Cur(file[f])
  PROVE  LoginKept(d)'
BY DEF LoginKept, SameRotation, Cur, Latest

\* The tokens of a sign-in are on one device.
LEMMA OneHome ==
  ASSUME TypesOK, TokensStand, Kept
  PROVE  /\ \A d, e \in Devices : Cur(file[d]) /\ Cur(file[e]) => d = e
         /\ \A d \in Devices, w \in Windows : Cur(file[d]) /\ Current(w) => Device[w] = d
         /\ \A w \in Windows : Current(w) /\ refresh[w].live /\ RefreshesMatch => Cur(file[Device[w]])
<1>1. /\ \A d \in Devices : Cur(file[d]) => file[d] \in Tokens /\ file[d].device = d
      /\ \A w \in Windows : Current(w) => /\ refresh[w].token \in Tokens
                                         /\ refresh[w].token.device = Device[w]
  BY TokensTyped DEF Kept, FileKept, RefreshKept, Cur, Current
<1>2. \A t, u \in Tokens : Cur(t) /\ Cur(u) => t.device = u.device
  BY DEF TokensStand, Cur, Latest
<1>3. \A w \in Windows : Current(w) /\ refresh[w].live /\ RefreshesMatch => Cur(file[Device[w]])
  BY DEF RefreshesMatch, Cur, Current, Latest
<1> QED
  BY <1>1, <1>2, <1>3 DEF Current

\* A step of the card alone keeps the session.
LEMMA CardKeeps ==
  ASSUME Kept, SameRotation, UNCHANGED <<login, file, fresh, refresh, owed>>
  PROVE  Kept'
<1>1. \A d \in Devices : Awaited(d)' = Awaited(d)
  BY DEF Awaited
<1>2. \A w \in Windows : Current(w)' = Current(w)
  BY DEF Current, Nonidle, At, Cur, Latest, SameRotation
<1>3. \A e \in Devices : Cur(file[e])' = Cur(file[e])
  BY DEF Cur, Latest, SameRotation
<1>4. \A d \in Devices : LoginKept(d)' /\ FileKept(d)'
  BY <1>1, <1>2, <1>3, LoginStays, FileStays DEF Kept
<1>5. \A w \in Windows : RefreshKept(w)'
  BY <1>1, RefreshStays, ConstantTypes DEF Kept
<1> QED
  BY <1>4, <1>5 DEF Kept

\* After a sign-in or activation nobody holds a token of it but who signed in.
LEMMA SignInKeeps ==
  ASSUME TypesOK, TokensStand, NEW d \in Devices \cup {NoDevice},
         ActivateCardWithDevice(d), UNCHANGED <<file, refresh>>,
         \A e \in Devices : login'[e] = login[e] \/ login'[e].refresh = card'.refresh
  PROVE  Kept'
<1>1. card'.signIn = card.signIn + 1 /\ card.signIn \in Nat
  BY ActivationTypes DEF TypesOK, CardType
<1>2. \A t \in Tokens : t.signIn \in Nat /\ t.signIn # card'.signIn
  BY <1>1, TokensTyped DEF TokensStand, Stands, TokenType
<1>3. \A e \in Devices : ~Cur(file[e])' /\ (login'[e] = login[e] => ~Cur(login[e])')
  BY <1>2, TokensTyped DEF Cur, Latest
<1>4. \A w \in Windows : ~Current(w)'
  BY <1>2, TokensTyped DEF Cur, Latest, Current
<1> QED
  BY <1>3, <1>4 DEF Kept, LoginKept, FileKept, RefreshKept

\* A login that is lost, or brought to its device's file.
LEMMA LoginKeeps ==
  ASSUME TypesOK, TokensStand, RefreshesMatch, Kept, NEW d \in Devices,
         SaveSignIn(d) \/ LoseSignIn(d)
  PROVE  Kept'
<1>1. SameRotation
  BY DEF SaveSignIn, LoseSignIn, SameRotation
<1>2. CASE LoseSignIn(d)
  <2>1. /\ login' = [login EXCEPT ![d] = NoToken] /\ UNCHANGED <<card, file, fresh, refresh, owed>>
    BY <1>2 DEF LoseSignIn
  <2>2. \A e \in Devices : LoginKept(e)'
    BY <1>1, <2>1, LoginStays DEF Kept, TypesOK, Cur, Latest, Current, Nonidle, At
  <2>3. \A e \in Devices : Awaited(e)' = Awaited(e)
    BY <2>1 DEF Awaited
  <2>4. \A e \in Devices : FileKept(e)'
    BY <1>1, <2>1, <2>3, FileStays DEF Kept
  <2>5. \A w \in Windows : RefreshKept(w)'
    BY <1>1, <2>1, <2>3, RefreshStays, ConstantTypes DEF Kept
  <2> QED
    BY <2>2, <2>4, <2>5 DEF Kept
<1>3. CASE SaveSignIn(d)
  <2>1. /\ login[d] # NoToken
        /\ file' = [file EXCEPT ![d] = login[d]] /\ login' = [login EXCEPT ![d] = NoToken]
        /\ fresh' = fresh \cup {d} /\ UNCHANGED <<card, rotated>>
        /\ owed' = owed \ {v \in Windows : Device[v] = d}
        /\ \A v \in Windows : refresh'[v] = IF Device[v] = d THEN Abandoned(v) ELSE refresh[v]
    BY <1>3 DEF SaveSignIn
  <2>2. \A e \in Devices \ {d} : Awaited(e) => Awaited(e)'
    BY <2>1 DEF Awaited
  <2>3. \A v \in Windows : Current(v)' =>
          /\ Current(v) /\ refresh'[v].token = refresh[v].token
          /\ Device[v] = d => ~refresh'[v].live
    BY <2>1, AbandonedIs, <1>1 DEF Current, Nonidle, At, Cur, Latest, Idle, SameRotation
  <2>4. Cur(file[d])' = Cur(login[d]) /\ file'[d] = login[d] /\ login[d].device = d
    BY <2>1 DEF TypesOK, Cur, Latest, RefreshesMatch
  <2>5. \A e \in Devices \ {d} : file'[e] = file[e] /\ login'[e] = login[e]
    BY <2>1 DEF TypesOK
  <2>6. \A e \in Devices : LoginKept(e)'
    <3>1. ASSUME NEW e \in Devices, Cur(login[e])'
          PROVE  e # d /\ Cur(login[e]) /\ ~Cur(login[d])
      <4>1. e # d /\ login'[e] = login[e] /\ Cur(login[e])
        BY <2>1, <3>1 DEF TypesOK, Cur, Latest
      <4>2. login[e] \in Tokens /\ login[e].device = e
        BY <4>1, TokensTyped DEF Cur, RefreshesMatch
      <4>3. Cur(login[d]) => login[d] \in Tokens /\ login[d].device = d
        BY TokensTyped DEF Cur, RefreshesMatch
      <4> QED
        BY <4>1, <4>2, <4>3 DEF TokensStand, Cur, Latest
    <3> QED
      BY <1>1, <2>1, <2>3, <2>4, <2>5, <3>1 DEF LoginKept, Kept, SameRotation, Cur, Latest
  <2>7. FileKept(d)'
    BY <1>1, <2>4 DEF FileKept, Kept, LoginKept, SameRotation
  <2>8. \A e \in Devices \ {d} : FileKept(e)'
    BY <1>1, <2>1, <2>2, <2>5, FileStays DEF Kept
  <2>9. ASSUME NEW v \in Windows PROVE RefreshKept(v)'
    <3>1. Device[v] \in Devices
      BY ConstantTypes
    <3>2. CASE Device[v] # d
      BY <1>1, <2>1, <2>2, <2>5, <3>1, <3>2, RefreshStays DEF Kept
    <3>3. CASE Device[v] = d /\ Current(v)'
      <4>1. ~Cur(file[d])' /\ ~refresh'[v].live /\ refresh'[v].token.device = d
        BY <2>3, <2>4, <3>3 DEF Kept, LoginKept, RefreshKept
      <4> QED
        BY <3>3, <4>1 DEF RefreshKept
    <3> QED
      BY <3>2, <3>3 DEF RefreshKept
  <2> QED
    BY <2>6, <2>7, <2>8, <2>9 DEF Kept
<1> QED
  BY <1>2, <1>3

\* A token file is copied that is not of the latest sign-in.
LEMMA CopyKeeps ==
  ASSUME TypesOK, Kept, NEW d \in Devices, NEW e \in CopiedTo, CopyFile(d, e), ~spoilt'
  PROVE  Kept'
<1>1. /\ SameRotation /\ UNCHANGED <<card, login, refresh, owed>>
      /\ file' = [file EXCEPT ![e] = file[d]] /\ fresh' = fresh \ {e} /\ ~Latest(file[d])
      /\ \A w \in Windows : Device[w] = e => ~refresh[w].live
  BY DEF CopyFile, SameRotation
<1>2. e \in Devices /\ ~Cur(file[e])'
  BY <1>1, ConstantTypes DEF TypesOK, Cur, Latest
<1>3. \A f \in Devices \ {e} : file'[f] = file[f]
  BY <1>1 DEF TypesOK
<1>4. \A f \in Devices : Awaited(f)' = Awaited(f)
  BY <1>1 DEF Awaited
<1>5. \A w \in Windows : Current(w)' = Current(w)
  BY <1>1 DEF Current, Nonidle, At, Cur, Latest
<1>6. \A f \in Devices : Cur(file[f])' => Cur(file[f])
  BY <1>1, <1>2, <1>3 DEF Cur, Latest
<1>7. \A f \in Devices : LoginKept(f)'
  BY <1>1, <1>5, <1>6, LoginStays DEF Kept
<1>8. \A f \in Devices : FileKept(f)'
  <2>1. FileKept(e)'
    BY <1>2 DEF FileKept
  <2>2. \A f \in Devices \ {e} : FileKept(f)'
    BY <1>1, <1>3, <1>4, FileStays DEF Kept
  <2> QED
    BY <2>1, <2>2
<1>9. ASSUME NEW w \in Windows PROVE RefreshKept(w)'
  <2>1. Device[w] \in Devices
    BY ConstantTypes
  <2>2. CASE Device[w] # e
    BY <1>1, <1>3, <1>4, <2>1, <2>2, RefreshStays DEF Kept
  <2>3. CASE Device[w] = e
    BY <1>1, <1>2, <1>5, <2>3 DEF Kept, RefreshKept
  <2> QED
    BY <2>2, <2>3
<1> QED
  BY <1>7, <1>8, <1>9 DEF Kept

\* The grace ends, or the access tokens are due, when nobody waits for anything.
LEMMA ClockKeeps ==
  ASSUME Kept, GraceEnds \/ HourPasses
  PROVE  Kept'
<1>1. /\ UNCHANGED <<card, login, file, refresh, owed>> /\ fresh' \subseteq fresh
      /\ \A w \in Windows : ~refresh[w].live
      /\ \A d \in Devices : ~Awaited(d)
      /\ fresh' = fresh \/ \A w \in Windows : At(w, "idle")
  BY DEF GraceEnds, HourPasses, Settled, Awaited
<1>2. \A d \in Devices : LoginKept(d)' /\ FileKept(d)'
  BY <1>1 DEF Kept, LoginKept, FileKept, Current, Cur, Latest, Nonidle, At
<1>3. ASSUME NEW w \in Windows, Current(w)' PROVE RefreshKept(w)'
  <2>1. Current(w) /\ fresh' = fresh /\ ~refresh'[w].live
    BY <1>1, <1>3 DEF Current, Nonidle, At, Cur, Latest
  <2>2. Cur(file[Device[w]])' = Cur(file[Device[w]])
    BY <1>1 DEF Cur, Latest
  <2>3. Device[w] \in Devices
    BY ConstantTypes
  <2> QED
    BY <1>1, <2>1, <2>2, <2>3 DEF Kept, RefreshKept
<1> QED
  BY <1>2, <1>3 DEF Kept, RefreshKept

\* What is enough after a step of one window: the window of the exchange itself, and
\* that nobody on its device waits in vain.
LEMMA WindowKeeps ==
  ASSUME TypesOK, Kept, SameRotation, NEW w \in Windows,
         UNCHANGED <<login, file, fresh>>,
         \A v \in Windows \ {w} : refresh'[v] = refresh[v] /\ (v \in owed => v \in owed'),
         Cur(file[Device[w]]) /\ Awaited(Device[w]) => Awaited(Device[w])',
         Current(w)' => Current(w) \/ Cur(file[Device[w]]),
         RefreshKept(w)'
  PROVE  Kept'
<1>1. Device[w] \in Devices /\ \A v \in Windows : Device[v] \in Devices
  BY ConstantTypes
<1>2. \A e \in Devices : Cur(file[e])' = Cur(file[e])
  BY DEF Cur, Latest, SameRotation
<1>3. \A v \in Windows \ {w} : Current(v)' = Current(v)
  BY DEF Current, Nonidle, At, Cur, Latest, SameRotation
<1>4. \A d \in Devices : Cur(file[d]) /\ Awaited(d) => Awaited(d)'
  BY DEF Awaited
<1>5. \A d \in Devices : LoginKept(d)'
  BY <1>1, <1>2, <1>3, LoginStays DEF Kept
<1>6. \A d \in Devices : FileKept(d)'
  BY <1>4, FileStays DEF Kept
<1>7. \A v \in Windows \ {w} : RefreshKept(v)'
  BY <1>1, <1>4, RefreshStays DEF Kept
<1> QED
  BY <1>5, <1>6, <1>7 DEF Kept

\* A refresh begins with the token of the file.
LEMMA AskKeeps ==
  ASSUME TypesOK, Kept, NEW w \in Windows, Ask(w)
  PROVE  Kept'
<1> DEFINE d == Device[w]
<1>1. /\ SameRotation /\ UNCHANGED <<card, rotated, login, file, fresh, owed>> /\ d \in Devices
      /\ \A v \in Windows \ {w} : refresh'[v] = refresh[v]
      /\ d \notin fresh
  BY ConstantTypes DEF Ask, SameRotation, TypesOK
<1>2. /\ refresh'[w].stage = "asked" /\ refresh'[w].live
      /\ refresh'[w].token = file[d]
  BY DEF Ask, Idle, TypesOK
<1>3. Awaited(d)'
  BY <1>2 DEF Awaited
<1>4. Current(w)' => Cur(file[d])
  BY <1>1, <1>2 DEF Current, Cur, Latest
<1>5. RefreshKept(w)'
  BY <1>1, <1>2, <1>3, <1>4 DEF Kept, RefreshKept, FileKept, At
<1> QED
  BY <1>1, <1>3, <1>4, <1>5, WindowKeeps

\* Somebody waits for a refresh as long as it is live.
LEMMA ToldLive ==
  ASSUME TypesOK, NEW w \in Windows, NEW stage, NEW got, refresh' = Tell(w, stage, got),
         UNCHANGED owed
  PROVE  /\ refresh'[w].live = refresh[w].live
         /\ \A v \in Windows \ {w} : refresh'[v] = refresh[v]
         /\ \A d \in Devices : Awaited(d)' = Awaited(d)
<1>1. refresh'[w].live = refresh[w].live
  BY DEF Tell, TypesOK, RefreshType, Idle
<1>2. \A v \in Windows \ {w} : refresh'[v] = refresh[v]
  BY DEF Tell, TypesOK
<1> QED
  BY <1>1, <1>2 DEF Awaited

\* It is held against the card, before and after it rotates.
LEMMA JudgeKeeps ==
  ASSUME TypesOK, RefreshesMatch, Kept, NEW w \in Windows, Verify(w) \/ Answer(w), ~spoilt'
  PROVE  Kept'
<1> DEFINE d == Device[w]
           r == refresh[w]
<1>1. /\ SameRotation /\ UNCHANGED <<card, rotated, login, file, fresh, owed>> /\ d \in Devices
      /\ r.stage \in {"asked", "rotated"}
  BY ConstantTypes DEF Verify, Answer, SameRotation, At
<1>2. /\ Nonidle(w) /\ (r.stage = "rotated" => r.got.signIn = r.token.signIn)
  BY <1>1 DEF RefreshesMatch, Nonidle, At
<1>3. /\ \E stage : refresh' = Tell(w, stage, r.got)
      /\ Latest(r.token) =>
           refresh' = Tell(w, IF r.stage = "asked" THEN "verified" ELSE "answered", r.got)
  <2>1. CASE Verify(w)
    BY <2>1 DEF Verify, Judge, At
  <2>2. CASE Answer(w)
    BY <1>1, <1>2, <2>2 DEF Answer, Judge, At, Latest
  <2> QED
    BY <2>1, <2>2
<1>4. /\ refresh'[w].live = r.live
      /\ \A v \in Windows \ {w} : refresh'[v] = refresh[v]
      /\ \A e \in Devices : Awaited(e)' = Awaited(e)
  BY <1>1, <1>3, ToldLive
<1>5. ASSUME Current(w)'
      PROVE  /\ Current(w) /\ refresh'[w].token = r.token /\ refresh'[w].got = r.got
             /\ refresh'[w].stage = IF r.stage = "asked" THEN "verified" ELSE "answered"
  <2>1. refresh'[w].token = r.token
    BY <1>3, <1>5, Told DEF Current, Nonidle, At, Idle
  <2>2. Current(w) /\ Latest(r.token)
    BY <1>1, <1>2, <1>5, <2>1 DEF Current, Cur, Latest
  <2> QED
    BY <1>3, <1>5, <2>1, <2>2, Told DEF Current, Nonidle, At, Idle
<1>6. RefreshKept(w)'
  <2> SUFFICES ASSUME Current(w)' PROVE RefreshKept(w)'
    BY DEF RefreshKept
  <2>1. Cur(file[d])' = Cur(file[d])
    BY <1>1 DEF Cur, Latest
  <2> QED
    BY <1>1, <1>4, <1>5, <2>1 DEF Kept, RefreshKept, At
<1> QED
  BY <1>1, <1>4, <1>5, <1>6, WindowKeeps

\* Its token is refused as used only when nobody waits for a current one, and given
\* again within the grace.
LEMMA ReissueKeeps ==
  ASSUME TypesOK, Kept, NEW w \in Windows, RotateRefresh(w), ~Rotates(refresh[w].token)
  PROVE  Kept'
<1> DEFINE d == Device[w]
           t == refresh[w].token
<1>1. /\ SameRotation /\ UNCHANGED <<card, rotated, login, file, fresh, owed>> /\ d \in Devices
      /\ At(w, "verified")
      /\ refresh' = IF Reissues(t) THEN Tell(w, "rotated", Got(t, card))
                                  ELSE Tell(w, "used", NoToken)
  BY ConstantTypes DEF RotateRefresh, SameRotation
<1>2. Got(t, card).refresh = card.refresh
  BY DEF Got, Token
<1>3. PICK stage, got : /\ refresh' = Tell(w, stage, got)
                        /\ \/ Reissues(t) /\ stage = "rotated" /\ got.refresh = card.refresh
                           \/ ~Reissues(t) /\ stage = "used"
  BY <1>1, <1>2
<1>4. /\ refresh'[w].live = refresh[w].live
      /\ \A v \in Windows \ {w} : refresh'[v] = refresh[v]
      /\ \A e \in Devices : Awaited(e)' = Awaited(e)
  BY <1>1, <1>3, ToldLive
<1>5. Current(w)' =>
        /\ Current(w) /\ refresh'[w].token = t /\ refresh'[w].got = got
        /\ refresh'[w].stage = stage /\ (stage = "used" => refresh[w].live)
  BY <1>1, <1>3, Told DEF Current, Nonidle, At, Idle, Cur, Latest
<1>6. RefreshKept(w)'
  <2> SUFFICES ASSUME Current(w)' PROVE RefreshKept(w)'
    BY DEF RefreshKept
  <2>1. Cur(file[d])' = Cur(file[d])
    BY <1>1 DEF Cur, Latest
  <2>2. refresh[w].live => Reissues(t)
    BY <1>5 DEF Kept, RefreshKept, Rotates, Reissues
  <2> QED
    BY <1>1, <1>3, <1>4, <1>5, <2>1, <2>2 DEF Kept, RefreshKept, At
<1> QED
  BY <1>1, <1>4, <1>5, <1>6, WindowKeeps

\* The token rotates: everybody else who waits on the device has the same one.
LEMMA RotateKeeps ==
  ASSUME TypesOK, TokensStand, RefreshesMatch, Kept,
         NEW w \in Windows, RotateRefresh(w), Rotates(refresh[w].token)
  PROVE  Kept'
<1> DEFINE d == Device[w]
           t == refresh[w].token
           c == card.refresh
<1>1. /\ UNCHANGED <<login, file, fresh, owed>> /\ d \in Devices
      /\ At(w, "verified") /\ t.refresh = c
      /\ card'.refresh = c + 1 /\ card'.signIn = card.signIn /\ c \in Nat
      /\ rotated' = "grace"
      /\ refresh' = Tell(w, "rotated", Got(t, card'))
  BY ConstantTypes DEF RotateRefresh, Rotates, TypesOK, CardType
<1>2. t \in Tokens
  BY <1>1, TokensTyped DEF RefreshesMatch, Nonidle, At
<1>3. Current(w)
  BY <1>1, <1>2 DEF TokensStand, Stands, Current, Nonidle, At, Cur, Tokens
<1>4. /\ refresh'[w].stage = "rotated" /\ refresh'[w].got.refresh = c + 1
      /\ refresh'[w].token = t /\ refresh'[w].live = refresh[w].live
  <2>1. Got(t, card').refresh = c + 1
    BY <1>1 DEF Got, Token
  <2> QED
    BY <1>1, <2>1 DEF Tell, TypesOK, RefreshType
<1>5. \A v \in Windows \ {w} : refresh'[v] = refresh[v]
  BY <1>1 DEF Tell, TypesOK
<1>6. \A e \in Devices : Awaited(e)' = Awaited(e) /\ Cur(file[e])' = Cur(file[e])
  BY <1>1, <1>4, <1>5 DEF Awaited, Cur, Latest
<1>7. \A e \in Devices : ~Cur(login[e])'
  BY <1>1, <1>3 DEF Kept, LoginKept, Cur, Latest
<1>8. ASSUME NEW e \in Devices, Cur(file[e])
      PROVE  e = d /\ file[e].refresh = c /\ Awaited(e) /\ e \notin fresh
  <2>1. e = d
    BY <1>3, <1>8, OneHome
  <2> QED
    BY <1>1, <1>3, <1>8, <2>1 DEF Kept, RefreshKept
<1>9. \A e \in Devices : FileKept(e)'
  BY <1>1, <1>6, <1>8 DEF Kept, FileKept
<1>10. ASSUME NEW v \in Windows, Current(v)' PROVE RefreshKept(v)'
  <2>1. Current(v) /\ refresh'[v].token = refresh[v].token /\ Device[v] \in Devices
    BY <1>1, <1>3, <1>4, <1>5, <1>10, ConstantTypes DEF Current, Nonidle, At, Cur, Latest
  <2>2. refresh[v].token \in Tokens /\ refresh[v].token \in TokenType
    BY <2>1, TokensTyped DEF Current, Cur
  <2>3. refresh[v].token.refresh \in Nat /\ refresh[v].token.refresh <= c
    BY <2>2 DEF TokensStand, Stands, TokenType
  <2>4. refresh[v].live => Cur(file[Device[v]]) /\ refresh[v].token.refresh = c
    BY <1>8, <2>1, OneHome DEF Kept, RefreshKept
  <2>5. Cur(file[Device[v]]) => file[Device[v]].refresh = c /\ Device[v] \notin fresh
                               /\ refresh[v].token.refresh = c
    BY <1>8, <2>1 DEF Kept, RefreshKept
  <2>6. ASSUME refresh[v].live, v # w PROVE ~At(v, "rotated") /\ ~At(v, "answered")
    <3>1. At(v, "rotated") \/ At(v, "answered") =>
            refresh[v].got.refresh = c /\ refresh[v].got.refresh = refresh[v].token.refresh + 1
      BY <2>1, <2>6 DEF Kept, RefreshKept, RefreshesMatch
    <3> QED
      BY <1>1, <2>4, <2>6, <3>1
  <2>7. CASE v = w
    BY <1>1, <1>4, <1>6, <2>1, <2>3, <2>4, <2>5, <2>7 DEF Kept, RefreshKept, At
  <2>8. CASE v # w
    BY <1>1, <1>5, <1>6, <2>1, <2>3, <2>4, <2>5, <2>6, <2>8 DEF Kept, RefreshKept, At
  <2> QED
    BY <2>7, <2>8
<1> QED
  BY <1>7, <1>9, <1>10 DEF Kept, LoginKept, RefreshKept

\* The new token is brought to the file: it is at the last rotation, and who still waits
\* on the device has the one before.
LEMMA SaveKeeps ==
  ASSUME TypesOK, TokensStand, RefreshesMatch, Kept, NEW w \in Windows, Save(w)
  PROVE  Kept'
<1> DEFINE d == Device[w]
           r == refresh[w]
<1>1. /\ SameRotation /\ UNCHANGED <<card, rotated, login>> /\ d \in Devices
      /\ At(w, "answered") /\ r.live /\ refresh'[w] = Idle
      /\ file'[d] = r.got /\ fresh' = fresh \cup {d}
      /\ owed' = {v \in owed : Device[v] # d}
      /\ \A v \in Windows \ {w} : refresh'[v] = refresh[v]
      /\ \A e \in Devices \ {d} : file'[e] = file[e]
  BY ConstantTypes DEF Save, SameRotation, TypesOK
<1>2. /\ r.got # NoToken /\ r.got.signIn = r.token.signIn /\ r.got.device = r.token.device
      /\ r.got.refresh = r.token.refresh + 1
      /\ file[d].signIn = r.token.signIn /\ file[d] # NoToken
      /\ r.token # NoToken /\ r.token \in TokenType
  BY <1>1, TokensTyped DEF RefreshesMatch, Nonidle, At
<1>3. \A v \in Windows : Current(v)' => v # w /\ Current(v)
  BY <1>1 DEF Current, Nonidle, At, Cur, Latest, Idle
<1>4. \A e \in Devices \ {d} : Awaited(e)' = Awaited(e)
  BY <1>1 DEF Awaited
<1>5. \A e \in Devices \ {d} : FileKept(e)'
  BY <1>1, <1>4, FileStays DEF Kept
<1>6. ASSUME NEW v \in Windows, Device[v] # d PROVE RefreshKept(v)'
  BY <1>1, <1>4, <1>6, ConstantTypes, RefreshStays DEF Kept
<1>7. CASE Current(w)
  <2>1. /\ r.got.refresh = card.refresh /\ r.got.device = d /\ Cur(file[d])
        /\ Cur(r.got) /\ r.token.refresh + 1 = card.refresh
    BY <1>1, <1>2, <1>7 DEF Kept, RefreshKept, Current, Cur, Latest
  <2>2. \A e \in Devices : LoginKept(e)'
    BY <1>1, <1>7 DEF Kept, LoginKept, Cur, Latest
  <2>3. FileKept(d)'
    BY <1>1, <2>1 DEF FileKept
  <2>4. ASSUME NEW v \in Windows, Device[v] = d, Current(v)' PROVE RefreshKept(v)'
    <3>1. v # w /\ Current(v) /\ refresh'[v] = refresh[v] /\ refresh[v].token \in TokenType
      BY <1>1, <1>3, <2>4, TokensTyped DEF Current, Cur
    <3>2. refresh[v].token.refresh < card.refresh
      <4>1. d \notin fresh => r.token.refresh = file[d].refresh
                             /\ refresh[v].token.refresh = file[d].refresh
        BY <1>7, <2>1, <2>4, <3>1 DEF Kept, RefreshKept
      <4>2. d \in fresh => refresh[v].token.refresh < card.refresh
        BY <2>1, <2>4, <3>1 DEF Kept, RefreshKept
      <4> QED
        BY <1>2, <2>1, <4>1, <4>2 DEF TypesOK, CardType, TokenType
    <3>3. refresh[v].token.refresh # card.refresh
      BY <3>1, <3>2 DEF TypesOK, CardType, TokenType
    <3> QED
      BY <1>1, <2>4, <3>1, <3>2, <3>3 DEF Kept, RefreshKept, At
  <2> QED
    BY <1>5, <1>6, <2>2, <2>3, <2>4 DEF Kept, RefreshKept
<1>8. CASE ~Current(w)
  <2>1. ~Cur(file[d]) /\ ~Cur(file[d])'
    BY <1>1, <1>2, <1>8 DEF Current, Nonidle, At, Cur, Latest
  <2>2. \A e \in Devices : LoginKept(e)'
    <3>1. \A e \in Devices : Cur(file[e])' => Cur(file[e])
      BY <1>1, <2>1 DEF Cur, Latest
    <3> QED
      BY <1>1, <1>3, <3>1, LoginStays DEF Kept
  <2>3. FileKept(d)'
    BY <2>1 DEF FileKept
  <2>4. ASSUME NEW v \in Windows, Device[v] = d, Current(v)' PROVE RefreshKept(v)'
    <3>1. v # w /\ Current(v) /\ refresh'[v] = refresh[v]
      BY <1>1, <1>3, <2>4
    <3> QED
      BY <1>1, <2>1, <2>4, <3>1 DEF Kept, RefreshKept, At
  <2> QED
    BY <1>5, <1>6, <2>2, <2>3, <2>4 DEF Kept, RefreshKept
<1> QED
  BY <1>7, <1>8

\* A window is refused only a token that is not of the latest sign-in.
LEMMA RefusedKeeps ==
  ASSUME TypesOK, RefreshesMatch, Kept, NEW w \in Windows, Refused(w)
  PROVE  Kept'
<1> DEFINE d == Device[w]
<1>1. /\ SameRotation /\ UNCHANGED <<card, rotated, login, file, fresh>>
      /\ At(w, "used") \/ At(w, "ended")
      /\ refresh[w].live /\ refresh'[w] = Idle /\ owed' = owed \ {w}
      /\ \A v \in Windows \ {w} : refresh'[v] = refresh[v]
  BY DEF Refused, SameRotation, TypesOK, At
<1>2. ~Current(w)
  BY <1>1 DEF Kept, RefreshKept
<1>3. ~Cur(file[d])
  BY <1>1, <1>2 DEF RefreshesMatch, Current, Nonidle, At, Cur, Latest
<1>4. ~Current(w)' /\ RefreshKept(w)'
  BY <1>1 DEF Current, RefreshKept, Nonidle, At, Idle
<1> QED
  BY <1>1, <1>3, <1>4, WindowKeeps

\* A window that got no answer is to ask again.
LEMMA UnansweredKeeps ==
  ASSUME TypesOK, Kept, NEW w \in Windows, Unanswered(w)
  PROVE  Kept'
<1> DEFINE d == Device[w]
<1>1. /\ SameRotation /\ UNCHANGED <<card, rotated, login, file, fresh>>
      /\ refresh'[w] \in {Idle, Abandoned(w)} /\ owed' = owed \cup {w}
      /\ \A v \in Windows \ {w} : refresh'[v] = refresh[v]
  BY DEF Unanswered, SameRotation, TypesOK
<1>2. Awaited(d)'
  BY <1>1 DEF Awaited
<1>3. Current(w)' =>
        /\ Current(w) /\ refresh'[w].token = refresh[w].token /\ ~refresh'[w].live
  BY <1>1, AbandonedIs DEF Current, Nonidle, At, Idle, Cur, Latest
<1>4. RefreshKept(w)'
  BY <1>1, <1>2, <1>3 DEF Kept, RefreshKept, Cur, Latest
<1> QED
  BY <1>1, <1>2, <1>3, <1>4, WindowKeeps

\* Every step keeps the session of the latest sign-in, or it is spoilt.
LEMMA StepKeeps ==
  ASSUME TypesOK, TokensStand, RefreshesMatch, SessionKept, [SessionsNext]_vars
  PROVE  SessionKept'
<1> SUFFICES ASSUME ~spoilt' PROVE Kept'
  BY DEF SessionKept
<1>1. ASSUME NEW d \in Devices \cup {NoDevice}, ActivateCardWithDevice(d),
             UNCHANGED <<file, refresh>>,
             \A e \in Devices : login'[e] = login[e] \/ login'[e].refresh = card'.refresh
      PROVE  Kept'
  BY <1>1, SignInKeeps
<1>2. CASE \E d \in Devices : SignIn(d)
  <2>1. PICK d \in Devices : SignIn(d)
    BY <1>2
  <2>2. /\ ActivateCardWithDevice(d) /\ UNCHANGED <<file, refresh>>
        /\ login' = [login EXCEPT ![d] = Token(card', d)]
    BY <2>1 DEF SignIn
  <2>3. \A e \in Devices : login'[e] = login[e] \/ login'[e].refresh = card'.refresh
    BY <2>2 DEF TypesOK, Token
  <2> QED
    BY <1>1, <2>2, <2>3
<1>3. CASE PortalActivate
  <2>1. CASE \E d \in Devices \cup {NoDevice} : ActivateCardWithDevice(d)
    BY <1>1, <1>3, <2>1 DEF PortalActivate
  <2>2. CASE \E d \in Devices : card' = [card EXCEPT !.bound = d] /\ UNCHANGED <<rotated, spoilt>>
    <3>1. SameRotation
      BY <2>2 DEF SameRotation, TypesOK, CardType
    <3> QED
      BY <1>3, <2>2, <3>1, CardKeeps DEF PortalActivate, SessionKept
  <2> QED
    BY <1>3, <2>1, <2>2 DEF PortalActivate
<1> SUFFICES ASSUME ~(\E d \in Devices : SignIn(d)), ~PortalActivate PROVE Kept'
  BY <1>2, <1>3
<1>4. Kept
  <2>1. ~spoilt
    <3>1. ASSUME NEW w \in Windows, Exchange(w) PROVE ~spoilt
      BY <3>1 DEF Exchange, Ask, Verify, RotateRefresh, Answer, Judge, Save, Refused, Unanswered
    <3> QED
      BY <3>1 DEF SessionsNext, vars, SaveSignIn, LoseSignIn, CopyFile, PortalUnbind,
                  OperatorRevokes, FreezeOrUnfreeze, Validity, GraceEnds, HourPasses
  <2> QED
    BY <2>1 DEF SessionKept
<1>5. ASSUME NEW w \in Windows, Exchange(w) PROVE Kept'
  BY <1>4, <1>5, AskKeeps, JudgeKeeps, ReissueKeeps, RotateKeeps, SaveKeeps, RefusedKeeps,
     UnansweredKeeps DEF Exchange
<1>6. CASE UNCHANGED vars \/ PortalUnbind \/ OperatorRevokes \/ FreezeOrUnfreeze \/ Validity
  <2>1. UNCHANGED <<rotated, login, file, fresh, refresh, owed>>
    BY <1>6 DEF vars, PortalUnbind, OperatorRevokes, FreezeOrUnfreeze, Validity
  <2>2. card'.refresh = card.refresh /\ card'.signIn = card.signIn
    <3>1. CASE UNCHANGED vars \/ Validity
      BY <3>1 DEF vars, Validity, TypesOK, CardType
    <3>2. CASE PortalUnbind \/ OperatorRevokes
      BY <3>2 DEF PortalUnbind, OperatorRevokes, EndTokens, UnbindDevice, AdminUnbindDevice,
                  Revoked, TypesOK, CardType
    <3>3. CASE FreezeOrUnfreeze
      BY <3>3 DEF FreezeOrUnfreeze, EndTokens, Revoked, TypesOK, CardType
    <3> QED
      BY <1>6, <3>1, <3>2, <3>3
  <2> QED
    BY <1>4, <2>1, <2>2, CardKeeps DEF SameRotation
<1>7. CASE \E d \in Devices : SaveSignIn(d) \/ LoseSignIn(d)
  BY <1>4, <1>7, LoginKeeps
<1>8. CASE \E d \in Devices, e \in CopiedTo : CopyFile(d, e)
  BY <1>4, <1>8, CopyKeeps
<1>9. CASE GraceEnds \/ HourPasses
  BY <1>4, <1>9, ClockKeeps
<1> QED
  BY <1>5, <1>6, <1>7, <1>8, <1>9 DEF SessionsNext

-----------------------------------------------------------------------------
\* The invariant of every reachable state.
THEOREM SessionsInvariance == SessionsSpec => []SInv
<1>1. SessionsInit => SInv
  <2> SUFFICES ASSUME SessionsInit PROVE SInv
    OBVIOUS
  <2>1. TypesOK
    BY InitTyped
  <2>2. /\ \A d \in Devices : login[d] = NoToken /\ file[d] = NoToken
        /\ \A w \in Windows : refresh[w] = Idle
        /\ issued = {}
    BY DEF SessionsInit
  <2>3. Tokens = {}
    BY <2>2 DEF Tokens, Idle
  <2>4. TokensStand
    BY <2>2, <2>3 DEF TokensStand
  <2>5. RefreshesMatch
    <3>1. Idle.stage = "idle" /\ Idle.live = FALSE /\ Idle.got = NoToken
      BY DEF Idle
    <3> QED
      BY <2>2, <3>1 DEF RefreshesMatch, At, Nonidle
  <2>6. Kept
    BY <2>2 DEF Kept, LoginKept, FileKept, RefreshKept, Cur, Current, Nonidle, At, Idle
  <2> QED
    BY <2>1, <2>4, <2>5, <2>6 DEF SInv, SessionKept
<1>2. SInv /\ [SessionsNext]_vars => SInv'
  BY StepTyped, StepStands, StepMatches, StepKeeps DEF SInv
<1> QED
  BY <1>1, <1>2, PTL DEF SessionsSpec

\* The types of the card, the tokens and the refreshes.
THEOREM SessionsTypes == SessionsSpec => []TypesOK
<1>1. SInv => TypesOK
  BY DEF SInv
<1> QED
  BY <1>1, SessionsInvariance, PTL

\* A card serves one device and one sign-in: an access token that still verifies is of
\* the device the card is bound to, and no refresh brings a token over into a later
\* sign-in (the property OneSignInServed).
THEOREM OneSignIn == SessionsSpec => []OneSignInServed
<1>1. SInv => OneSignInServed
  BY DEF SInv, TokensStand, RefreshesMatch, OneSignInServed, OneDeviceServed, SignInSupersedes
<1> QED
  BY <1>1, SessionsInvariance, PTL

\* Lost answers, retries and windows refreshing side by side sign nobody out (the
\* property RefreshesKeepSession).
THEOREM SessionsAreKept == SessionsSpec => []RefreshesKeepSession
<1>1. SInv => RefreshesKeepSession
  <2> SUFFICES ASSUME SInv, NEW w \in Windows, At(w, "used"), refresh[w].live, ~spoilt
               PROVE  refresh[w].token.signIn < card.signIn
    BY DEF RefreshesKeepSession
  <2>1. ~Current(w)
    BY DEF SInv, SessionKept, Kept, RefreshKept
  <2>2. refresh[w].token # NoToken /\ ~Latest(refresh[w].token)
    BY <2>1 DEF SInv, RefreshesMatch, Current, Nonidle, At, Cur
  <2>3. refresh[w].token \in Tokens /\ refresh[w].token \in TokenType
    BY <2>2, TokensTyped DEF SInv
  <2> QED
    BY <2>2, <2>3 DEF SInv, TokensStand, Stands, Latest, TypesOK, CardType, TokenType
<1> QED
  BY <1>1, SessionsInvariance, PTL

Codes == 0 .. MaxStep + 1

Issue == [id : Nat \ {0}, epoch : Nat, endings : Nat]

LoginType ==
  [stage : {"none", "verified"}] \cup [stage : {"code"}, code : Codes, now : Nat]
    \cup [stage : {"signed", "entered"}, session : Issue]

RequestType ==
  [stage : {"none", "revoking"}] \cup [stage : {"current", "admitted"}, session : Issue]

AdminTypeOK ==
  /\ step \in 0 .. MaxStep /\ lastUsed \in Codes
  /\ epoch \in Nat \ {0} /\ sessions \subseteq Nat \ {0}
  /\ signIn \in [Browsers -> LoginType]
  /\ cookie \in [Browsers -> Issue \cup {NoSession}]
  /\ request \in [Browsers -> RequestType]
  /\ revoking \in BOOLEAN
  /\ count \in [issued : Nat, endings : Nat]
  /\ spent \in [Codes -> Nat]

\* No code beyond the next step's was ever accepted, and none after lastUsed.
CodesInOrder ==
  /\ lastUsed <= step + 1
  /\ \A b \in Browsers : InLogin(b, "code") => signIn[b].now <= step
  /\ \A code \in Codes : spent[code] <= (IF code <= lastUsed THEN 1 ELSE 0)

\* The sessions a browser has: signed for its login, in its cookie, in its request.
SignedFor(b, s) == InLogin(b, "signed") /\ s = signIn[b].session
EnteredFor(b, s) == InLogin(b, "entered") /\ s = signIn[b].session
InCookie(b, s) == cookie[b] # NoSession /\ s = cookie[b]
Asking(b, s) == InRequest(b, "current") /\ s = request[b].session

\* Ids count up, and one just signed for a login is not in use yet.
IdsApart ==
  /\ \A id \in sessions : id <= count.issued
  /\ \A b \in Browsers, s \in Issue :
       SignedFor(b, s) \/ EnteredFor(b, s) \/ InCookie(b, s) \/ Asking(b, s) =>
         s.id <= count.issued
  /\ \A b \in Browsers, s \in Issue : SignedFor(b, s) =>
       /\ s.id \notin sessions
       /\ \A c \in Browsers, t \in Issue :
            InCookie(c, t) \/ Asking(c, t) \/ (c # b /\ (SignedFor(c, t) \/ EnteredFor(c, t)))
              => t.id # s.id

\* Of this epoch only if signed after the last ending.
OfItsEpoch(s) == s.epoch <= epoch /\ (s.epoch = epoch => s.endings = count.endings)

SessionsCurrent ==
  \A b \in Browsers, s \in Issue :
    /\ SignedFor(b, s) => OfItsEpoch(s)
    /\ (EnteredFor(b, s) \/ InCookie(b, s)) /\ s.id \in sessions => OfItsEpoch(s)
    /\ Asking(b, s) /\ s.id \in sessions => revoking \/ s.endings = count.endings

-----------------------------------------------------------------------------
\* The initial state has the types.
LEMMA AdminInitTyped == AdminInit => AdminTypeOK
<1> SUFFICES ASSUME AdminInit PROVE AdminTypeOK
  OBVIOUS
<1> USE DEF AdminInit
<1>1. revoking \in BOOLEAN
  BY Zenon
<1>2. step \in 0 .. MaxStep /\ lastUsed \in Codes /\ spent \in [Codes -> Nat]
  BY ClockAssumption DEF Codes, Unusable
<1>3. NoLogin \in LoginType /\ NoRequest \in RequestType
  BY DEF NoLogin, NoRequest, LoginType, RequestType
<1> QED
  BY <1>1, <1>2, <1>3 DEF AdminTypeOK

\* A login's steps keep the types.
LEMMA LoginTyped ==
  ASSUME AdminTypeOK, NEW b \in Browsers, Login(b)
  PROVE  AdminTypeOK'
<1> USE DEF AdminTypeOK, NoLogin
<1>1. signIn[b] \in LoginType /\ NoLogin \in LoginType
  BY DEF LoginType
<1>2. CASE PasswordChecked(b)
  <2>1. PICK code \in Codes :
          signIn' = [signIn EXCEPT ![b] = [stage |-> "code", code |-> code, now |-> step]]
    BY <1>2 DEF PasswordChecked
  <2>2. [stage |-> "code", code |-> code, now |-> step] \in LoginType
    BY ClockAssumption DEF LoginType
  <2> QED
    BY <1>2, <2>1, <2>2 DEF PasswordChecked
<1>3. CASE VerifyCode(b)
  <2>1. signIn[b].code \in Codes /\ [stage |-> "verified"] \in LoginType
    BY <1>1, <1>3 DEF VerifyCode, InLogin, LoginType
  <2> QED
    BY <1>1, <1>3, <2>1 DEF VerifyCode
<1>4. CASE SignClaims(b)
  <2>1. count' \in [issued : Nat, endings : Nat] /\ count'.issued \in Nat \ {0}
    BY <1>4 DEF SignClaims
  <2>2. [stage |-> "signed",
         session |-> [id |-> count'.issued, epoch |-> epoch, endings |-> count.endings]]
          \in LoginType
    BY <2>1 DEF LoginType, Issue
  <2> QED
    BY <1>4, <2>1, <2>2 DEF SignClaims
<1>5. CASE EnterSession(b)
  <2>1. signIn[b].session \in Issue /\ [signIn[b] EXCEPT !.stage = "entered"] \in LoginType
    BY <1>1, <1>5 DEF EnterSession, InLogin, LoginType
  <2>2. signIn' \in [Browsers -> LoginType]
    BY <1>1, <1>5, <2>1 DEF EnterSession
  <2>3. sessions' \subseteq Nat \ {0}
    BY <1>5, <2>1 DEF EnterSession, Issue
  <2> QED
    BY <1>5, <2>2, <2>3 DEF EnterSession
<1>6. CASE LoggedIn(b)
  <2>1. signIn[b].session \in Issue
    BY <1>1, <1>6 DEF LoggedIn, InLogin, LoginType
  <2> QED
    BY <1>1, <1>6, <2>1 DEF LoggedIn
<1> QED
  BY <1>2, <1>3, <1>4, <1>5, <1>6 DEF Login

\* A request's steps keep the types.
LEMMA RequestTyped ==
  ASSUME AdminTypeOK, NEW b \in Browsers, Request(b)
  PROVE  AdminTypeOK'
<1> USE DEF AdminTypeOK, NoRequest
<1>1. /\ request[b] \in RequestType /\ NoRequest \in RequestType
      /\ [stage |-> "revoking"] \in RequestType
  BY DEF RequestType
<1>2. CASE CheckEpoch(b)
  <2>1. [stage |-> "current", session |-> cookie[b]] \in RequestType
    BY <1>2 DEF CheckEpoch, RequestType
  <2> QED
    BY <1>2, <2>1 DEF CheckEpoch
<1>3. CASE LookUp(b)
  <2>1. [request[b] EXCEPT !.stage = "admitted"] \in RequestType
    BY <1>1, <1>3 DEF LookUp, InRequest, RequestType
  <2> QED
    BY <1>1, <1>3, <2>1 DEF LookUp
<1>4. CASE Serve(b)
  BY <1>1, <1>4 DEF Serve
<1>5. CASE RevokeAllSessions(b)
  <2>1. request' \in [Browsers -> RequestType] /\ epoch' \in Nat \ {0}
    BY <1>1, <1>5 DEF RevokeAllSessions, EndEpoch
  <2>2. count' \in [issued : Nat, endings : Nat]
    BY <1>5 DEF RevokeAllSessions, Ended
  <2>3. revoking' \in BOOLEAN
    BY <1>5, Zenon DEF RevokeAllSessions
  <2> QED
    BY <1>5, <2>1, <2>2, <2>3 DEF RevokeAllSessions, EndEpoch
<1>6. CASE RevokedAllSessions(b)
  BY <1>1, <1>6 DEF RevokedAllSessions, EndTable
<1> QED
  BY <1>2, <1>3, <1>4, <1>5, <1>6 DEF Request

\* So do time and the process.
LEMMA AdminStepTyped ==
  ASSUME AdminTypeOK, [AdminNext]_adminVars
  PROVE  AdminTypeOK'
<1>1. CASE UNCHANGED adminVars
  BY <1>1 DEF adminVars, AdminTypeOK
<1>2. CASE \E b \in Browsers : Login(b) \/ Request(b)
  BY <1>2, LoginTyped, RequestTyped
<1>3. CASE Tick
  BY <1>3, ClockAssumption DEF Tick, AdminTypeOK
<1>4. CASE SessionEnds
  BY <1>4 DEF SessionEnds, AdminTypeOK
<1>5. CASE Restart
  <2>1. lastUsed' \in Codes
    BY <1>5, ClockAssumption DEF Restart, Unusable, AdminTypeOK, Codes
  <2>2. count' \in [issued : Nat, endings : Nat]
    BY <1>5 DEF Restart, Ended, AdminTypeOK
  <2>3. revoking' \in BOOLEAN
    BY <1>5, Zenon DEF Restart
  <2>4. NoLogin \in LoginType /\ NoRequest \in RequestType
    BY DEF NoLogin, NoRequest, LoginType, RequestType
  <2> QED
    BY <1>5, <2>1, <2>2, <2>3, <2>4 DEF Restart, AdminTypeOK
<1> QED
  BY <1>1, <1>2, <1>3, <1>4, <1>5 DEF AdminNext

\* Whatever logins, requests, endings and restarts interleave, the login state
\* keeps its types.
THEOREM AdminLoginTypes == AdminSpec => []AdminTypeOK
BY AdminInitTyped, AdminStepTyped, PTL DEF AdminSpec

-----------------------------------------------------------------------------
\* Codes are accepted in the clock's order.
LEMMA CodesStep ==
  ASSUME AdminTypeOK, CodesInOrder, [AdminNext]_adminVars
  PROVE  CodesInOrder'
<1> USE DEF CodesInOrder, InLogin, NoLogin
<1>1. CASE UNCHANGED <<step, lastUsed, signIn, spent>>
  BY <1>1
<1>2. ASSUME NEW b \in Browsers, PasswordChecked(b)
      PROVE  CodesInOrder'
  BY <1>2 DEF PasswordChecked, AdminTypeOK
<1>3. ASSUME NEW b \in Browsers, VerifyCode(b)
      PROVE  CodesInOrder'
  <2>1. signIn[b].now <= step /\ signIn[b].code \in Codes /\ signIn[b].now \in Nat
    BY <1>3 DEF VerifyCode, AdminTypeOK, LoginType
  <2>2. CASE Accepts(signIn[b].code, signIn[b].now)
    <3>1. lastUsed' = signIn[b].code /\ lastUsed < lastUsed' /\ lastUsed' <= step + 1
      BY <1>3, <2>1, <2>2 DEF VerifyCode, Accepts, AdminTypeOK, Codes
    <3>2. \A code \in Codes : spent'[code] <= (IF code <= lastUsed' THEN 1 ELSE 0)
      <4> SUFFICES ASSUME NEW code \in Codes
                   PROVE  spent'[code] <= (IF code <= lastUsed' THEN 1 ELSE 0)
        OBVIOUS
      <4>1. /\ spent' = [spent EXCEPT ![lastUsed'] = @ + 1] /\ spent[code] \in Nat
            /\ lastUsed' \in Codes /\ lastUsed \in Codes
        BY <1>3, <2>1, <2>2, <3>1 DEF VerifyCode, AdminTypeOK
      <4>2. CASE code = lastUsed'
        BY <3>1, <4>1, <4>2 DEF AdminTypeOK, Codes
      <4>3. CASE code # lastUsed'
        BY <3>1, <4>1, <4>3 DEF AdminTypeOK, Codes
      <4> QED
        BY <4>2, <4>3
    <3>3. \A c \in Browsers : signIn'[c].stage = "code" => signIn'[c].now <= step
      BY <1>3, <2>2 DEF VerifyCode, AdminTypeOK
    <3> QED
      BY <1>3, <3>1, <3>2, <3>3 DEF VerifyCode
  <2>3. CASE ~Accepts(signIn[b].code, signIn[b].now)
    BY <1>3, <2>3 DEF VerifyCode, AdminTypeOK
  <2> QED
    BY <2>2, <2>3
<1>4. ASSUME NEW b \in Browsers, SignClaims(b) \/ EnterSession(b) \/ LoggedIn(b)
      PROVE  CodesInOrder'
  <2>1. signIn[b].stage # "code" /\ signIn'[b].stage # "code"
    BY <1>4 DEF SignClaims, EnterSession, LoggedIn, AdminTypeOK, LoginType
  <2>2. \A c \in Browsers \ {b} : signIn'[c] = signIn[c]
    BY <1>4 DEF SignClaims, EnterSession, LoggedIn, AdminTypeOK
  <2>3. UNCHANGED <<step, lastUsed, spent>>
    BY <1>4 DEF SignClaims, EnterSession, LoggedIn
  <2> QED
    BY <2>1, <2>2, <2>3
<1>5. ASSUME NEW b \in Browsers, Request(b)
      PROVE  CodesInOrder'
  BY <1>1, <1>5
     DEF Request, CheckEpoch, LookUp, Serve, RevokeAllSessions, RevokedAllSessions
<1>6. CASE Tick
  <2>1. \A b \in Browsers : signIn[b].stage = "code" => signIn[b].now \in Nat
    BY DEF AdminTypeOK, LoginType
  <2> QED
    BY <1>6, <2>1 DEF Tick, AdminTypeOK, Codes
<1>7. CASE SessionEnds
  BY <1>1, <1>7 DEF SessionEnds
<1>8. CASE Restart
  BY <1>8 DEF Restart, Unusable, AdminTypeOK, Codes
<1> QED
  BY <1>1, <1>2, <1>3, <1>4, <1>5, <1>6, <1>7, <1>8 DEF AdminNext, Login, adminVars

\* No code is accepted twice, not by two logins at a time and not by two processes.
THEOREM CodesOpenOnce == AdminSpec => []CodeOpensOnce
<1>1. AdminInit => CodesInOrder
  BY ClockAssumption
     DEF AdminInit, CodesInOrder, Unusable, InLogin, NoLogin, Codes
<1>2. AdminTypeOK /\ CodesInOrder => CodeOpensOnce
  <2> SUFFICES ASSUME AdminTypeOK, CodesInOrder, NEW code \in Codes
               PROVE  spent[code] <= 1
    BY DEF AdminTypeOK, CodeOpensOnce
  <2> QED
    BY DEF AdminTypeOK, CodesInOrder
<1> QED
  BY <1>1, <1>2, CodesStep, AdminLoginTypes, PTL DEF AdminSpec

-----------------------------------------------------------------------------
SessionInv == AdminTypeOK /\ IdsApart /\ SessionsCurrent

\* The types of what a browser has.
LEMMA BrowserTypes ==
  ASSUME AdminTypeOK, NEW b \in Browsers
  PROVE  /\ InLogin(b, "signed") \/ InLogin(b, "entered") => signIn[b].session \in Issue
         /\ cookie[b] # NoSession => cookie[b] \in Issue
         /\ InRequest(b, "current") => request[b].session \in Issue
BY DEF AdminTypeOK, LoginType, RequestType, InLogin, InRequest

\* A step after which browsers have nothing they had not, sessions are none that were
\* not, and no session's epoch is over, keeps the sessions apart and current.
LEMMA NothingNew ==
  ASSUME SessionInv,
         count'.issued = count.issued, epoch' = epoch, count'.endings = count.endings,
         revoking => revoking' \/ sessions' = {}, sessions' \subseteq sessions,
         \A b \in Browsers, s \in Issue :
           /\ SignedFor(b, s)' => SignedFor(b, s)
           /\ EnteredFor(b, s)' => EnteredFor(b, s)
           /\ InCookie(b, s)' => InCookie(b, s) \/ EnteredFor(b, s)
           /\ Asking(b, s)' => Asking(b, s) \/ (InCookie(b, s) /\ s.epoch = epoch)
  PROVE  IdsApart' /\ SessionsCurrent'
<1>1. IdsApart'
  <2>1. \A id \in sessions' : id <= count'.issued
    BY DEF SessionInv, IdsApart
  <2>2. ASSUME NEW b \in Browsers, NEW s \in Issue,
               (SignedFor(b, s) \/ EnteredFor(b, s) \/ InCookie(b, s) \/ Asking(b, s))'
        PROVE  s.id <= count'.issued
    BY <2>2 DEF SessionInv, IdsApart
  <2>3. ASSUME NEW b \in Browsers, NEW s \in Issue, SignedFor(b, s)'
        PROVE  s.id \notin sessions'
    BY <2>3 DEF SessionInv, IdsApart
  <2>4. ASSUME NEW b \in Browsers, NEW s \in Issue, SignedFor(b, s)',
               NEW c \in Browsers, NEW t \in Issue,
               \/ (InCookie(c, t) \/ Asking(c, t))'
               \/ c # b /\ (SignedFor(c, t) \/ EnteredFor(c, t))'
        PROVE  t.id # s.id
    <3>1. SignedFor(b, s)
      BY <2>4
    <3>2. \/ InCookie(c, t) \/ Asking(c, t)
          \/ c # b /\ (SignedFor(c, t) \/ EnteredFor(c, t))
      BY <2>4, <3>1 DEF SignedFor, EnteredFor, InLogin
    <3> QED
      BY <3>1, <3>2 DEF SessionInv, IdsApart
  <2> QED
    BY <2>1, <2>2, <2>3, <2>4 DEF IdsApart
<1>2. SessionsCurrent'
  BY DEF SessionInv, SessionsCurrent, OfItsEpoch
<1> QED
  BY <1>1, <1>2

\* Logging in keeps the sessions apart and current.
LEMMA LoginCurrent ==
  ASSUME SessionInv, AdminTypeOK', NEW b \in Browsers, Login(b)
  PROVE  IdsApart' /\ SessionsCurrent'
<1> DEFINE Own == signIn[b].session
<1> USE DEF SignedFor, EnteredFor, InCookie, Asking, InLogin, InRequest
<1>1. /\ \A c \in Browsers \ {b} : signIn'[c] = signIn[c] /\ cookie'[c] = cookie[c]
      /\ UNCHANGED <<request, epoch, revoking>> /\ count'.endings = count.endings
      /\ count.issued \in Nat /\ count'.issued \in Nat
  BY DEF Login, PasswordChecked, VerifyCode, SignClaims, EnterSession, LoggedIn,
         SessionInv, AdminTypeOK
<1>2. CASE PasswordChecked(b) \/ VerifyCode(b)
  <2>1. /\ signIn'[b].stage \notin {"signed", "entered"}
        /\ UNCHANGED <<cookie, sessions, count>>
    BY <1>2 DEF PasswordChecked, VerifyCode, NoLogin, SessionInv, AdminTypeOK
  <2> QED
    BY <1>1, <2>1, NothingNew
<1>3. CASE SignClaims(b)
  <2> DEFINE new == [id |-> count'.issued, epoch |-> epoch, endings |-> count.endings]
  <2>1. /\ signIn'[b] = [stage |-> "signed", session |-> new]
        /\ count'.issued = count.issued + 1 /\ UNCHANGED <<cookie, sessions>>
    BY <1>3 DEF SignClaims, SessionInv, AdminTypeOK
  <2>2. \A id \in sessions : id < new.id
    BY <2>1, <1>1 DEF SessionInv, IdsApart, AdminTypeOK
  <2>3. \A c \in Browsers, s \in Issue :
          SignedFor(c, s) \/ EnteredFor(c, s) \/ InCookie(c, s) \/ Asking(c, s) =>
            s.id < new.id
    BY <2>1, <1>1 DEF SessionInv, IdsApart, Issue
  <2>4. \A s : SignedFor(b, s)' => s = new
    BY <2>1
  <2>5. IdsApart'
    <3>1. \A id \in sessions' : id <= count'.issued
      BY <1>1, <2>1 DEF SessionInv, IdsApart, AdminTypeOK
    <3>2. ASSUME NEW c \in Browsers, NEW s \in Issue, s # new,
                 (SignedFor(c, s) \/ EnteredFor(c, s) \/ InCookie(c, s) \/ Asking(c, s))'
          PROVE  SignedFor(c, s) \/ EnteredFor(c, s) \/ InCookie(c, s) \/ Asking(c, s)
      BY <1>1, <2>1, <3>2
    <3>3. ASSUME NEW c \in Browsers, NEW s \in Issue, SignedFor(c, s)', c # b
          PROVE  SignedFor(c, s)
      BY <1>1, <3>3
    <3>4. ASSUME NEW c \in Browsers, NEW s \in Issue,
                 (SignedFor(c, s) \/ EnteredFor(c, s) \/ InCookie(c, s) \/ Asking(c, s))'
          PROVE  s.id <= count'.issued
      <4>1. CASE s = new
        BY <1>1, <2>1, <4>1
      <4>2. CASE s # new
        BY <1>1, <2>1, <2>3, <3>2, <3>4, <4>2 DEF Issue
      <4> QED
        BY <4>1, <4>2
    <3>5. ASSUME NEW c \in Browsers, NEW s \in Issue, SignedFor(c, s)'
          PROVE  s.id \notin sessions'
      BY <1>1, <2>1, <2>2, <2>4, <3>3, <3>5 DEF SessionInv, IdsApart, AdminTypeOK
    <3>6. ASSUME NEW c \in Browsers, NEW s \in Issue, SignedFor(c, s)',
                 NEW d \in Browsers, NEW t \in Issue,
                 (InCookie(d, t) \/ Asking(d, t) \/ (d # c /\ (SignedFor(d, t) \/ EnteredFor(d, t))))'
          PROVE  t.id # s.id
      <4>1. CASE c = b
        <5>1. s = new /\ (InCookie(d, t) \/ Asking(d, t) \/ SignedFor(d, t) \/ EnteredFor(d, t))
          BY <1>1, <2>1, <2>4, <3>6, <4>1
        <5> QED
          BY <2>3, <5>1 DEF Issue
      <4>2. CASE c # b /\ d = b /\ (SignedFor(d, t) \/ EnteredFor(d, t))'
        <5>1. SignedFor(c, s) /\ t = new
          BY <1>1, <2>1, <3>6, <4>2
        <5> QED
          BY <2>3, <5>1 DEF Issue
      <4>3. CASE c # b /\ (InCookie(d, t) \/ Asking(d, t) \/ d # b)'
        <5>1. /\ SignedFor(c, s)
              /\ InCookie(d, t) \/ Asking(d, t) \/ (d # c /\ (SignedFor(d, t) \/ EnteredFor(d, t)))
          BY <1>1, <2>1, <3>6, <4>3
        <5> QED
          BY <5>1 DEF SessionInv, IdsApart
      <4> QED
        BY <3>6, <4>1, <4>2, <4>3
    <3> QED
      BY <3>1, <3>4, <3>5, <3>6 DEF IdsApart
  <2>6. SessionsCurrent'
    BY <1>1, <2>1, <2>4 DEF SessionInv, SessionsCurrent, OfItsEpoch, AdminTypeOK
  <2> QED
    BY <2>5, <2>6
<1>4. CASE EnterSession(b)
  <2>1. signIn[b].stage = "signed" /\ Own \in Issue /\ SignedFor(b, Own)
    BY <1>4, BrowserTypes DEF EnterSession, SessionInv
  <2>2. UNCHANGED <<cookie, count>>
    BY <1>4 DEF EnterSession
  <2>3. CASE Cardinality(sessions) < MaxSessions
    <3>1. /\ sessions' = sessions \cup {Own.id}
          /\ signIn'[b].stage = "entered" /\ signIn'[b].session = Own
      BY <1>4, <2>1, <2>3 DEF EnterSession, SessionInv, AdminTypeOK, LoginType
    <3>2. IdsApart'
      BY <1>1, <2>1, <2>2, <3>1 DEF SessionInv, IdsApart
    <3>3. SessionsCurrent'
      BY <1>1, <2>1, <2>2, <3>1 DEF SessionInv, SessionsCurrent, OfItsEpoch, IdsApart
    <3> QED
      BY <3>2, <3>3
  <2>4. CASE ~(Cardinality(sessions) < MaxSessions)
    <3>1. signIn'[b].stage = "none" /\ UNCHANGED sessions
      BY <1>4, <2>4 DEF EnterSession, NoLogin, SessionInv, AdminTypeOK
    <3> QED
      BY <1>1, <2>2, <3>1, NothingNew
  <2> QED
    BY <2>3, <2>4
<1>5. CASE LoggedIn(b)
  <2>1. /\ signIn[b].stage = "entered" /\ signIn'[b].stage = "none"
        /\ cookie'[b] = Own /\ sessions' \subseteq sessions /\ UNCHANGED count
    BY <1>5 DEF LoggedIn, NoLogin, SessionInv, AdminTypeOK
  <2> QED
    BY <1>1, <2>1, NothingNew
<1> QED
  BY <1>2, <1>3, <1>4, <1>5 DEF Login

\* So does a request, the ending of all sessions included.
LEMMA RequestCurrent ==
  ASSUME SessionInv, AdminTypeOK', NEW b \in Browsers, Request(b)
  PROVE  IdsApart' /\ SessionsCurrent'
<1> USE DEF SignedFor, EnteredFor, InCookie, Asking, InLogin, InRequest
<1>1. /\ \A c \in Browsers \ {b} : request'[c] = request[c]
      /\ UNCHANGED <<signIn, cookie>> /\ count'.issued = count.issued
      /\ sessions' \subseteq sessions
  BY DEF Request, CheckEpoch, LookUp, Serve, RevokeAllSessions, RevokedAllSessions,
         EndEpoch, EndTable, Ended, SessionInv, AdminTypeOK
<1>2. CASE CheckEpoch(b)
  <2>1. /\ cookie[b] # NoSession /\ cookie[b].epoch = epoch /\ request'[b].session = cookie[b]
        /\ UNCHANGED <<epoch, count, revoking, sessions>>
    BY <1>2 DEF CheckEpoch, EpochHolds, SessionInv, AdminTypeOK
  <2> QED
    BY <1>1, <2>1, NothingNew
<1>3. CASE LookUp(b) \/ Serve(b)
  <2>1. request'[b].stage # "current" /\ UNCHANGED <<epoch, count, revoking>>
    BY <1>3 DEF LookUp, Serve, NoRequest, SessionInv, AdminTypeOK, RequestType
  <2> QED
    BY <1>1, <2>1, NothingNew
<1>4. CASE RevokeAllSessions(b)
  <2>1. /\ request'[b].stage # "current" /\ epoch' = epoch + 1 /\ revoking'
        /\ UNCHANGED sessions
    BY <1>4 DEF RevokeAllSessions, EndEpoch, SessionInv, AdminTypeOK
  <2>2. IdsApart'
    BY <1>1, <2>1 DEF SessionInv, IdsApart
  <2>3. ASSUME NEW s \in Issue, OfItsEpoch(s)
        PROVE  OfItsEpoch(s)'
    BY <2>1, <2>3 DEF OfItsEpoch, Issue, SessionInv, AdminTypeOK
  <2>4. SessionsCurrent'
    BY <1>1, <2>1, <2>3 DEF SessionInv, SessionsCurrent
  <2> QED
    BY <2>2, <2>4
<1>5. CASE RevokedAllSessions(b)
  <2>1. /\ request'[b].stage # "current" /\ sessions' = {}
        /\ UNCHANGED <<epoch, count>>
    BY <1>5 DEF RevokedAllSessions, EndTable, NoRequest, SessionInv, AdminTypeOK
  <2> QED
    BY <1>1, <2>1, NothingNew
<1> QED
  BY <1>2, <1>3, <1>4, <1>5 DEF Request

\* Every step does.
LEMMA SessionStep ==
  ASSUME SessionInv, [AdminNext]_adminVars
  PROVE  SessionInv'
<1>1. AdminTypeOK'
  BY AdminStepTyped DEF SessionInv
<1>2. CASE \E b \in Browsers : Login(b) \/ Request(b)
  BY <1>1, <1>2, LoginCurrent, RequestCurrent DEF SessionInv
<1> USE DEF SignedFor, EnteredFor, InCookie, Asking, InLogin, InRequest
<1>3. CASE Tick \/ SessionEnds \/ UNCHANGED adminVars
  <2>1. UNCHANGED <<signIn, cookie, request, epoch, count, revoking>> /\ sessions' \subseteq sessions
    BY <1>3 DEF Tick, SessionEnds, adminVars
  <2> QED
    BY <1>1, <2>1, NothingNew DEF SessionInv
<1>4. CASE Restart
  <2>1. /\ \A b \in Browsers : signIn'[b].stage = "none" /\ request'[b].stage = "none"
        /\ UNCHANGED cookie /\ sessions' = {} /\ count'.issued = count.issued
    BY <1>4 DEF Restart, Ended, NoLogin, NoRequest, SessionInv, AdminTypeOK
  <2>2. IdsApart'
    BY <2>1 DEF SessionInv, IdsApart
  <2>3. SessionsCurrent'
    BY <2>1 DEF SessionsCurrent
  <2> QED
    BY <1>1, <2>2, <2>3 DEF SessionInv
<1> QED
  BY <1>2, <1>3, <1>4 DEF AdminNext, SessionInv

\* The sessions stay apart and current throughout.
THEOREM SessionInvariance == AdminSpec => []SessionInv
<1>1. AdminInit => SessionInv
  <2> SUFFICES ASSUME AdminInit PROVE SessionInv
    OBVIOUS
  <2>1. \A b \in Browsers, s \in Issue :
          ~SignedFor(b, s) /\ ~EnteredFor(b, s) /\ ~InCookie(b, s) /\ ~Asking(b, s)
    BY DEF AdminInit, SignedFor, EnteredFor, InCookie, Asking, InLogin, InRequest, NoLogin, NoRequest
  <2> QED
    BY <2>1, AdminInitTyped DEF AdminInit, SessionInv, IdsApart, SessionsCurrent
<1> QED
  BY <1>1, SessionStep, PTL DEF AdminSpec

\* However logins, requests, endings and restarts interleave, no session from before
\* an ending admits a request once the ending is complete.
THEOREM EndedStayOut == AdminSpec => EndedSessionsStayOut
<1>1. ASSUME SessionInv, [AdminNext]_adminVars,
             NEW b \in Browsers, InRequest(b, "current"), InRequest(b, "admitted")'
      PROVE  revoking \/ request[b].session.endings = count.endings
  <2> USE DEF InRequest
  <2>1. PICK c \in Browsers : LookUp(c) /\ request[c].session.id \in sessions /\ b = c
    BY <1>1 DEF AdminNext, adminVars, Login, PasswordChecked, VerifyCode, SignClaims,
                EnterSession, LoggedIn, Request, CheckEpoch, LookUp, Serve,
                RevokeAllSessions, RevokedAllSessions, Tick, SessionEnds, Restart,
                NoRequest, SessionInv, AdminTypeOK
  <2>2. request[b].session \in Issue
    BY <1>1, BrowserTypes DEF SessionInv
  <2> QED
    BY <1>1, <2>1, <2>2 DEF SessionInv, SessionsCurrent, Asking
<1>2. SessionInv /\ [AdminNext]_adminVars =>
        [\A b \in Browsers :
           InRequest(b, "current") /\ InRequest(b, "admitted")' =>
             revoking \/ request[b].session.endings = count.endings]_adminVars
  BY <1>1
<1> QED
  BY <1>2, SessionInvariance, PTL DEF AdminSpec, EndedSessionsStayOut

-----------------------------------------------------------------------------
\* Complexity routing.

Eligibles == UNION Candidates

DecisionType ==
  [complexity : {"unknown", "simple", "complex"}, chain : SUBSET Eligibles,
   revision : Nat, mode : {p.mode : p \in Policies}, day : Nat, preview : BOOLEAN,
   pending : BOOLEAN, cost : Nat, served : Eligibles \cup {"none"}]

TaskType ==
  [pc : {"drafted", "asking", "routed"}, eligible : SUBSET Eligibles, draft : DecisionType]
    \cup [pc : {"new", "over"}, eligible : {{}}, draft : {"none"}]

HasDraft(r) == tasks[r].pc \in {"drafted", "asking", "routed"}

RoutingTypeOK ==
  /\ decisions \in [DOMAIN decisions -> DecisionType] /\ DOMAIN decisions \subseteq Requests
  /\ budget \in [day : Nat, calls : Nat, cost : Int]
  /\ policies \in Seq(Policies) /\ policies # <<>>
  /\ tasks \in [Requests -> TaskType]
  /\ today \in Nat
  /\ asked \in Seq([of : Requests, day : Nat, cost : Nat])

\* A decision names providers of its policy, and, unless it says simple, only
\* conservative ones; one still pending says nothing yet.
ChainStands(d) ==
  /\ d.revision \in DOMAIN policies
  /\ \A p \in d.chain :
       \/ p \in policies[d.revision].complex
       \/ d.complexity = "simple" /\ p \in policies[d.revision].simple
  /\ d.pending => d.complexity = "unknown"

ChainsStand ==
  /\ \A r \in DOMAIN decisions : ChainStands(decisions[r])
  /\ \A r \in Requests : HasDraft(r) => ChainStands(tasks[r].draft)
  /\ CheapOnlyIfSimple
  /\ \A s \in served : s.revision \in DOMAIN policies

\* The latest call for r.
LastCall(r, n) ==
  /\ n \in DOMAIN asked /\ asked[n].of = r
  /\ \A m \in DOMAIN asked : asked[m].of = r => m <= n

\* Calls for an invocation are further apart than its decision is kept: whoever
\* drafts another found no decision, the one of the last call was dropped, and
\* that is only done Retention days after it.
CallsApart ==
  /\ \A n, m \in DOMAIN asked :
       n < m /\ asked[n].of = asked[m].of => asked[m].day - asked[n].day > Retention
  /\ \A n \in DOMAIN asked :
       /\ asked[n].day <= today
       /\ IF asked[n].of \in DOMAIN decisions
          THEN asked[n].day <= decisions[asked[n].of].day
          ELSE today - asked[n].day > Retention
  /\ \A r \in Requests : Is(r, "drafted") =>
       /\ tasks[r].draft.day <= today
       /\ \A n \in DOMAIN asked :
            asked[n].of = r => tasks[r].draft.day - asked[n].day > Retention

\* While a request waits for the classifier its last call stands at the reserve,
\* and so does its decision, if it is still there, for the same day.
Reserved ==
  \A r \in Requests : Is(r, "asking") =>
    \E n \in DOMAIN asked :
      /\ LastCall(r, n) /\ asked[n].cost = Reserve
      /\ r \in DOMAIN decisions /\ decisions[r].pending =>
           decisions[r].cost = Reserve /\ decisions[r].day = asked[n].day

Calls(a, day) == {n \in DOMAIN a : a[n].day = day}

CostOf(a, S) == MapThenSumSet(LAMBDA n : a[n].cost, S)

DayWithin(day) ==
  /\ Cardinality(Calls(asked, day)) <= DailyCalls
  /\ CostOf(asked, Calls(asked, day)) <= DailyBudget

BudgetStands ==
  /\ \A n \in DOMAIN asked : asked[n].day <= budget.day
  /\ \A day \in {asked[n].day : n \in DOMAIN asked} : DayWithin(day)
  /\ Cardinality(Calls(asked, budget.day)) <= budget.calls
  /\ CostOf(asked, Calls(asked, budget.day)) <= budget.cost /\ budget.cost <= DailyBudget

RInv == RoutingTypeOK /\ ChainsStand /\ CallsApart /\ Reserved /\ BudgetStands

-----------------------------------------------------------------------------
\* What calls cost.

\* g is the running sum of the costs in a.
CostAdds(g, a, S) ==
  g = [s \in SUBSET S |->
         IF s = {} THEN 0
         ELSE a[CHOOSE n \in s : TRUE].cost + g[s \ {CHOOSE n \in s : TRUE}]]

\* What calls cost is the sum of their costs.
LEMMA CostIsSum ==
  ASSUME NEW a, NEW S, IsFiniteSet(S), NEW f \in [S -> Int],
         \A n \in S : a[n].cost = f[n]
  PROVE  CostOf(a, S) = RunningSum(f, S)[S]
<1> DEFINE h == CHOOSE g : CostAdds(g, a, S)
<1>1. CostOf(a, S) = h[S]
  BY DEF CostOf, MapThenSumSet, MapThenFoldSet, CostAdds
<1>2. Adds(RunningSum(f, S), f, S)
  BY RunningExists
<1>3. \A g : CostAdds(g, a, S) <=> Adds(g, f, S)
  <2> TAKE g
  <2>1. \A s \in SUBSET S : s # {} =>
          a[CHOOSE n \in s : TRUE].cost = f[CHOOSE n \in s : TRUE]
    OBVIOUS
  <2>2. [s \in SUBSET S |->
           IF s = {} THEN 0
           ELSE a[CHOOSE n \in s : TRUE].cost + g[s \ {CHOOSE n \in s : TRUE}]]
        = [s \in SUBSET S |->
             IF s = {} THEN 0
             ELSE f[CHOOSE n \in s : TRUE] + g[s \ {CHOOSE n \in s : TRUE}]]
    BY <2>1
  <2> QED
    BY <2>2, Zenon DEF CostAdds, Adds
<1>4. CostAdds(h, a, S)
  BY <1>2, <1>3
<1> HIDE DEF h
<1>5. \A s \in SUBSET S : h[s] = RunningSum(f, S)[s]
  BY <1>2, <1>3, <1>4, RunningUnique
<1> QED
  BY <1>1, <1>5

CostsIn(a, S) == IsFiniteSet(S) /\ \A n \in S : a[n].cost \in Nat

\* It is a natural.
LEMMA CostNat ==
  ASSUME NEW a, NEW S, CostsIn(a, S)
  PROVE  CostOf(a, S) \in Nat
<1> DEFINE f == [n \in S |-> a[n].cost]
<1>1. f \in [S -> Nat] /\ f \in [S -> Int] /\ \A n \in S : a[n].cost = f[n]
  BY DEF CostsIn
<1> HIDE DEF f
<1>2. CostOf(a, S) = RunningSum(f, S)[S]
  BY <1>1, CostIsSum DEF CostsIn
<1> QED
  BY <1>1, <1>2, RunningNat DEF CostsIn

SameCosts(a, b, S) ==
  CostsIn(a, S) /\ (\A n \in S : b[n].cost = a[n].cost) => CostOf(b, S) = CostOf(a, S)

\* Calls that cost the same come to the same.
LEMMA CostSame == \A a, b, S : SameCosts(a, b, S)
<1> SUFFICES ASSUME NEW a, NEW b, NEW S, CostsIn(a, S), \A n \in S : b[n].cost = a[n].cost
             PROVE  CostOf(b, S) = CostOf(a, S)
  BY DEF SameCosts
<1> DEFINE f == [n \in S |-> a[n].cost]
<1>1. f \in [S -> Int] /\ \A n \in S : a[n].cost = f[n] /\ b[n].cost = f[n]
  BY DEF CostsIn
<1> HIDE DEF f
<1>2. CostOf(a, S) = RunningSum(f, S)[S]
  BY <1>1, CostIsSum DEF CostsIn
<1>3. CostOf(b, S) = RunningSum(f, S)[S]
  BY <1>1, CostIsSum DEF CostsIn
<1> QED
  BY <1>2, <1>3

OneCost(a, S, n) ==
  CostsIn(a, S) /\ n \in S => CostOf(a, S) = a[n].cost + CostOf(a, S \ {n})

\* One call's cost and the others'.
LEMMA CostTakes == \A a, S, n : OneCost(a, S, n)
<1> SUFFICES ASSUME NEW a, NEW S, CostsIn(a, S), NEW n \in S
             PROVE  CostOf(a, S) = a[n].cost + CostOf(a, S \ {n})
  BY DEF OneCost
<1> DEFINE R == S \ {n}
           f == [m \in S |-> a[m].cost]
           e == [m \in R |-> a[m].cost]
<1>1. /\ IsFiniteSet(S) /\ IsFiniteSet(R) /\ R \subseteq S /\ R \subseteq R
      /\ f \in [S -> Int] /\ e \in [R -> Int]
      /\ \A m \in S : a[m].cost = f[m]
      /\ \A m \in R : a[m].cost = e[m] /\ f[m] = e[m]
  BY FS_Subset DEF CostsIn
<1> HIDE DEF R, f, e
<1>2. CostOf(a, S) = RunningSum(f, S)[S] /\ CostOf(a, R) = RunningSum(e, R)[R]
  BY <1>1, CostIsSum
<1>3. RunningSum(f, S)[S] = f[n] + RunningSum(f, S)[R]
  BY <1>1, RunningTakes DEF R
<1>4. Adds(RunningSum(f, S), f, S) /\ Adds(RunningSum(e, R), e, R)
  BY <1>1, RunningExists
<1>5. RunningSum(f, S)[R] = RunningSum(e, R)[R]
  BY <1>1, <1>4, RunningUnique
<1> QED
  BY <1>1, <1>2, <1>3, <1>5 DEF R

-----------------------------------------------------------------------------
\* What the operators of the model return.

\* A decision kept is unchanged, and one dropped was older than Retention.
LEMMA RetainedFacts ==
  ASSUME RoutingTypeOK, NEW day \in Nat
  PROVE  /\ DOMAIN Retained(day) \subseteq DOMAIN decisions
         /\ \A q \in DOMAIN Retained(day) : Retained(day)[q] = decisions[q]
         /\ \A q \in DOMAIN decisions :
              q \notin DOMAIN Retained(day) => day - decisions[q].day > Retention
         /\ Retained(day) \in [DOMAIN Retained(day) -> DecisionType]
<1>1. /\ decisions \in [DOMAIN decisions -> DecisionType]
      /\ \A q \in DOMAIN decisions : decisions[q].day \in Nat
  BY DEF RoutingTypeOK, DecisionType
<1>2. Retention \in Nat
  BY RoutingAssumption
<1>3. /\ DOMAIN Retained(day) = {q \in DOMAIN decisions : day - decisions[q].day <= Retention}
      /\ \A q \in DOMAIN Retained(day) : Retained(day)[q] = decisions[q]
      /\ Retained(day) = [q \in DOMAIN Retained(day) |-> Retained(day)[q]]
  BY DEF Retained
<1>4. Retained(day) \in [DOMAIN Retained(day) -> DecisionType]
  BY <1>1, <1>3
<1> QED
  BY <1>1, <1>2, <1>3, <1>4

\* The decision saved for r, among those kept.
LEMMA WithDecisionFacts ==
  ASSUME RoutingTypeOK, NEW r \in Requests, NEW d \in DecisionType
  PROVE  /\ DOMAIN WithDecision(r, d) = DOMAIN Retained(d.day) \cup {r}
         /\ WithDecision(r, d)[r] = d
         /\ \A q \in DOMAIN Retained(d.day) : q # r => WithDecision(r, d)[q] = decisions[q]
         /\ WithDecision(r, d) \in [DOMAIN Retained(d.day) \cup {r} -> DecisionType]
<1>1. d.day \in Nat
  BY DEF DecisionType
<1> QED
  BY <1>1, RetainedFacts DEF WithDecision, RoutingTypeOK

\* A task with a draft.
LEMMA TaskFacts ==
  ASSUME RoutingTypeOK, NEW r \in Requests
  PROVE  /\ tasks[r].eligible \in SUBSET Eligibles
         /\ HasDraft(r) => /\ tasks[r].draft \in DecisionType
                           /\ tasks[r] = [pc |-> tasks[r].pc, eligible |-> tasks[r].eligible,
                                          draft |-> tasks[r].draft]
BY DEF RoutingTypeOK, TaskType, HasDraft

\* Only task r changes, to t.
TaskBecomes(r, t) ==
  /\ tasks' \in [Requests -> TaskType] /\ tasks'[r] = t
  /\ \A q \in Requests : q # r => tasks'[q] = tasks[q]

\* A task routed by a decision keeps what it was eligible for.
LEMMA RoutedFacts ==
  ASSUME RoutingTypeOK, NEW r \in Requests, HasDraft(r), NEW d \in DecisionType, Routed(r, d)
  PROVE  TaskBecomes(r, [pc |-> "routed", eligible |-> tasks[r].eligible, draft |-> d])
<1> DEFINE t == [pc |-> "routed", eligible |-> tasks[r].eligible, draft |-> d]
<1>1. t \in TaskType
  BY TaskFacts DEF TaskType
<1>2. tasks \in [Requests -> TaskType] /\ DOMAIN tasks = Requests
  BY DEF RoutingTypeOK
<1>3. tasks' = [tasks EXCEPT ![r] = t]
  <2> DEFINE u == tasks[r]
  <2>1. [[u EXCEPT !.pc = "routed"] EXCEPT !.draft = d] = t
    <3>1. u = [pc |-> u.pc, eligible |-> u.eligible, draft |-> u.draft]
      BY TaskFacts
    <3> HIDE DEF u
    <3>2. [[pc |-> u.pc, eligible |-> u.eligible, draft |-> u.draft] EXCEPT !.pc = "routed"]
          = [pc |-> "routed", eligible |-> u.eligible, draft |-> u.draft]
      OBVIOUS
    <3>3. [[pc |-> "routed", eligible |-> u.eligible, draft |-> u.draft] EXCEPT !.draft = d]
          = [pc |-> "routed", eligible |-> u.eligible, draft |-> d]
      OBVIOUS
    <3>4. [[u EXCEPT !.pc = "routed"] EXCEPT !.draft = d]
          = [pc |-> "routed", eligible |-> u.eligible, draft |-> d]
      BY <3>1, <3>2, <3>3, Zenon
    <3> QED
      BY <3>4 DEF u
  <2>2. tasks' = [tasks EXCEPT ![r] = [[u EXCEPT !.pc = "routed"] EXCEPT !.draft = d]]
    BY <1>2 DEF Routed
  <2> QED
    BY <2>1, <2>2
<1> HIDE DEF t
<1>4. tasks' \in [Requests -> TaskType] /\ tasks'[r] = t
      /\ \A q \in Requests : q # r => tasks'[q] = tasks[q]
  BY <1>1, <1>2, <1>3
<1> QED
  BY <1>4 DEF TaskBecomes, t

\* What an attempt that has no draft yet, or has none any more, looks like.
LEMMA NoAttemptFacts ==
  ASSUME RoutingTypeOK, NEW r \in Requests, NEW pc \in {"new", "over"},
         tasks' = [tasks EXCEPT ![r] = NoAttempt(pc)]
  PROVE  TaskBecomes(r, [pc |-> pc, eligible |-> {}, draft |-> "none"])
<1>1. NoAttempt(pc) \in TaskType
  BY DEF NoAttempt, TaskType
<1> QED
  BY <1>1 DEF TaskBecomes, RoutingTypeOK, NoAttempt

\* The policy in force.
LEMMA LastPolicy ==
  ASSUME RoutingTypeOK
  PROVE  /\ Revision \in DOMAIN policies /\ Revision \in Nat
         /\ Last(policies) = policies[Revision] /\ policies[Revision] \in Policies
BY DEF RoutingTypeOK, Revision, Last

\* A draft is a decision that stands, made today.
LEMMA DraftFacts ==
  ASSUME RoutingTypeOK, ChainsStand, NEW r \in Requests, NEW eligible \in SUBSET Eligibles,
         NEW d \in Drafts(r, eligible)
  PROVE  d \in DecisionType /\ ChainStands(d) /\ d.day = today
<1> DEFINE e == Draft(r, eligible)
<1>1. e \in DecisionType /\ ChainStands(e) /\ e.day = today /\ e.revision = Revision
      /\ e.mode = Last(policies).mode /\ e.complexity = "unknown" /\ ~e.pending
  BY LastPolicy DEF Draft, DecisionType, RoutingTypeOK, ChainStands
<1> HIDE DEF e
<1>2. ASSUME d = [e EXCEPT !.complexity = "complex"]
      PROVE  d \in DecisionType /\ ChainStands(d) /\ d.day = today
  BY <1>1, <1>2 DEF DecisionType, ChainStands
<1>3. ASSUME d = [e EXCEPT !.pending = TRUE]
      PROVE  d \in DecisionType /\ ChainStands(d) /\ d.day = today
  BY <1>1, <1>3 DEF DecisionType, ChainStands
<1>4. ASSUME NEW p \in Previous,
             d = [e EXCEPT !.complexity = p.complexity, !.chain = p.chain \cap eligible]
      PROVE  d \in DecisionType /\ ChainStands(d) /\ d.day = today
  <2>1. PICK q \in DOMAIN decisions : p = decisions[q]
    BY <1>4 DEF Previous
  <2>2. p \in DecisionType /\ ChainStands(p) /\ p.revision = Revision
    BY <1>4, <2>1 DEF Previous, Inheritable, RoutingTypeOK, ChainsStand
  <2>3. d \in DecisionType /\ d.day = today /\ d.revision = e.revision
        /\ d.complexity = p.complexity /\ d.chain = p.chain \cap eligible /\ ~d.pending
    BY <1>1, <1>4, <2>2 DEF DecisionType
  <2> QED
    BY <1>1, <2>2, <2>3 DEF ChainStands
<1>5. \/ d = e \/ d = [e EXCEPT !.complexity = "complex"] \/ d = [e EXCEPT !.pending = TRUE]
      \/ \E p \in Previous :
           d = [e EXCEPT !.complexity = p.complexity, !.chain = p.chain \cap eligible]
  <2>1. Kind[r] \in Kinds
    BY RoutingAssumption
  <2> QED
    BY <2>1 DEF Drafts, Kinds, e
<1> QED
  BY <1>1, <1>2, <1>3, <1>4, <1>5

\* What a result makes of a decision stands, for the same day.
LEMMA ConcludedFacts ==
  ASSUME RoutingTypeOK, NEW r \in Requests, NEW d \in DecisionType, ChainStands(d), d.pending,
         NEW complexity \in {"simple", "complex", "unknown"}, NEW cost \in Nat
  PROVE  LET final == Concluded(r, d, complexity, cost) IN
         /\ final \in DecisionType /\ ChainStands(final) /\ ~final.pending
         /\ final.day = d.day
         /\ final.cost = IF complexity = "unknown" THEN d.cost ELSE cost
<1> DEFINE cheap == policies[d.revision].simple \cap tasks[r].eligible
           chain == IF complexity = "simple" /\ cheap # {} THEN cheap ELSE d.chain
           price == IF complexity = "unknown" THEN d.cost ELSE cost
           final == [complexity |-> complexity, chain |-> chain, revision |-> d.revision,
                     mode |-> d.mode, day |-> d.day, preview |-> d.preview,
                     pending |-> FALSE, cost |-> price, served |-> d.served]
<1>1. d = [complexity |-> d.complexity, chain |-> d.chain, revision |-> d.revision,
           mode |-> d.mode, day |-> d.day, preview |-> d.preview,
           pending |-> d.pending, cost |-> d.cost, served |-> d.served]
  BY DEF DecisionType
<1>2. Concluded(r, d, complexity, cost) = final
  <2>1. Concluded(r, d, complexity, cost)
        = [[[[d EXCEPT !.pending = FALSE] EXCEPT !.complexity = complexity]
             EXCEPT !.chain = chain] EXCEPT !.cost = price]
    <3>1. Concluded(r, d, complexity, cost)
          = [d EXCEPT !.pending = FALSE, !.complexity = complexity,
                      !.chain = IF complexity = "simple" /\ cheap # {} THEN cheap ELSE @,
                      !.cost = IF complexity = "unknown" THEN @ ELSE cost]
      BY DEF Concluded
    <3> HIDE DEF cheap
    <3> QED
      BY <3>1, <1>1
  <2> HIDE DEF chain, price
  <2> QED
    BY <1>1, <2>1
<1>3. chain \in SUBSET Eligibles /\ price \in Nat
  BY TaskFacts DEF DecisionType
<1>4. \A p \in chain : \/ p \in policies[d.revision].complex
                       \/ complexity = "simple" /\ p \in policies[d.revision].simple
  BY DEF ChainStands
<1>5. d.revision \in DOMAIN policies
  BY DEF ChainStands
<1> HIDE DEF chain, price
<1>6. final \in DecisionType
  BY <1>3 DEF DecisionType
<1>7. ChainStands(final)
  BY <1>4, <1>5 DEF ChainStands
<1> QED
  BY <1>2, <1>6, <1>7 DEF price

\* A policy once published stays as it was.
LEMMA PoliciesKept ==
  ASSUME RoutingTypeOK, NEW policy \in Policies,
         policies' = policies \/ policies' = Append(policies, policy)
  PROVE  /\ policies' \in Seq(Policies) /\ policies' # <<>>
         /\ \A n \in DOMAIN policies : n \in DOMAIN policies' /\ policies'[n] = policies[n]
<1>1. policies \in Seq(Policies) /\ policies # <<>>
  BY DEF RoutingTypeOK
<1>2. CASE policies' = policies
  BY <1>1, <1>2
<1>3. CASE policies' = Append(policies, policy)
  <2>1. policies' \in Seq(Policies) /\ Len(policies') = Len(policies) + 1
        /\ \A n \in 1 .. Len(policies) : policies'[n] = policies[n]
    BY <1>1, <1>3
  <2>2. Len(policies) \in Nat /\ DOMAIN policies = 1 .. Len(policies)
        /\ DOMAIN policies' = 1 .. Len(policies')
    BY <1>1, <2>1
  <2> QED
    BY <2>1, <2>2
<1> QED
  BY <1>2, <1>3

\* What decisions, drafts and answers rest on stays when policies do.
LEMMA ChainsKept ==
  ASSUME ChainsStand, NEW r,
         \A n \in DOMAIN policies : n \in DOMAIN policies' /\ policies'[n] = policies[n],
         \A q \in DOMAIN decisions' :
           q # r => q \in DOMAIN decisions /\ decisions'[q] = decisions[q],
         r \in DOMAIN decisions' =>
           \/ ChainStands(decisions'[r])
           \/ r \in DOMAIN decisions /\ decisions'[r] = decisions[r],
         \A q \in Requests :
           q # r /\ HasDraft(q)' => HasDraft(q) /\ tasks'[q].draft = tasks[q].draft,
         r \in Requests /\ HasDraft(r)' =>
           \/ ChainStands(tasks'[r].draft)
           \/ HasDraft(r) /\ tasks'[r].draft = tasks[r].draft,
         served' = served
  PROVE  ChainsStand'
<1>1. \A q \in DOMAIN decisions' : q # r =>
        decisions'[q] = decisions[q] /\ ChainStands(decisions[q])
  BY DEF ChainsStand
<1>2. r \in DOMAIN decisions' =>
        \/ ChainStands(decisions'[r])
        \/ decisions'[r] = decisions[r] /\ ChainStands(decisions[r])
  BY DEF ChainsStand
<1>3. (\A q \in DOMAIN decisions : ChainStands(decisions[q]))'
  BY <1>1, <1>2 DEF ChainStands
<1>4. (\A q \in Requests : HasDraft(q) => ChainStands(tasks[q].draft))'
  <2>1. \A q \in Requests : q # r /\ HasDraft(q)' =>
          tasks'[q].draft = tasks[q].draft /\ ChainStands(tasks[q].draft)
    BY DEF ChainsStand
  <2>2. r \in Requests /\ HasDraft(r)' =>
          \/ ChainStands(tasks'[r].draft)
          \/ tasks'[r].draft = tasks[r].draft /\ ChainStands(tasks[r].draft)
    BY DEF ChainsStand
  <2> QED
    BY <2>1, <2>2 DEF ChainStands, HasDraft
<1>5. (CheapOnlyIfSimple /\ \A s \in served : s.revision \in DOMAIN policies)'
  BY DEF ChainsStand, CheapOnlyIfSimple
<1> QED
  BY <1>3, <1>4, <1>5 DEF ChainsStand

-----------------------------------------------------------------------------
\* The calls: how far they are apart.

\* The record of calls.
LEMMA AskedFacts ==
  ASSUME RoutingTypeOK
  PROVE  /\ Len(asked) \in Nat /\ DOMAIN asked = 1 .. Len(asked)
         /\ \A n \in DOMAIN asked :
              /\ n \in Nat /\ asked[n] \in [of : Requests, day : Nat, cost : Nat]
              /\ asked[n].of \in Requests /\ asked[n].day \in Nat /\ asked[n].cost \in Nat
<1>1. asked \in Seq([of : Requests, day : Nat, cost : Nat])
  BY DEF RoutingTypeOK
<1>2. Len(asked) \in Nat /\ DOMAIN asked = 1 .. Len(asked)
  BY <1>1
<1>3. ASSUME NEW n \in DOMAIN asked
      PROVE  n \in Nat /\ asked[n] \in [of : Requests, day : Nat, cost : Nat]
  <2>1. n \in 1 .. Len(asked) /\ n \in Nat
    BY <1>2
  <2> DEFINE C == [of : Requests, day : Nat, cost : Nat]
  <2>2. asked \in Seq(C)
    BY <1>1
  <2> HIDE DEF C
  <2>3. asked[n] \in C
    BY <2>1, <2>2
  <2> QED
    BY <2>1, <2>3 DEF C
<1> QED
  BY <1>2, <1>3

\* A call is added at its end.
LEMMA AskedAppended ==
  ASSUME RoutingTypeOK, NEW call \in [of : Requests, day : Nat, cost : Nat],
         asked' = Append(asked, call)
  PROVE  LET N == Len(asked) + 1 IN
         /\ N \in Nat /\ N \notin DOMAIN asked
         /\ DOMAIN asked' = DOMAIN asked \cup {N} /\ asked'[N] = call
         /\ \A n \in DOMAIN asked : n < N /\ asked'[n] = asked[n]
         /\ asked' \in Seq([of : Requests, day : Nat, cost : Nat])
<1>1. asked \in Seq([of : Requests, day : Nat, cost : Nat])
  BY DEF RoutingTypeOK
<1>2. Len(asked) \in Nat /\ DOMAIN asked = 1 .. Len(asked)
  BY AskedFacts
<1>3. asked' \in Seq([of : Requests, day : Nat, cost : Nat])
      /\ Len(asked') = Len(asked) + 1 /\ asked'[Len(asked) + 1] = call
  BY <1>1
<1>4. \A n \in 1 .. Len(asked) : asked'[n] = asked[n]
  BY <1>1
<1>5. DOMAIN asked' = 1 .. Len(asked) + 1
  BY <1>3
<1> QED
  BY <1>2, <1>3, <1>4, <1>5

\* Calls stay apart when none is added: a decision may only go once it is old, a
\* new one is of a later day than the calls, a draft is made where there is none.
LEMMA CallsStayApart ==
  ASSUME RoutingTypeOK, CallsApart, today' \in Nat, today <= today',
         DOMAIN asked' = DOMAIN asked,
         \A n \in DOMAIN asked : asked'[n].of = asked[n].of /\ asked'[n].day = asked[n].day,
         \A q \in DOMAIN decisions' :
           \/ q \in DOMAIN decisions /\ decisions'[q].day = decisions[q].day
           \/ \A n \in DOMAIN asked : asked[n].of = q => asked[n].day <= decisions'[q].day,
         \A q \in DOMAIN decisions :
           q \notin DOMAIN decisions' => today' - decisions[q].day > Retention,
         \A q \in Requests : Is(q, "drafted")' =>
           \/ Is(q, "drafted") /\ tasks'[q].draft = tasks[q].draft
           \/ q \notin DOMAIN decisions /\ tasks'[q].draft.day = today
  PROVE  CallsApart'
<1>1. \A n \in DOMAIN asked : asked[n].day \in Nat /\ asked[n].of \in Requests
  BY AskedFacts
<1>2. \A q \in DOMAIN decisions : decisions[q].day \in Nat
  BY DEF RoutingTypeOK, DecisionType
<1>3. \A q \in Requests : Is(q, "drafted") => tasks[q].draft.day \in Nat
  BY TaskFacts DEF Is, HasDraft, DecisionType
<1>4. today \in Nat /\ Retention \in Nat
  BY RoutingAssumption DEF RoutingTypeOK
<1>5. (\A n, m \in DOMAIN asked :
        n < m /\ asked[n].of = asked[m].of => asked[m].day - asked[n].day > Retention)'
  BY DEF CallsApart
<1>6. ASSUME NEW n \in DOMAIN asked'
      PROVE  /\ asked'[n].day <= today'
             /\ IF asked'[n].of \in DOMAIN decisions'
                THEN asked'[n].day <= decisions'[asked'[n].of].day
                ELSE today' - asked'[n].day > Retention
  <2> DEFINE q == asked[n].of
  <2>1. n \in DOMAIN asked /\ asked'[n].of = q /\ asked'[n].day = asked[n].day
        /\ asked[n].day \in Nat /\ asked[n].day <= today
    BY <1>1 DEF CallsApart
  <2>2. IF q \in DOMAIN decisions THEN asked[n].day <= decisions[q].day
        ELSE today - asked[n].day > Retention
    BY <2>1 DEF CallsApart
  <2> HIDE DEF q
  <2>3. CASE q \in DOMAIN decisions'
    <3>1. asked[n].day <= decisions'[q].day
      BY <2>1, <2>2, <2>3 DEF q
    <3> QED
      BY <2>1, <2>3, <3>1, <1>4
  <2>4. CASE q \notin DOMAIN decisions'
    <3>1. today' - asked[n].day > Retention
      BY <2>1, <2>2, <2>4, <1>2, <1>4
    <3> QED
      BY <2>1, <2>4, <3>1, <1>4
  <2> QED
    BY <2>3, <2>4
<1>7. ASSUME NEW r \in Requests, Is(r, "drafted")'
      PROVE  /\ tasks'[r].draft.day <= today'
             /\ \A n \in DOMAIN asked' :
                  asked'[n].of = r => tasks'[r].draft.day - asked'[n].day > Retention
  <2>1. CASE Is(r, "drafted") /\ tasks'[r].draft = tasks[r].draft
    BY <2>1, <1>1, <1>3, <1>4 DEF CallsApart
  <2>2. CASE r \notin DOMAIN decisions /\ tasks'[r].draft.day = today
    <3>1. \A n \in DOMAIN asked : asked[n].of = r => today - asked[n].day > Retention
      BY <2>2 DEF CallsApart
    <3> QED
      BY <2>2, <3>1, <1>4
  <2> QED
    BY <2>1, <2>2, <1>7
<1> QED
  BY <1>5, <1>6, <1>7 DEF CallsApart

\* A call for a draft comes after every call there was for its invocation.
LEMMA CallsAddedApart ==
  ASSUME RoutingTypeOK, CallsApart, today' = today,
         NEW r \in Requests, Is(r, "drafted"), NEW d \in DecisionType, d = tasks[r].draft,
         asked' = Append(asked, [of |-> r, day |-> d.day, cost |-> Reserve]),
         \A q \in DOMAIN decisions' :
           \/ q \in DOMAIN decisions /\ q # r /\ decisions'[q].day = decisions[q].day
           \/ q = r /\ decisions'[q].day = d.day,
         r \in DOMAIN decisions',
         \A q \in DOMAIN decisions :
           q \notin DOMAIN decisions' => today - decisions[q].day > Retention,
         \A q \in Requests : Is(q, "drafted")' =>
           q # r /\ Is(q, "drafted") /\ tasks'[q].draft = tasks[q].draft
  PROVE  CallsApart'
<1> DEFINE N == Len(asked) + 1
<1>1. /\ N \in Nat /\ DOMAIN asked' = DOMAIN asked \cup {N} /\ N \notin DOMAIN asked
      /\ asked'[N] = [of |-> r, day |-> d.day, cost |-> Reserve]
      /\ \A n \in DOMAIN asked : n \in Nat /\ n < N /\ asked'[n] = asked[n]
                                 /\ asked[n].day \in Nat /\ asked[n].of \in Requests
  <2>1. [of |-> r, day |-> d.day, cost |-> Reserve] \in [of : Requests, day : Nat, cost : Nat]
    BY RoutingAssumption DEF DecisionType
  <2> QED
    BY <2>1, AskedFacts, AskedAppended
<1> HIDE DEF N
<1>2. \A q \in DOMAIN decisions : decisions[q].day \in Nat
  BY DEF RoutingTypeOK, DecisionType
<1>3. today \in Nat /\ Retention \in Nat /\ d.day \in Nat
  BY RoutingAssumption DEF RoutingTypeOK, DecisionType
<1>4. /\ d.day <= today
      /\ \A n \in DOMAIN asked : asked[n].of = r => d.day - asked[n].day > Retention
  BY DEF CallsApart
<1>5. ASSUME NEW n \in DOMAIN asked', NEW m \in DOMAIN asked', n < m,
             asked'[n].of = asked'[m].of
      PROVE  asked'[m].day - asked'[n].day > Retention
  <2>1. n \in DOMAIN asked
    BY <1>1, <1>5
  <2>2. CASE m \in DOMAIN asked
    BY <1>1, <1>5, <2>1, <2>2 DEF CallsApart
  <2>3. CASE m = N
    BY <1>1, <1>4, <1>5, <2>1, <2>3
  <2> QED
    BY <1>1, <2>2, <2>3
<1>6. ASSUME NEW n \in DOMAIN asked'
      PROVE  /\ asked'[n].day <= today'
             /\ IF asked'[n].of \in DOMAIN decisions'
                THEN asked'[n].day <= decisions'[asked'[n].of].day
                ELSE today' - asked'[n].day > Retention
  <2>1. CASE n = N
    <3>1. asked'[n].of = r /\ asked'[n].day = d.day
      BY <1>1, <2>1
    <3>2. decisions'[r].day = d.day
      OBVIOUS
    <3> QED
      BY <1>3, <1>4, <3>1, <3>2
  <2>2. CASE n \in DOMAIN asked
    <3> DEFINE q == asked[n].of
    <3>1. asked'[n].of = q /\ asked'[n].day = asked[n].day /\ asked[n].day \in Nat
          /\ asked[n].day <= today
      BY <1>1, <2>2 DEF CallsApart
    <3>2. IF q \in DOMAIN decisions THEN asked[n].day <= decisions[q].day
          ELSE today - asked[n].day > Retention
      BY <2>2 DEF CallsApart
    <3>3. q = r => d.day - asked[n].day > Retention
      BY <1>4, <2>2
    <3> HIDE DEF q
    <3>4. CASE q \in DOMAIN decisions'
      <4>1. asked[n].day <= decisions'[q].day
        BY <1>3, <3>1, <3>2, <3>3, <3>4
      <4> QED
        BY <3>1, <3>4, <4>1
    <3>5. CASE q \notin DOMAIN decisions'
      <4>1. today - asked[n].day > Retention
        BY <1>2, <1>3, <3>1, <3>2, <3>5
      <4> QED
        BY <3>1, <3>5, <4>1
    <3> QED
      BY <3>4, <3>5
  <2> QED
    BY <1>1, <2>1, <2>2
<1>7. ASSUME NEW q \in Requests, Is(q, "drafted")'
      PROVE  /\ tasks'[q].draft.day <= today'
             /\ \A n \in DOMAIN asked' :
                  asked'[n].of = q => tasks'[q].draft.day - asked'[n].day > Retention
  <2>1. q # r /\ Is(q, "drafted") /\ tasks'[q].draft = tasks[q].draft
    BY <1>7
  <2>2. ASSUME NEW n \in DOMAIN asked', asked'[n].of = q
        PROVE  tasks'[q].draft.day - asked'[n].day > Retention
    <3>1. n \in DOMAIN asked /\ asked'[n] = asked[n]
      BY <1>1, <2>1, <2>2
    <3> QED
      BY <2>1, <2>2, <3>1 DEF CallsApart
  <2> QED
    BY <2>1, <2>2 DEF CallsApart
<1> QED
  BY <1>5, <1>6, <1>7 DEF CallsApart

\* Who still waits for the classifier keeps its last call and its decision.
LEMMA ReservedStays ==
  ASSUME Reserved,
         DOMAIN asked \subseteq DOMAIN asked',
         \A q \in Requests : Is(q, "asking")' =>
           /\ Is(q, "asking")
           /\ \A n \in DOMAIN asked : asked[n].of = q => asked'[n] = asked[n]
           /\ \A n \in DOMAIN asked' : asked'[n].of = q => n \in DOMAIN asked /\ asked[n].of = q
           /\ q \in DOMAIN decisions' /\ decisions'[q].pending =>
                /\ q \in DOMAIN decisions /\ decisions[q].pending
                /\ decisions'[q].cost = decisions[q].cost
                /\ decisions'[q].day = decisions[q].day
  PROVE  Reserved'
<1> SUFFICES ASSUME NEW q \in Requests, Is(q, "asking")'
             PROVE  (\E n \in DOMAIN asked :
                       /\ LastCall(q, n) /\ asked[n].cost = Reserve
                       /\ q \in DOMAIN decisions /\ decisions[q].pending =>
                            decisions[q].cost = Reserve /\ decisions[q].day = asked[n].day)'
  BY DEF Reserved
<1>1. PICK n \in DOMAIN asked :
        /\ LastCall(q, n) /\ asked[n].cost = Reserve
        /\ q \in DOMAIN decisions /\ decisions[q].pending =>
             decisions[q].cost = Reserve /\ decisions[q].day = asked[n].day
  BY DEF Reserved
<1>2. n \in DOMAIN asked' /\ asked'[n] = asked[n] /\ LastCall(q, n)'
  BY <1>1 DEF LastCall
<1> QED
  BY <1>1, <1>2

-----------------------------------------------------------------------------
\* The calls: what a day's come to.

\* The calls of a day are a finite set.
LEMMA CallsFacts ==
  ASSUME RoutingTypeOK
  PROVE  \A day : CostsIn(asked, Calls(asked, day)) /\ IsFiniteSet(Calls(asked, day))
<1>1. IsFiniteSet(1 .. Len(asked))
  <2> DEFINE l == Len(asked)
  <2>1. l \in Nat
    BY AskedFacts
  <2> HIDE DEF l
  <2>2. IsFiniteSet(1 .. l)
    BY <2>1, FS_Interval
  <2> QED
    BY <2>2 DEF l
<1> TAKE day
<1>2. Calls(asked, day) \subseteq 1 .. Len(asked)
  BY AskedFacts DEF Calls
<1>3. IsFiniteSet(Calls(asked, day))
  BY <1>1, <1>2, FS_Subset
<1> QED
  BY <1>3, AskedFacts DEF CostsIn, Calls

\* No call costs nothing.
LEMMA NoCost == \A a : CostOf(a, {}) = 0
<1> TAKE a
<1> DEFINE f == [n \in {} |-> 0]
<1>1. IsFiniteSet({}) /\ f \in [{} -> Int]
  BY FS_EmptySet
<1> HIDE DEF f
<1>2. CostOf(a, {}) = RunningSum(f, {})[{}]
  BY <1>1, CostIsSum
<1>3. Adds(RunningSum(f, {}), f, {})
  BY <1>1, RunningExists
<1> QED
  BY <1>2, <1>3 DEF Adds

\* A budget that says the same of the same calls stands.
LEMMA BudgetStays ==
  ASSUME BudgetStands, asked' = asked, budget'.day = budget.day,
         budget'.calls = budget.calls, budget'.cost = budget.cost
  PROVE  BudgetStands'
BY DEF BudgetStands, DayWithin

\* A day without calls.
LEMMA NoCallsYet ==
  ASSUME RoutingTypeOK, BudgetStands, NEW day \in Nat, budget.day < day
  PROVE  Calls(asked, day) = {}
<1> SUFFICES ASSUME NEW n \in DOMAIN asked, asked[n].day = day PROVE FALSE
  BY DEF Calls
<1> QED
  BY AskedFacts DEF BudgetStands, RoutingTypeOK

\* A new day begins with nothing spent.
LEMMA BudgetBegins ==
  ASSUME RoutingTypeOK, BudgetStands, asked' = asked, NEW day \in Nat, budget.day <= day,
         budget' = BudgetOf(day)
  PROVE  BudgetStands'
<1>1. CASE budget.day = day
  BY <1>1, BudgetStays DEF BudgetOf
<1>2. CASE budget.day # day
  <2>1. budget.day \in Nat /\ budget.day < day
    BY <1>2 DEF RoutingTypeOK
  <2>2. budget' = [day |-> day, calls |-> 0, cost |-> 0]
    BY <1>2 DEF BudgetOf
  <2>3. Calls(asked, day) = {}
    BY <2>1, NoCallsYet
  <2>4. Cardinality(Calls(asked, day)) = 0 /\ CostOf(asked, Calls(asked, day)) = 0
    BY <2>3, NoCost, FS_EmptySet
  <2>5. (\A n \in DOMAIN asked : asked[n].day <= budget.day)'
    BY <2>1, <2>2, AskedFacts DEF BudgetStands
  <2>6. (\A d \in {asked[n].day : n \in DOMAIN asked} : DayWithin(d))'
    BY DEF BudgetStands, DayWithin
  <2>7. budget'.day = day /\ budget'.calls = 0 /\ budget'.cost = 0
    BY <2>2
  <2>8. (/\ Cardinality(Calls(asked, budget.day)) <= budget.calls
         /\ CostOf(asked, Calls(asked, budget.day)) <= budget.cost
         /\ budget.cost <= DailyBudget)'
    BY <2>4, <2>7, RoutingAssumption
  <2> QED
    BY <2>5, <2>6, <2>8 DEF BudgetStands
<1> QED
  BY <1>1, <1>2

\* A call is only made within the budget of its day, and reserves the most it can cost.
LEMMA BudgetReserves ==
  ASSUME RoutingTypeOK, BudgetStands, NEW r \in Requests, NEW day \in Nat,
         budget.day <= day, Affordable(day),
         asked' = Append(asked, [of |-> r, day |-> day, cost |-> Reserve]),
         budget'.day = day, budget'.calls = BudgetOf(day).calls + 1,
         budget'.cost = BudgetOf(day).cost + Reserve
  PROVE  BudgetStands'
<1> DEFINE N == Len(asked) + 1
           D == Calls(asked, day)
           calls == BudgetOf(day).calls
           laid == BudgetOf(day).cost
<1>1. /\ N \notin DOMAIN asked /\ DOMAIN asked' = DOMAIN asked \cup {N}
      /\ asked'[N] = [of |-> r, day |-> day, cost |-> Reserve]
      /\ \A n \in DOMAIN asked : asked'[n] = asked[n] /\ asked[n].day \in Nat
  <2>1. [of |-> r, day |-> day, cost |-> Reserve] \in [of : Requests, day : Nat, cost : Nat]
    BY RoutingAssumption
  <2> QED
    BY <2>1, AskedFacts, AskedAppended
<1> HIDE DEF N
<1>2. /\ IsFiniteSet(D) /\ CostsIn(asked, D) /\ Cardinality(D) \in Nat
      /\ CostOf(asked, D) \in Nat
  BY CallsFacts, CostNat, FS_CardinalityType
<1>3. /\ calls \in Nat /\ laid \in Int
      /\ Cardinality(D) <= calls /\ CostOf(asked, D) <= laid
  <2>1. CASE budget.day = day
    BY <2>1 DEF BudgetOf, BudgetStands, RoutingTypeOK
  <2>2. CASE budget.day # day
    <3>1. D = {}
      <4>1. budget.day < day
        BY <2>2 DEF RoutingTypeOK
      <4> QED
        BY <4>1, NoCallsYet
    <3>2. calls = 0 /\ laid = 0
      BY <2>2 DEF BudgetOf
    <3>3. Cardinality(D) = 0 /\ CostOf(asked, D) = 0
      BY <3>1, NoCost, FS_EmptySet
    <3> QED
      BY <3>2, <3>3
  <2> QED
    BY <2>1, <2>2
<1>4. calls < DailyCalls /\ Reserve <= DailyBudget - laid
  BY DEF Affordable
<1>5. DailyCalls \in Nat /\ DailyBudget \in Nat /\ Reserve \in Nat
  BY RoutingAssumption
<1>6. Calls(asked', day) = D \cup {N} /\ N \notin D
  BY <1>1 DEF Calls
<1>7. \A d : d # day => Calls(asked', d) = Calls(asked, d)
  BY <1>1 DEF Calls
<1>8. \A d : CostOf(asked', Calls(asked, d)) = CostOf(asked, Calls(asked, d))
  <2> TAKE d
  <2>1. \A n \in Calls(asked, d) : asked'[n].cost = asked[n].cost
    BY <1>1 DEF Calls
  <2>2. SameCosts(asked, asked', Calls(asked, d))
    BY CostSame
  <2> QED
    BY <2>1, <2>2, CallsFacts DEF SameCosts
<1>9. CostOf(asked', D \cup {N}) = Reserve + CostOf(asked, D)
  <2> DEFINE E == D \cup {N}
  <2>1. CostsIn(asked', E)
    <3>1. IsFiniteSet(E)
      BY <1>2, FS_AddElement
    <3>2. \A n \in D : n \in DOMAIN asked
      BY DEF Calls
    <3>3. \A n \in D : asked'[n].cost \in Nat
      BY <3>2, <1>1, <1>2 DEF CostsIn
    <3>4. asked'[N].cost \in Nat
      BY <1>1, <1>5
    <3> HIDE DEF D
    <3> QED
      BY <3>1, <3>3, <3>4 DEF CostsIn
  <2>2. N \in E /\ E \ {N} = D
    BY <1>6
  <2> HIDE DEF E
  <2>3. CostOf(asked', E) = asked'[N].cost + CostOf(asked', E \ {N})
    <3>1. OneCost(asked', E, N)
      BY CostTakes
    <3> QED
      BY <2>1, <2>2, <3>1 DEF OneCost
  <2>4. asked'[N].cost = Reserve /\ CostOf(asked', D) = CostOf(asked, D)
    BY <1>1, <1>8
  <2>5. CostOf(asked', E) = Reserve + CostOf(asked, D)
    BY <2>2, <2>3, <2>4, Zenon
  <2> QED
    BY <2>5 DEF E
<1>10. Cardinality(D \cup {N}) = Cardinality(D) + 1
  BY <1>2, <1>6, FS_AddElement
<1> HIDE DEF D, calls, laid
<1>11. /\ Cardinality(Calls(asked', day)) <= budget'.calls
       /\ CostOf(asked', Calls(asked', day)) <= budget'.cost
       /\ budget'.cost <= DailyBudget
       /\ Cardinality(Calls(asked', day)) <= DailyCalls
       /\ CostOf(asked', Calls(asked', day)) <= DailyBudget
  <2>1. budget'.calls = calls + 1 /\ budget'.cost = laid + Reserve
    BY DEF calls, laid
  <2> QED
    <3>1. Cardinality(Calls(asked', day)) = Cardinality(D) + 1
      BY <1>6, <1>10, Zenon
    <3>2. CostOf(asked', Calls(asked', day)) = Reserve + CostOf(asked, D)
      BY <1>6, <1>9, Zenon
    <3> QED
      BY <2>1, <3>1, <3>2, <1>2, <1>3, <1>4, <1>5
<1>12. (\A n \in DOMAIN asked : asked[n].day <= budget.day)'
  <2>1. budget.day \in Nat
    BY DEF RoutingTypeOK
  <2> QED
    BY <2>1, <1>1 DEF BudgetStands
<1>13. ASSUME NEW n \in DOMAIN asked'
       PROVE  DayWithin(asked[n].day)'
  <2>1. CASE asked'[n].day = day
    BY <2>1, <1>11 DEF DayWithin
  <2>2. CASE asked'[n].day # day
    <3> DEFINE d == asked[n].day
    <3>1. n \in DOMAIN asked /\ asked'[n].day = d /\ d # day
      BY <2>2, <1>1
    <3>2. DayWithin(d)
      BY <3>1 DEF BudgetStands
    <3> HIDE DEF d
    <3>3. Calls(asked', d) = Calls(asked, d)
      BY <3>1, <1>7
    <3>4. CostOf(asked', Calls(asked', d)) = CostOf(asked, Calls(asked, d))
      BY <3>3, <1>8
    <3> QED
      BY <3>1, <3>2, <3>3, <3>4 DEF DayWithin
  <2> QED
    BY <2>1, <2>2
<1> QED
  BY <1>11, <1>12, <1>13 DEF BudgetStands

\* A result lowers the cost of its call to what it is, and the budget of its day by no
\* more.
LEMMA BudgetSettles ==
  ASSUME RoutingTypeOK, BudgetStands, NEW n \in DOMAIN asked, asked[n].cost = Reserve,
         NEW cost \in 0 .. Reserve, NEW final \in cost .. Reserve,
         asked' = [asked EXCEPT ![n].cost = cost],
         budget'.day = budget.day, budget'.calls = budget.calls,
         \/ budget'.cost = budget.cost
         \/ asked[n].day = budget.day /\ budget'.cost = budget.cost - Reserve + final
  PROVE  BudgetStands'
<1>1. Reserve \in Nat /\ cost \in Nat /\ final \in Nat /\ cost <= Reserve
      /\ cost <= final /\ final <= Reserve
  BY RoutingAssumption
<1>2. /\ DOMAIN asked' = DOMAIN asked /\ asked'[n].cost = cost
      /\ \A m \in DOMAIN asked : /\ asked'[m].day = asked[m].day
                                 /\ m # n => asked'[m] = asked[m]
  BY AskedFacts
<1>3. \A d : Calls(asked', d) = Calls(asked, d)
  BY <1>2 DEF Calls
<1>4. ASSUME NEW d
      PROVE  /\ CostOf(asked, Calls(asked, d)) \in Nat
             /\ CostOf(asked', Calls(asked, d))
                  = IF asked[n].day = d
                    THEN CostOf(asked, Calls(asked, d)) - Reserve + cost
                    ELSE CostOf(asked, Calls(asked, d))
  <2> DEFINE C == Calls(asked, d)
             R == C \ {n}
  <2>1. CostsIn(asked, C) /\ CostsIn(asked', C) /\ CostsIn(asked, R)
    <3>1. IsFiniteSet(C) /\ IsFiniteSet(R)
      BY CallsFacts, FS_Subset
    <3> QED
      BY <3>1, <1>1, <1>2, AskedFacts DEF CostsIn, Calls
  <2>2. CostOf(asked, C) \in Nat /\ CostOf(asked, R) \in Nat
    BY <2>1, CostNat
  <2>3. CASE asked[n].day # d
    <3>1. \A m \in C : asked'[m].cost = asked[m].cost
      BY <1>2, <2>3 DEF Calls
    <3> HIDE DEF C
    <3>2. CostOf(asked', C) = CostOf(asked, C)
      <4>1. SameCosts(asked, asked', C)
        BY CostSame
      <4> QED
        BY <3>1, <2>1, <4>1 DEF SameCosts
    <3> QED
      BY <3>2, <2>2, <2>3 DEF C
  <2>4. CASE asked[n].day = d
    <3>1. n \in C /\ \A m \in R : asked'[m].cost = asked[m].cost
      BY <1>2, <2>4 DEF Calls
    <3> HIDE DEF C
    <3>2. CostOf(asked', R) = CostOf(asked, R)
      <4> HIDE DEF R
      <4>1. SameCosts(asked, asked', R)
        BY CostSame
      <4> QED
        BY <3>1, <2>1, <4>1 DEF SameCosts
    <3>3. CostOf(asked, C) = asked[n].cost + CostOf(asked, R)
      <4>1. OneCost(asked, C, n)
        BY CostTakes
      <4> QED
        BY <3>1, <2>1, <4>1 DEF OneCost
    <3>4. CostOf(asked', C) = asked'[n].cost + CostOf(asked', R)
      <4>1. OneCost(asked', C, n)
        BY CostTakes
      <4> QED
        BY <3>1, <2>1, <4>1 DEF OneCost
    <3> HIDE DEF R
    <3>5. CostOf(asked', C) = CostOf(asked, C) - Reserve + cost
      BY <3>2, <3>3, <3>4, <2>2, <1>1, <1>2
    <3> QED
      BY <3>5, <2>2, <2>4 DEF C
  <2> QED
    BY <2>3, <2>4
<1>5. \A d : CostOf(asked', Calls(asked', d)) \in Int
             /\ CostOf(asked', Calls(asked', d)) <= CostOf(asked, Calls(asked, d))
  <2> TAKE d
  <2>1. Calls(asked', d) = Calls(asked, d)
    BY <1>3
  <2>2. CostOf(asked', Calls(asked', d)) = CostOf(asked', Calls(asked, d))
    BY <2>1, Zenon
  <2>3. /\ CostOf(asked, Calls(asked, d)) \in Nat
        /\ CostOf(asked', Calls(asked, d))
             = IF asked[n].day = d
               THEN CostOf(asked, Calls(asked, d)) - Reserve + cost
               ELSE CostOf(asked, Calls(asked, d))
    BY <1>4
  <2> QED
    BY <2>2, <2>3, <1>1
<1>6. (\A m \in DOMAIN asked : asked[m].day <= budget.day)'
  BY <1>2 DEF BudgetStands
<1>7. ASSUME NEW m \in DOMAIN asked'
      PROVE  DayWithin(asked[m].day)'
  <2> DEFINE d == asked[m].day
  <2>1. asked'[m].day = d /\ DayWithin(d)
    BY <1>2 DEF BudgetStands
  <2>2. CostOf(asked, Calls(asked, d)) \in Nat /\ DailyBudget \in Nat
    BY <1>4, RoutingAssumption
  <2>3. Calls(asked', d) = Calls(asked, d)
    BY <1>3
  <2>4. CostOf(asked', Calls(asked', d)) \in Int
        /\ CostOf(asked', Calls(asked', d)) <= CostOf(asked, Calls(asked, d))
    BY <1>5
  <2> HIDE DEF d
  <2> QED
    BY <2>1, <2>2, <2>3, <2>4 DEF DayWithin
<1>8. (/\ Cardinality(Calls(asked, budget.day)) <= budget.calls
       /\ CostOf(asked, Calls(asked, budget.day)) <= budget.cost
       /\ budget.cost <= DailyBudget)'
  <2> DEFINE d == budget.day
  <2>1. /\ Cardinality(Calls(asked, d)) <= budget.calls
        /\ CostOf(asked, Calls(asked, d)) <= budget.cost
        /\ budget.cost <= DailyBudget /\ budget.cost \in Int /\ DailyBudget \in Nat
    BY RoutingAssumption DEF BudgetStands, RoutingTypeOK
  <2>2. Calls(asked', d) = Calls(asked, d) /\ CostOf(asked, Calls(asked, d)) \in Nat
    BY <1>3, <1>4
  <2>3. budget'.day = d
    OBVIOUS
  <2>4. CASE budget'.cost = budget.cost
    <3>1. CostOf(asked', Calls(asked', d)) \in Int
          /\ CostOf(asked', Calls(asked', d)) <= CostOf(asked, Calls(asked, d))
      BY <1>5
    <3> HIDE DEF d
    <3> QED
      BY <2>1, <2>2, <2>3, <2>4, <3>1
  <2>5. CASE asked[n].day = budget.day /\ budget'.cost = budget.cost - Reserve + final
    <3>1. CostOf(asked', Calls(asked, d)) = CostOf(asked, Calls(asked, d)) - Reserve + cost
      BY <1>4, <2>5
    <3>2. budget'.cost = budget.cost - Reserve + final
      BY <2>5
    <3> HIDE DEF d
    <3>3. CostOf(asked', Calls(asked', d)) = CostOf(asked, Calls(asked, d)) - Reserve + cost
      BY <3>1, <2>2
    <3> QED
      BY <2>1, <2>2, <2>3, <3>2, <3>3, <1>1
  <2> QED
    BY <2>4, <2>5
<1> QED
  BY <1>6, <1>7, <1>8 DEF BudgetStands

-----------------------------------------------------------------------------
\* The steps.

\* An attempt finds the decision there is, or drafts one.
LEMMA ConsultKeeps ==
  ASSUME RInv, NEW r \in Requests, Consult(r)
  PROVE  RInv'
<1> USE DEF RInv
<1>1. PICK eligible \in Candidates :
        IF Known(r)
        THEN tasks' = [tasks EXCEPT ![r] =
               [pc |-> "routed", eligible |-> eligible, draft |-> decisions[r]]]
        ELSE \E d \in Drafts(r, eligible) :
               tasks' = [tasks EXCEPT ![r] =
                 [pc |-> "drafted", eligible |-> eligible, draft |-> d]]
  BY DEF Consult
<1>2. UNCHANGED <<decisions, budget, policies, today, asked, served>> /\ eligible \in SUBSET Eligibles
  BY DEF Consult, Eligibles
<1>3. PICK pc \in {"drafted", "routed"}, d \in DecisionType :
        /\ TaskBecomes(r, [pc |-> pc, eligible |-> eligible, draft |-> d])
        /\ ChainStands(d)
        /\ pc = "drafted" => r \notin DOMAIN decisions /\ d.day = today
  <2>1. CASE Known(r)
    <3>1. decisions[r] \in DecisionType /\ ChainStands(decisions[r])
      BY <2>1 DEF Known, RoutingTypeOK, ChainsStand
    <3>2. [pc |-> "routed", eligible |-> eligible, draft |-> decisions[r]] \in TaskType
      BY <1>2, <3>1 DEF TaskType
    <3>3. TaskBecomes(r, [pc |-> "routed", eligible |-> eligible, draft |-> decisions[r]])
      BY <1>1, <2>1, <3>2 DEF TaskBecomes, RoutingTypeOK
    <3> QED
      BY <3>1, <3>3
  <2>2. CASE ~Known(r)
    <3>1. PICK d \in Drafts(r, eligible) :
            tasks' = [tasks EXCEPT ![r] =
              [pc |-> "drafted", eligible |-> eligible, draft |-> d]]
      BY <1>1, <2>2
    <3>2. d \in DecisionType /\ ChainStands(d) /\ d.day = today
      BY <1>2, DraftFacts
    <3>3. [pc |-> "drafted", eligible |-> eligible, draft |-> d] \in TaskType
      BY <1>2, <3>2 DEF TaskType
    <3>4. TaskBecomes(r, [pc |-> "drafted", eligible |-> eligible, draft |-> d])
      BY <3>1, <3>3 DEF TaskBecomes, RoutingTypeOK
    <3> QED
      BY <2>2, <3>2, <3>4 DEF Known
  <2> QED
    BY <2>1, <2>2
<1>4. /\ tasks' \in [Requests -> TaskType]
      /\ tasks'[r].pc = pc /\ tasks'[r].draft = d
      /\ \A q \in Requests : q # r => tasks'[q] = tasks[q]
  BY <1>3 DEF TaskBecomes
<1>5. RoutingTypeOK'
  BY <1>2, <1>4 DEF RoutingTypeOK
<1>6. ChainsStand'
  <2>1. ChainStands(tasks'[r].draft)
    BY <1>3, <1>4, Zenon
  <2>2. \A q \in Requests : q # r /\ HasDraft(q)' =>
          HasDraft(q) /\ tasks'[q].draft = tasks[q].draft
    BY <1>4 DEF HasDraft
  <2> QED
    BY <1>2, <2>1, <2>2, ChainsKept
<1>7. CallsApart'
  <2>1. \A q \in Requests : Is(q, "drafted")' =>
          \/ Is(q, "drafted") /\ tasks'[q].draft = tasks[q].draft
          \/ q \notin DOMAIN decisions /\ tasks'[q].draft.day = today
    BY <1>3, <1>4 DEF Is
  <2> QED
    BY <1>2, <2>1, CallsStayApart DEF RoutingTypeOK
<1>8. Reserved'
  <2>1. \A q \in Requests : Is(q, "asking")' => Is(q, "asking")
    BY <1>4 DEF Is
  <2> QED
    BY <1>2, <2>1, ReservedStays
<1>9. BudgetStands'
  BY <1>2, BudgetStays
<1> QED
  BY <1>5, <1>6, <1>7, <1>8, <1>9

\* An attempt that only moves on, with no decision saved, asked for or dropped.
LEMMA MovesOn ==
  ASSUME RInv, NEW r \in Requests, NEW t, TaskBecomes(r, t),
         t.pc \notin {"drafted", "asking"},
         t.pc = "routed" => ChainStands(t.draft),
         UNCHANGED <<decisions, budget, policies, today, asked, served>>
  PROVE  RInv'
<1> USE DEF RInv
<1>1. /\ tasks' \in [Requests -> TaskType] /\ tasks'[r] = t
      /\ \A q \in Requests : q # r => tasks'[q] = tasks[q]
  BY DEF TaskBecomes
<1>2. RoutingTypeOK'
  BY <1>1 DEF RoutingTypeOK
<1>3. ChainsStand'
  <2>1. HasDraft(r)' => tasks'[r].pc = "routed"
    BY <1>1 DEF HasDraft
  <2>2. HasDraft(r)' => ChainStands(tasks'[r].draft)
    BY <1>1, <2>1, Zenon
  <2>3. \A q \in Requests : q # r /\ HasDraft(q)' =>
          HasDraft(q) /\ tasks'[q].draft = tasks[q].draft
    BY <1>1 DEF HasDraft
  <2> QED
    BY <2>2, <2>3, ChainsKept
<1>4. CallsApart'
  <2>1. \A q \in Requests : Is(q, "drafted")' =>
          Is(q, "drafted") /\ tasks'[q].draft = tasks[q].draft
    BY <1>1 DEF Is
  <2> QED
    BY <2>1, CallsStayApart DEF RoutingTypeOK
<1>5. Reserved'
  <2>1. \A q \in Requests : Is(q, "asking")' => Is(q, "asking")
    BY <1>1 DEF Is
  <2> QED
    BY <2>1, ReservedStays
<1>6. BudgetStands'
  BY BudgetStays
<1> QED
  BY <1>2, <1>3, <1>4, <1>5, <1>6

\* A decision without its pending call.
LEMMA FinalFacts ==
  ASSUME RoutingTypeOK, NEW d \in DecisionType, ChainStands(d)
  PROVE  /\ [d EXCEPT !.pending = FALSE] \in DecisionType
         /\ ChainStands([d EXCEPT !.pending = FALSE])
         /\ [d EXCEPT !.pending = FALSE].day = d.day
         /\ ~[d EXCEPT !.pending = FALSE].pending
BY DEF DecisionType, ChainStands

\* A decision that reserves its call.
LEMMA ReservingFacts ==
  ASSUME RoutingTypeOK, NEW d \in DecisionType, ChainStands(d)
  PROVE  /\ [d EXCEPT !.cost = Reserve] \in DecisionType
         /\ ChainStands([d EXCEPT !.cost = Reserve])
         /\ [d EXCEPT !.cost = Reserve].day = d.day
         /\ [d EXCEPT !.cost = Reserve].cost = Reserve
BY RoutingAssumption DEF DecisionType, ChainStands

\* The draft is saved, with a call reserved if it asks for one and can afford it.
LEMMA BeginKeeps ==
  ASSUME RInv, NEW r \in Requests, BeginRoutingDecision(r)
  PROVE  RInv'
<1> USE DEF RInv
<1> DEFINE d == tasks[r].draft
           final == [d EXCEPT !.pending = FALSE]
<1>1. /\ HasDraft(r) /\ d \in DecisionType /\ ChainStands(d) /\ d.day \in Nat
      /\ d.day <= today /\ Is(r, "drafted")
      /\ \A n \in DOMAIN asked : asked[n].of = r => d.day - asked[n].day > Retention
  <2>1. HasDraft(r) /\ Is(r, "drafted")
    BY DEF BeginRoutingDecision, HasDraft, Is
  <2> QED
    BY <2>1, TaskFacts DEF ChainsStand, CallsApart, DecisionType
<1>2. UNCHANGED <<policies, today, served>>
  BY DEF BeginRoutingDecision
<1>3. final \in DecisionType /\ ChainStands(final) /\ final.day = d.day /\ ~final.pending
  BY <1>1, FinalFacts
<1>4. ASSUME NEW e \in DecisionType, ChainStands(e), Routed(r, e),
             UNCHANGED <<decisions, budget, asked>>
      PROVE  RInv'
  <2> DEFINE t == [pc |-> "routed", eligible |-> tasks[r].eligible, draft |-> e]
  <2>1. TaskBecomes(r, t)
    BY <1>1, <1>4, RoutedFacts
  <2>2. t.pc = "routed" /\ t.draft = e
    OBVIOUS
  <2> HIDE DEF t
  <2> QED
    BY <1>2, <1>4, <2>1, <2>2, MovesOn
<1>5. ASSUME NEW e \in DecisionType, ChainStands(e), e.day = d.day,
             decisions' = WithDecision(r, e), tasks' \in [Requests -> TaskType],
             \A q \in Requests : q # r => tasks'[q] = tasks[q],
             ~Is(r, "drafted")', HasDraft(r)' => ChainStands(tasks'[r].draft)
      PROVE  /\ decisions' \in [DOMAIN decisions' -> DecisionType]
             /\ DOMAIN decisions' \subseteq Requests
             /\ ChainsStand' /\ r \in DOMAIN decisions' /\ decisions'[r] = e
             /\ \A q \in DOMAIN decisions' : q # r =>
                  q \in DOMAIN decisions /\ decisions'[q] = decisions[q]
             /\ \A q \in DOMAIN decisions :
                  q \notin DOMAIN decisions' => today - decisions[q].day > Retention
  <2>1. /\ DOMAIN decisions' = DOMAIN Retained(d.day) \cup {r} /\ decisions'[r] = e
        /\ \A q \in DOMAIN Retained(d.day) : q # r => decisions'[q] = decisions[q]
        /\ decisions' \in [DOMAIN Retained(d.day) \cup {r} -> DecisionType]
    <3>1. Retained(e.day) = Retained(d.day)
      BY <1>5, Zenon
    <3>2. /\ DOMAIN WithDecision(r, e) = DOMAIN Retained(e.day) \cup {r}
          /\ WithDecision(r, e)[r] = e
          /\ \A q \in DOMAIN Retained(e.day) : q # r => WithDecision(r, e)[q] = decisions[q]
          /\ WithDecision(r, e) \in [DOMAIN Retained(e.day) \cup {r} -> DecisionType]
      BY <1>5, WithDecisionFacts
    <3> HIDE DEF d
    <3> QED
      BY <1>5, <3>1, <3>2, Zenon
  <2>2. /\ DOMAIN Retained(d.day) \subseteq DOMAIN decisions
        /\ \A q \in DOMAIN decisions :
             q \notin DOMAIN Retained(d.day) => d.day - decisions[q].day > Retention
    BY <1>1, RetainedFacts
  <2>3. ASSUME NEW q \in DOMAIN decisions, q \notin DOMAIN decisions'
        PROVE  today - decisions[q].day > Retention
    <3>1. d.day - decisions[q].day > Retention
      BY <2>1, <2>2, <2>3
    <3>2. decisions[q].day \in Nat /\ today \in Nat /\ Retention \in Nat
      BY RoutingAssumption DEF RoutingTypeOK, DecisionType
    <3> HIDE DEF d
    <3> QED
      BY <1>1, <3>1, <3>2
  <2>4. \A q \in DOMAIN decisions' : q # r =>
          q \in DOMAIN decisions /\ decisions'[q] = decisions[q]
    BY <2>1, <2>2
  <2>5. ChainsStand'
    <3>1. ChainStands(decisions'[r])
      BY <1>5, <2>1, Zenon
    <3>2. \A q \in Requests : q # r /\ HasDraft(q)' =>
            HasDraft(q) /\ tasks'[q].draft = tasks[q].draft
      BY <1>5 DEF HasDraft
    <3> QED
      BY <1>2, <1>5, <2>4, <3>1, <3>2, ChainsKept
  <2>6. DOMAIN decisions' \subseteq Requests
    BY <2>1, <2>2 DEF RoutingTypeOK
  <2> QED
    BY <2>1, <2>3, <2>4, <2>5, <2>6
<1>6. ASSUME decisions' = WithDecision(r, final), Routed(r, final), UNCHANGED asked,
             budget' = IF d.pending THEN BudgetOf(d.day) ELSE budget,
             d.pending => budget.day <= d.day
      PROVE  RInv'
  <2>1. TaskBecomes(r, [pc |-> "routed", eligible |-> tasks[r].eligible, draft |-> final])
    BY <1>1, <1>3, <1>6, RoutedFacts
  <2>2. /\ tasks' \in [Requests -> TaskType]
        /\ tasks'[r].pc = "routed" /\ tasks'[r].draft = final
        /\ \A q \in Requests : q # r => tasks'[q] = tasks[q]
    BY <2>1 DEF TaskBecomes
  <2>3. ~Is(r, "drafted")' /\ ~Is(r, "asking")'
    BY <2>2 DEF Is
  <2> HIDE DEF final
  <2>4. /\ decisions' \in [DOMAIN decisions' -> DecisionType]
        /\ DOMAIN decisions' \subseteq Requests
        /\ ChainsStand' /\ r \in DOMAIN decisions' /\ decisions'[r] = final
        /\ \A q \in DOMAIN decisions' : q # r =>
             q \in DOMAIN decisions /\ decisions'[q] = decisions[q]
        /\ \A q \in DOMAIN decisions :
             q \notin DOMAIN decisions' => today - decisions[q].day > Retention
    BY <1>3, <1>5, <1>6, <2>2, <2>3
  <2>5. budget' \in [day : Nat, calls : Nat, cost : Int]
    <3> HIDE DEF d
    <3> QED BY <1>1, <1>6 DEF BudgetOf, RoutingTypeOK
  <2>6. RoutingTypeOK'
    BY <1>2, <1>6, <2>2, <2>4, <2>5 DEF RoutingTypeOK
  <2>7. CallsApart'
    <3>1. \A n \in DOMAIN asked : asked[n].of = r => asked[n].day <= decisions'[r].day
      <4>1. Retention \in Nat /\ \A n \in DOMAIN asked : asked[n].day \in Nat
        BY AskedFacts, RoutingAssumption
      <4>2. decisions'[r].day = d.day
        BY <1>3, <2>4
      <4> HIDE DEF d
      <4> QED
        BY <1>1, <4>1, <4>2
    <3>2. \A q \in Requests : Is(q, "drafted")' =>
            Is(q, "drafted") /\ tasks'[q].draft = tasks[q].draft
      BY <2>2, <2>3 DEF Is
    <3>3. \A q \in DOMAIN decisions' :
            \/ q \in DOMAIN decisions /\ decisions'[q].day = decisions[q].day
            \/ \A n \in DOMAIN asked : asked[n].of = q => asked[n].day <= decisions'[q].day
      BY <2>4, <3>1
    <3> QED
      BY <1>2, <1>6, <2>4, <3>2, <3>3, CallsStayApart DEF RoutingTypeOK
  <2>8. Reserved'
    <3>1. \A q \in Requests : Is(q, "asking")' => q # r /\ Is(q, "asking")
      BY <2>2, <2>3 DEF Is
    <3> QED
      BY <1>6, <2>4, <3>1, ReservedStays
  <2>9. BudgetStands'
    <3>1. CASE d.pending
      BY <1>1, <1>6, <3>1, BudgetBegins
    <3>2. CASE ~d.pending
      BY <1>6, <3>2, BudgetStays
    <3> QED
      BY <3>1, <3>2
  <2> QED
    BY <2>4, <2>6, <2>7, <2>8, <2>9
<1>7. ASSUME decisions' = WithDecision(r, [d EXCEPT !.cost = Reserve]), CallClassifier(r),
             budget' = [BudgetOf(d.day) EXCEPT !.calls = @ + 1, !.cost = @ + Reserve],
             Affordable(d.day), d.pending, budget.day <= d.day
      PROVE  RInv'
  <2> DEFINE e == [d EXCEPT !.cost = Reserve]
  <2>1. e \in DecisionType /\ ChainStands(e) /\ e.day = d.day /\ e.cost = Reserve
    BY <1>1, ReservingFacts
  <2>2. /\ tasks' \in [Requests -> TaskType]
        /\ tasks'[r].pc = "asking" /\ tasks'[r].draft = d
        /\ \A q \in Requests : q # r => tasks'[q] = tasks[q]
    <3>1. tasks' = [tasks EXCEPT ![r].pc = "asking"] /\ tasks \in [Requests -> TaskType]
      BY <1>7 DEF CallClassifier, RoutingTypeOK
    <3>2. [tasks[r] EXCEPT !.pc = "asking"]
          = [pc |-> "asking", eligible |-> tasks[r].eligible, draft |-> d]
      <4> DEFINE u == tasks[r]
      <4>1. u = [pc |-> u.pc, eligible |-> u.eligible, draft |-> u.draft]
        BY <1>1, TaskFacts
      <4>2. d = u.draft /\ tasks[r].eligible = u.eligible
        OBVIOUS
      <4> HIDE DEF u, d
      <4>3. [[pc |-> u.pc, eligible |-> u.eligible, draft |-> u.draft] EXCEPT !.pc = "asking"]
            = [pc |-> "asking", eligible |-> u.eligible, draft |-> u.draft]
        OBVIOUS
      <4>4. [u EXCEPT !.pc = "asking"]
            = [pc |-> "asking", eligible |-> u.eligible, draft |-> u.draft]
        BY <4>1, <4>3, Zenon
      <4> QED
        BY <4>2, <4>4 DEF u
    <3>3. [pc |-> "asking", eligible |-> tasks[r].eligible, draft |-> d] \in TaskType
      BY <1>1, TaskFacts DEF TaskType
    <3> HIDE DEF d
    <3> QED
      BY <3>1, <3>2, <3>3
  <2>3. ~Is(r, "drafted")' /\ ChainStands(tasks'[r].draft)
    BY <1>1, <2>2 DEF Is
  <2>4. asked' = Append(asked, [of |-> r, day |-> d.day, cost |-> Reserve])
    BY <1>7 DEF CallClassifier
  <2>5. decisions' = WithDecision(r, e)
    BY <1>7
  <2> HIDE DEF e
  <2>6. /\ decisions' \in [DOMAIN decisions' -> DecisionType]
        /\ DOMAIN decisions' \subseteq Requests
        /\ ChainsStand' /\ r \in DOMAIN decisions' /\ decisions'[r] = e
        /\ \A q \in DOMAIN decisions' : q # r =>
             q \in DOMAIN decisions /\ decisions'[q] = decisions[q]
        /\ \A q \in DOMAIN decisions :
             q \notin DOMAIN decisions' => today - decisions[q].day > Retention
    BY <1>5, <2>1, <2>2, <2>3, <2>5
  <2>7. /\ budget' \in [day : Nat, calls : Nat, cost : Int] /\ budget'.day = d.day
        /\ budget'.calls = BudgetOf(d.day).calls + 1
        /\ budget'.cost = BudgetOf(d.day).cost + Reserve
    <3>1. BudgetOf(d.day) \in [day : Nat, calls : Nat, cost : Int] /\ BudgetOf(d.day).day = d.day
      BY <1>1 DEF BudgetOf, RoutingTypeOK
    <3> DEFINE b == BudgetOf(d.day)
    <3>2. budget' = [b EXCEPT !.calls = @ + 1, !.cost = @ + Reserve]
      BY <1>7
    <3>3. b \in [day : Nat, calls : Nat, cost : Int] /\ b.day = d.day
      BY <3>1
    <3> HIDE DEF b
    <3>4. /\ budget' \in [day : Nat, calls : Nat, cost : Int] /\ budget'.day = b.day
          /\ budget'.calls = b.calls + 1 /\ budget'.cost = b.cost + Reserve
      <4>1. b = [day |-> b.day, calls |-> b.calls, cost |-> b.cost]
            /\ b.day \in Nat /\ b.calls \in Nat /\ b.cost \in Int
        BY <3>3
      <4>2. budget' = [day |-> b.day, calls |-> b.calls + 1, cost |-> b.cost + Reserve]
        BY <3>2, <4>1
      <4>3. Reserve \in Nat
        BY RoutingAssumption
      <4> QED
        BY <4>1, <4>2, <4>3
    <3> QED
      BY <3>3, <3>4 DEF b
  <2>8. LET N == Len(asked) + 1 IN
        /\ N \in Nat /\ N \notin DOMAIN asked
        /\ DOMAIN asked' = DOMAIN asked \cup {N}
        /\ asked'[N] = [of |-> r, day |-> d.day, cost |-> Reserve]
        /\ \A n \in DOMAIN asked : n < N /\ asked'[n] = asked[n]
        /\ asked' \in Seq([of : Requests, day : Nat, cost : Nat])
    <3>1. [of |-> r, day |-> d.day, cost |-> Reserve] \in [of : Requests, day : Nat, cost : Nat]
      BY <1>1, RoutingAssumption
    <3> HIDE DEF d
    <3> QED
      BY <2>4, <3>1, AskedAppended
  <2>9. RoutingTypeOK'
    BY <1>2, <2>2, <2>6, <2>7, <2>8 DEF RoutingTypeOK
  <2>10. CallsApart'
    <3>1. \A q \in Requests : Is(q, "drafted")' =>
            q # r /\ Is(q, "drafted") /\ tasks'[q].draft = tasks[q].draft
      BY <2>2, <2>3 DEF Is
    <3>2. \A q \in DOMAIN decisions' :
            \/ q \in DOMAIN decisions /\ q # r /\ decisions'[q].day = decisions[q].day
            \/ q = r /\ decisions'[q].day = d.day
      BY <2>1, <2>6
    <3> QED
      BY <1>1, <1>2, <2>4, <2>6, <3>1, <3>2, CallsAddedApart
  <2>11. Reserved'
    <3>1. ASSUME NEW q \in Requests, Is(q, "asking")'
          PROVE (\E n \in DOMAIN asked :
                   /\ LastCall(q, n) /\ asked[n].cost = Reserve
                   /\ q \in DOMAIN decisions /\ decisions[q].pending =>
                        decisions[q].cost = Reserve /\ decisions[q].day = asked[n].day)'
      <4>1. CASE q = r
        <5> DEFINE N == Len(asked) + 1
        <5>1. /\ N \in DOMAIN asked' /\ asked'[N].of = r /\ asked'[N].cost = Reserve
              /\ asked'[N].day = d.day
          BY <2>8
        <5>2. \A m \in DOMAIN asked' : m <= N
          BY <2>8, AskedFacts
        <5>3. decisions'[r].cost = Reserve /\ decisions'[r].day = d.day
          BY <2>1, <2>6
        <5> HIDE DEF N
        <5> QED
          BY <4>1, <5>1, <5>2, <5>3 DEF LastCall
      <4>2. CASE q # r
        <5>1. Is(q, "asking")
          BY <2>2, <3>1, <4>2 DEF Is
        <5>2. PICK n \in DOMAIN asked :
                /\ LastCall(q, n) /\ asked[n].cost = Reserve
                /\ q \in DOMAIN decisions /\ decisions[q].pending =>
                     decisions[q].cost = Reserve /\ decisions[q].day = asked[n].day
          BY <5>1 DEF Reserved
        <5>3. n \in DOMAIN asked' /\ asked'[n] = asked[n]
          BY <2>8
        <5>4. \A m \in DOMAIN asked' : asked'[m].of = q =>
                m \in DOMAIN asked /\ asked[m].of = q
          BY <2>8, <4>2
        <5>5. LastCall(q, n)'
          BY <5>2, <5>3, <5>4 DEF LastCall
        <5> QED
          BY <2>6, <4>2, <5>2, <5>3, <5>5
      <4> QED
        BY <4>1, <4>2
    <3> QED
      BY <3>1 DEF Reserved
  <2>12. BudgetStands'
    BY <1>1, <1>7, <2>4, <2>7, BudgetReserves
  <2> QED
    BY <2>6, <2>9, <2>10, <2>11, <2>12
<1>8. CASE Known(r) /\ r \in DOMAIN Retained(d.day)
  <2>1. decisions[r] \in DecisionType /\ ChainStands(decisions[r])
    BY <1>8 DEF Known, RoutingTypeOK, ChainsStand
  <2>2. Routed(r, decisions[r]) /\ UNCHANGED <<decisions, budget, asked>>
    BY <1>8 DEF BeginRoutingDecision
  <2> QED
    BY <1>4, <2>1, <2>2
<1>9. CASE ~(Known(r) /\ r \in DOMAIN Retained(d.day))
  <2>1. d.pending => budget.day <= d.day
    BY <1>9 DEF BeginRoutingDecision
  <2>2. \/ Routed(r, final) /\ UNCHANGED <<decisions, budget, asked>>
        \/ /\ decisions' = WithDecision(r, [d EXCEPT !.cost = Reserve]) /\ CallClassifier(r)
           /\ budget' = [BudgetOf(d.day) EXCEPT !.calls = @ + 1, !.cost = @ + Reserve]
           /\ Affordable(d.day) /\ d.pending
        \/ /\ decisions' = WithDecision(r, final) /\ Routed(r, final) /\ UNCHANGED asked
           /\ budget' = IF d.pending THEN BudgetOf(d.day) ELSE budget
    BY <1>9 DEF BeginRoutingDecision
  <2> HIDE DEF final, d
  <2> QED
    BY <1>3, <1>4, <1>6, <1>7, <2>1, <2>2
<1> QED
  BY <1>8, <1>9

\* A result concludes the decision, if it still waits for one, and settles its call.
LEMMA FinishKeeps ==
  ASSUME RInv, NEW r \in Requests, Is(r, "asking"),
         NEW complexity \in {"simple", "complex", "unknown"},
         NEW told \in 0 .. Reserve, NEW cost \in 0 .. told,
         FinishRoutingDecision(r, complexity, told),
         NEW n \in DOMAIN asked, LastCall(r, n), asked' = [asked EXCEPT ![n].cost = cost],
         UNCHANGED <<policies, today, served>>
  PROVE  RInv'
<1> USE DEF RInv
<1>1. /\ asked[n].cost = Reserve /\ asked[n].of = r
      /\ r \in DOMAIN decisions /\ decisions[r].pending =>
           decisions[r].cost = Reserve /\ decisions[r].day = asked[n].day
  <2>1. PICK m \in DOMAIN asked :
          /\ LastCall(r, m) /\ asked[m].cost = Reserve
          /\ r \in DOMAIN decisions /\ decisions[r].pending =>
               decisions[r].cost = Reserve /\ decisions[r].day = asked[m].day
    BY DEF Reserved
  <2>2. m <= n /\ n <= m /\ m \in Nat /\ n \in Nat
    BY <2>1, AskedFacts DEF LastCall
  <2>3. m = n
    BY <2>2
  <2> QED
    BY <2>1, <2>3 DEF LastCall
<1>2. /\ Reserve \in Nat /\ told \in Nat /\ cost \in Nat /\ told <= Reserve /\ cost <= told
      /\ cost \in 0 .. Reserve
  BY RoutingAssumption
<1>3. HasDraft(r) /\ r \in DOMAIN decisions
  BY DEF HasDraft, Is, FinishRoutingDecision
<1>4. decisions[r] \in DecisionType /\ ChainStands(decisions[r])
  BY <1>3 DEF RoutingTypeOK, ChainsStand
<1> DEFINE final == Concluded(r, decisions[r], complexity, told)
           d == IF decisions[r].pending THEN final ELSE decisions[r]
<1>5. decisions[r].pending => /\ final \in DecisionType /\ ChainStands(final) /\ ~final.pending
                              /\ final.day = decisions[r].day
                              /\ final.cost = IF complexity = "unknown" THEN decisions[r].cost
                                              ELSE told
  BY <1>2, <1>4, ConcludedFacts
<1>6. /\ Routed(r, d)
      /\ decisions' = [decisions EXCEPT ![r] = d]
      /\ decisions[r].pending => budget' = FinalBudget(decisions[r], final.cost)
      /\ ~decisions[r].pending => budget' = budget
  <2>1. CASE decisions[r].pending
    BY <2>1, Zenon DEF FinishRoutingDecision
  <2>2. CASE ~decisions[r].pending
    <3>1. Routed(r, decisions[r]) /\ UNCHANGED <<decisions, budget>>
      BY <2>2 DEF FinishRoutingDecision
    <3>2. decisions = [decisions EXCEPT ![r] = decisions[r]]
      BY DEF RoutingTypeOK
    <3> QED
      BY <2>2, <3>1, <3>2, Zenon
  <2> QED
    BY <2>1, <2>2
<1> HIDE DEF final
<1>7. d \in DecisionType /\ ChainStands(d) /\ ~d.pending /\ d.day = decisions[r].day
  <2>1. CASE decisions[r].pending
    <3>1. d = final
      BY <2>1
    <3> QED
      BY <2>1, <3>1, <1>5, Zenon
  <2>2. CASE ~decisions[r].pending
    <3>1. d = decisions[r]
      BY <2>2
    <3> QED
      BY <2>2, <3>1, <1>4, Zenon
  <2> QED
    BY <2>1, <2>2
<1> HIDE DEF d
<1>8. TaskBecomes(r, [pc |-> "routed", eligible |-> tasks[r].eligible, draft |-> d])
  BY <1>3, <1>6, <1>7, RoutedFacts
<1>9. /\ tasks' \in [Requests -> TaskType]
      /\ tasks'[r].pc = "routed" /\ tasks'[r].draft = d
      /\ \A q \in Requests : q # r => tasks'[q] = tasks[q]
  BY <1>8 DEF TaskBecomes
<1>10. /\ DOMAIN decisions' = DOMAIN decisions /\ decisions'[r] = d
       /\ \A q \in DOMAIN decisions : q # r => decisions'[q] = decisions[q]
       /\ decisions' \in [DOMAIN decisions' -> DecisionType]
  BY <1>3, <1>6, <1>7 DEF RoutingTypeOK
<1>11. /\ DOMAIN asked' = DOMAIN asked
       /\ \A m \in DOMAIN asked : /\ asked'[m].day = asked[m].day /\ asked'[m].of = asked[m].of
                                  /\ m # n => asked'[m] = asked[m]
       /\ asked' \in Seq([of : Requests, day : Nat, cost : Nat])
  <2>1. asked \in Seq([of : Requests, day : Nat, cost : Nat])
    BY DEF RoutingTypeOK
  <2>2. [asked[n] EXCEPT !.cost = cost] \in [of : Requests, day : Nat, cost : Nat]
    BY <1>2, AskedFacts
  <2>3. asked' = [asked EXCEPT ![n] = [asked[n] EXCEPT !.cost = cost]]
    OBVIOUS
  <2> DEFINE e == [asked[n] EXCEPT !.cost = cost]
  <2>4. e.day = asked[n].day /\ e.of = asked[n].of
    BY AskedFacts
  <2> HIDE DEF e
  <2>5. asked' \in Seq([of : Requests, day : Nat, cost : Nat])
    BY <2>1, <2>2, <2>3
  <2> QED
    BY <2>1, <2>3, <2>4, <2>5 DEF e
<1>12. /\ budget'.day = budget.day /\ budget'.calls = budget.calls
       /\ budget' \in [day : Nat, calls : Nat, cost : Int]
       /\ \/ budget'.cost = budget.cost
          \/ \E final_cost \in cost .. Reserve :
               /\ asked[n].day = budget.day
               /\ budget'.cost = budget.cost - Reserve + final_cost
  <2>1. budget \in [day : Nat, calls : Nat, cost : Int]
    BY DEF RoutingTypeOK
  <2>2. CASE decisions[r].pending /\ budget.day = decisions[r].day
    <3>1. /\ final.cost \in cost .. Reserve /\ asked[n].day = budget.day
          /\ decisions[r].cost = Reserve
      BY <1>1, <1>2, <1>3, <1>5, <2>2
    <3> DEFINE p == final.cost
    <3>2. budget' = [budget EXCEPT !.cost = @ - Reserve + p]
      BY <1>6, <2>2, <3>1 DEF FinalBudget
    <3> HIDE DEF p
    <3>3. p \in Int
      BY <3>1, <1>2 DEF p
    <3>4. /\ budget'.day = budget.day /\ budget'.calls = budget.calls
          /\ budget'.cost = budget.cost - Reserve + p
          /\ budget' \in [day : Nat, calls : Nat, cost : Int]
      BY <1>2, <2>1, <3>2, <3>3
    <3> QED
      BY <3>1, <3>4 DEF p
  <2>3. CASE ~(decisions[r].pending /\ budget.day = decisions[r].day)
    <3>1. budget' = budget
      BY <1>6, <2>3 DEF FinalBudget
    <3> QED
      BY <2>1, <3>1
  <2> QED
    BY <2>2, <2>3
<1>13. RoutingTypeOK'
  BY <1>9, <1>10, <1>11, <1>12 DEF RoutingTypeOK
<1>14. ChainsStand'
  <2>1. ChainStands(tasks'[r].draft) /\ ChainStands(decisions'[r])
    BY <1>7, <1>9, <1>10, Zenon
  <2>2. \A q \in Requests : q # r /\ HasDraft(q)' =>
          HasDraft(q) /\ tasks'[q].draft = tasks[q].draft
    BY <1>9 DEF HasDraft
  <2>3. \A q \in DOMAIN decisions' : q # r => q \in DOMAIN decisions /\ decisions'[q] = decisions[q]
    BY <1>10
  <2> QED
    BY <2>1, <2>2, <2>3, ChainsKept
<1>15. CallsApart'
  <2>1. \A q \in Requests : Is(q, "drafted")' =>
          Is(q, "drafted") /\ tasks'[q].draft = tasks[q].draft
    BY <1>9 DEF Is
  <2>2. \A q \in DOMAIN decisions' :
          q \in DOMAIN decisions /\ decisions'[q].day = decisions[q].day
    BY <1>7, <1>10
  <2>3. today' \in Nat /\ today <= today'
    BY DEF RoutingTypeOK
  <2>4. \A q \in DOMAIN decisions : q \in DOMAIN decisions'
    BY <1>10
  <2>5. /\ DOMAIN asked' = DOMAIN asked
        /\ \A m \in DOMAIN asked : asked'[m].of = asked[m].of /\ asked'[m].day = asked[m].day
    BY <1>11
  <2> QED
    BY <2>1, <2>2, <2>3, <2>4, <2>5, CallsStayApart
<1>16. Reserved'
  <2>1. \A q \in Requests : Is(q, "asking")' => q # r /\ Is(q, "asking")
    BY <1>9 DEF Is
  <2>2. \A q \in Requests : Is(q, "asking")' =>
          /\ \A m \in DOMAIN asked : asked[m].of = q => asked'[m] = asked[m]
          /\ \A m \in DOMAIN asked' : asked'[m].of = q => m \in DOMAIN asked /\ asked[m].of = q
    BY <1>1, <1>11, <2>1
  <2> QED
    BY <1>10, <1>11, <2>1, <2>2, ReservedStays
<1>17. BudgetStands'
  <2>1. CASE budget'.cost = budget.cost
    <3>1. Reserve \in cost .. Reserve
      BY <1>2
    <3> QED
      BY <1>1, <1>2, <1>12, <2>1, <3>1, BudgetSettles
  <2>2. CASE \E p \in cost .. Reserve : /\ asked[n].day = budget.day
                                        /\ budget'.cost = budget.cost - Reserve + p
    BY <1>1, <1>2, <1>12, <2>2, BudgetSettles
  <2> QED
    BY <1>12, <2>1, <2>2
<1> QED
  BY <1>13, <1>14, <1>15, <1>16, <1>17

\* The classifier's answer, and its failure, are such results.
LEMMA AnswerKeeps ==
  ASSUME RInv, NEW r \in Requests
  PROVE  /\ ClassifierFails(r) => RInv'
         /\ \A complexity \in {"simple", "complex", "unknown"}, cost \in Costs :
              Classified(r, complexity, cost) => RInv'
<1>1. ASSUME Is(r, "asking") PROVE \E n \in DOMAIN asked : LastCall(r, n) /\ asked[n].cost = Reserve
  BY <1>1 DEF RInv, Reserved
<1>2. Reserve \in Nat
  BY RoutingAssumption
<1>3. ASSUME ClassifierFails(r) PROVE RInv'
  <2>1. Is(r, "asking") /\ FinishRoutingDecision(r, "unknown", Reserve)
        /\ UNCHANGED <<policies, today, asked, served>>
    BY <1>3 DEF ClassifierFails
  <2>2. PICK n \in DOMAIN asked : LastCall(r, n) /\ asked[n].cost = Reserve
    BY <1>1, <2>1
  <2>3. asked' = [asked EXCEPT ![n].cost = Reserve]
    <3>1. [asked[n] EXCEPT !.cost = Reserve] = asked[n]
      BY <2>2, AskedFacts DEF RInv
    <3>2. [asked EXCEPT ![n] = asked[n]] = asked
      BY DEF RInv, RoutingTypeOK
    <3> QED
      BY <2>1, <3>1, <3>2
  <2>4. Reserve \in 0 .. Reserve
    BY <1>2
  <2> QED
    BY <2>1, <2>2, <2>3, <2>4, FinishKeeps
<1>4. ASSUME NEW complexity \in {"simple", "complex", "unknown"}, NEW cost \in Costs,
             Classified(r, complexity, cost)
      PROVE  RInv'
  <2> DEFINE mine == {n \in DOMAIN asked : asked[n].of = r}
             last == CHOOSE n \in mine : \A m \in mine : m <= n
  <2>1. Is(r, "asking") /\ UNCHANGED <<policies, today, served>>
        /\ asked' = [asked EXCEPT ![last].cost = cost]
    BY <1>4 DEF Classified
  <2>2. PICK told \in {cost, Reserve} : FinishRoutingDecision(r, complexity, told)
    BY <1>4 DEF Classified
  <2>3. last \in DOMAIN asked /\ LastCall(r, last)
    <3>1. \E n \in mine : \A m \in mine : m <= n
      BY <1>1, <2>1 DEF LastCall
    <3>2. last \in mine /\ \A m \in mine : m <= last
      BY <3>1
    <3> HIDE DEF last
    <3> QED
      BY <3>2 DEF LastCall
  <2>4. told \in 0 .. Reserve /\ cost \in 0 .. told
    BY RoutingAssumption, <1>2
  <2> HIDE DEF last
  <2> QED
    BY <2>1, <2>2, <2>3, <2>4, FinishKeeps
<1> QED
  BY <1>3, <1>4

\* A provider answers, by the decision the attempt was routed by.
LEMMA RouteKeeps ==
  ASSUME RInv, NEW r \in Requests, NEW provider \in Eligibles, Route(r, provider)
  PROVE  RInv'
<1> USE DEF RInv
<1> DEFINE d == tasks[r].draft
           s == [by |-> provider, complexity |-> d.complexity, mode |-> d.mode,
                 revision |-> d.revision]
<1>1. /\ Is(r, "routed") /\ HasDraft(r) /\ ChainStands(d) /\ provider \in ApplyDecision(r)
      /\ served' = served \cup {s} /\ tasks' = [tasks EXCEPT ![r] = NoAttempt("over")]
      /\ UNCHANGED <<budget, policies, today, asked>>
  BY DEF Route, Is, HasDraft, ChainsStand
<1>2. /\ tasks' \in [Requests -> TaskType] /\ tasks'[r].pc = "over"
      /\ \A q \in Requests : q # r => tasks'[q] = tasks[q]
  <2> DEFINE pc == "over"
  <2>1. pc \in {"new", "over"} /\ tasks' = [tasks EXCEPT ![r] = NoAttempt(pc)]
    BY <1>1
  <2> HIDE DEF pc
  <2>2. TaskBecomes(r, [pc |-> pc, eligible |-> {}, draft |-> "none"])
    BY <2>1, NoAttemptFacts
  <2> QED
    BY <2>2 DEF TaskBecomes, pc
<1>3. /\ DOMAIN decisions' = DOMAIN decisions
      /\ decisions' \in [DOMAIN decisions' -> DecisionType]
      /\ \A q \in DOMAIN decisions :
           /\ decisions'[q] \in DecisionType /\ q # r => decisions'[q] = decisions[q]
           /\ decisions'[q].day = decisions[q].day /\ decisions'[q].cost = decisions[q].cost
           /\ decisions'[q].pending = decisions[q].pending
           /\ decisions'[q].complexity = decisions[q].complexity
           /\ decisions'[q].chain = decisions[q].chain
           /\ decisions'[q].revision = decisions[q].revision
  <2>1. decisions \in [DOMAIN decisions -> DecisionType]
    BY DEF RoutingTypeOK
  <2>2. \/ decisions' = decisions
        \/ r \in DOMAIN decisions /\ decisions' = [decisions EXCEPT ![r].served = provider]
    BY DEF Route, Known
  <2>3. CASE decisions' = decisions
    BY <2>1, <2>3
  <2>4. CASE r \in DOMAIN decisions /\ decisions' = [decisions EXCEPT ![r].served = provider]
    <3> DEFINE e == [decisions[r] EXCEPT !.served = provider]
    <3>1. /\ e \in DecisionType /\ e.day = decisions[r].day /\ e.cost = decisions[r].cost
          /\ e.pending = decisions[r].pending /\ e.complexity = decisions[r].complexity
          /\ e.chain = decisions[r].chain /\ e.revision = decisions[r].revision
      BY <2>1, <2>4 DEF DecisionType
    <3>2. decisions' = [decisions EXCEPT ![r] = e]
      BY <2>4
    <3> HIDE DEF e
    <3> QED
      BY <2>1, <2>4, <3>1, <3>2
  <2> QED
    BY <2>2, <2>3, <2>4
<1>5. RoutingTypeOK'
  BY <1>1, <1>2, <1>3 DEF RoutingTypeOK
<1>6. ChainsStand'
  <2>1. (\A q \in DOMAIN decisions : ChainStands(decisions[q]))'
    <3>1. \A q \in DOMAIN decisions : ChainStands(decisions[q])
      BY DEF ChainsStand
    <3> QED
      BY <1>1, <1>3, <3>1 DEF ChainStands
  <2>2. (\A q \in Requests : HasDraft(q) => ChainStands(tasks[q].draft))'
    <3>1. \A q \in Requests : HasDraft(q)' =>
            tasks'[q].draft = tasks[q].draft /\ ChainStands(tasks[q].draft)
      BY <1>2 DEF HasDraft, ChainsStand
    <3> QED
      BY <1>1, <3>1 DEF ChainStands, HasDraft
  <2>3. s.mode = "enforce" /\ s.by \notin policies[s.revision].complex =>
          s.complexity = "simple" /\ s.by \in policies[s.revision].simple
    BY <1>1 DEF ApplyDecision, ChainStands
  <2>4. s.revision \in DOMAIN policies
    BY <1>1 DEF ChainStands
  <2> HIDE DEF s
  <2>5. (CheapOnlyIfSimple /\ \A x \in served : x.revision \in DOMAIN policies)'
    BY <1>1, <2>3, <2>4 DEF ChainsStand, CheapOnlyIfSimple
  <2> QED
    BY <2>1, <2>2, <2>5 DEF ChainsStand
<1>7. CallsApart'
  <2>1. \A q \in Requests : Is(q, "drafted")' =>
          Is(q, "drafted") /\ tasks'[q].draft = tasks[q].draft
    BY <1>2 DEF Is
  <2> QED
    BY <1>1, <1>3, <2>1, CallsStayApart DEF RoutingTypeOK
<1>8. Reserved'
  <2>1. \A q \in Requests : Is(q, "asking")' => Is(q, "asking")
    BY <1>2 DEF Is
  <2>2. \A q \in DOMAIN decisions' : decisions'[q].pending => decisions[q].pending
    BY <1>3, Zenon
  <2> QED
    BY <1>1, <1>3, <2>1, <2>2, ReservedStays
<1>9. BudgetStands'
  BY <1>1, BudgetStays
<1> QED
  BY <1>5, <1>6, <1>7, <1>8, <1>9

\* A policy is published, which drops what is old, or a day passes.
LEMMA AroundKeeps ==
  ASSUME RInv, (\E policy \in Policies : PublishComplexityRouting(policy)) \/ NextDay
  PROVE  RInv'
<1> USE DEF RInv
<1>1. /\ today' \in Nat /\ today <= today' /\ UNCHANGED <<tasks, budget, asked, served>>
      /\ \/ policies' = policies
         \/ \E policy \in Policies : policies' = Append(policies, policy)
      /\ \/ decisions' = decisions
         \/ decisions' = Retained(today') /\ today' = today
  BY DEF PublishComplexityRouting, NextDay, RoutingTypeOK
<1>2. /\ policies' \in Seq(Policies) /\ policies' # <<>>
      /\ \A n \in DOMAIN policies : n \in DOMAIN policies' /\ policies'[n] = policies[n]
  <2>1. CASE policies' = policies
    BY <2>1 DEF RoutingTypeOK
  <2>2. CASE \E policy \in Policies : policies' = Append(policies, policy)
    BY <2>2, PoliciesKept
  <2> QED
    BY <1>1, <2>1, <2>2
<1>3. /\ decisions' \in [DOMAIN decisions' -> DecisionType]
      /\ \A q \in DOMAIN decisions' : q \in DOMAIN decisions /\ decisions'[q] = decisions[q]
      /\ \A q \in DOMAIN decisions :
           q \notin DOMAIN decisions' => today' - decisions[q].day > Retention
  <2>1. CASE decisions' = decisions
    BY <2>1 DEF RoutingTypeOK
  <2>2. CASE decisions' = Retained(today') /\ today' = today
    BY <1>1, <2>2, RetainedFacts
  <2> QED
    BY <1>1, <2>1, <2>2
<1>4. RoutingTypeOK'
  BY <1>1, <1>2, <1>3 DEF RoutingTypeOK
<1>5. ChainsStand'
  <2>1. \A q \in Requests : HasDraft(q)' => HasDraft(q) /\ tasks'[q].draft = tasks[q].draft
    BY <1>1 DEF HasDraft
  <2> DEFINE r == "none"
  <2>2. /\ \A q \in DOMAIN decisions' :
             q # r => q \in DOMAIN decisions /\ decisions'[q] = decisions[q]
        /\ r \in DOMAIN decisions' => r \in DOMAIN decisions /\ decisions'[r] = decisions[r]
        /\ r \in Requests /\ HasDraft(r)' => HasDraft(r) /\ tasks'[r].draft = tasks[r].draft
    BY <1>3, <2>1
  <2> HIDE DEF r
  <2> QED
    BY <1>1, <1>2, <2>1, <2>2, ChainsKept
<1>6. CallsApart'
  <2>1. \A q \in Requests : Is(q, "drafted")' =>
          Is(q, "drafted") /\ tasks'[q].draft = tasks[q].draft
    BY <1>1 DEF Is
  <2> QED
    BY <1>1, <1>3, <2>1, CallsStayApart
<1>7. Reserved'
  <2>1. \A q \in Requests : Is(q, "asking")' => Is(q, "asking")
    BY <1>1 DEF Is
  <2> QED
    BY <1>1, <1>3, <2>1, ReservedStays
<1>8. BudgetStands'
  BY <1>1, BudgetStays
<1> QED
  BY <1>4, <1>5, <1>6, <1>7, <1>8

\* At first nothing was decided or asked.
LEMMA InitRouting == RoutingInit => RInv
<1> SUFFICES ASSUME RoutingInit PROVE RInv
  OBVIOUS
<1>1. PICK policy \in Policies : policies = <<policy>>
  BY DEF RoutingInit
<1>2. RoutingTypeOK
  <2>1. policies \in Seq(Policies) /\ policies # <<>>
    BY <1>1
  <2>2. NoAttempt("new") \in TaskType
    BY DEF NoAttempt, TaskType
  <2>3. DOMAIN decisions = {} /\ decisions \in [{} -> DecisionType]
    BY DEF RoutingInit
  <2>4. asked \in Seq([of : Requests, day : Nat, cost : Nat])
    BY DEF RoutingInit
  <2> QED
    BY <2>1, <2>2, <2>3, <2>4 DEF RoutingTypeOK, RoutingInit
<1>3. DOMAIN asked = {} /\ DOMAIN decisions = {} /\ \A r \in Requests : tasks[r].pc = "new"
  BY DEF RoutingInit, NoAttempt
<1>4. ChainsStand
  BY <1>3 DEF RoutingInit, ChainsStand, HasDraft, CheapOnlyIfSimple
<1>5. CallsApart /\ Reserved
  BY <1>3 DEF CallsApart, Reserved, Is
<1>6. BudgetStands
  <2>1. Calls(asked, budget.day) = {}
    BY <1>3 DEF Calls
  <2>2. Cardinality(Calls(asked, budget.day)) = 0 /\ CostOf(asked, Calls(asked, budget.day)) = 0
    BY <2>1, NoCost, FS_EmptySet
  <2>3. budget.day = 0 /\ budget.calls = 0 /\ budget.cost = 0
    BY DEF RoutingInit
  <2> QED
    BY <1>3, <2>2, <2>3, RoutingAssumption DEF BudgetStands
<1> QED
  BY <1>2, <1>4, <1>5, <1>6 DEF RInv

\* No step breaks the invariant.
LEMMA RoutingKeeps == RInv /\ [RoutingNext]_routingVars => RInv'
<1> SUFFICES ASSUME RInv, [RoutingNext]_routingVars PROVE RInv'
  OBVIOUS
<1>1. ASSUME NEW r \in Requests, GivesUp(r) \/ Retry(r) PROVE RInv'
  <2>1. PICK pc \in {"new", "over"} : tasks' = [tasks EXCEPT ![r] = NoAttempt(pc)]
    BY <1>1 DEF GivesUp, Retry
  <2>2. UNCHANGED <<decisions, budget, policies, today, asked, served>>
    BY <1>1 DEF GivesUp, Retry
  <2> DEFINE t == [pc |-> pc, eligible |-> {}, draft |-> "none"]
  <2>3. TaskBecomes(r, t)
    BY <2>1, NoAttemptFacts DEF RInv
  <2>4. t.pc \notin {"drafted", "asking", "routed"}
    OBVIOUS
  <2> HIDE DEF t
  <2> QED
    BY <2>2, <2>3, <2>4, MovesOn
<1>2. ASSUME NEW r \in Requests, NEW eligible \in Candidates, NEW provider \in eligible,
             Route(r, provider)
      PROVE  RInv'
  BY <1>2, RouteKeeps DEF Eligibles
<1>3. CASE UNCHANGED routingVars
  <2>1. /\ RoutingTypeOK' /\ ChainsStand' /\ CallsApart' /\ Reserved'
    BY <1>3 DEF routingVars, RInv, RoutingTypeOK, ChainsStand, CallsApart, Reserved, ChainStands,
                HasDraft, Is, LastCall, CheapOnlyIfSimple
  <2>2. BudgetStands'
    BY <1>3, BudgetStays DEF routingVars, RInv
  <2> QED
    BY <2>1, <2>2 DEF RInv
<1> QED
  BY <1>1, <1>2, <1>3, ConsultKeeps, BeginKeeps, AnswerKeeps, AroundKeeps DEF RoutingNext

\* Whatever is drafted, asked, answered late, given up and published, the invariant holds.
THEOREM RoutingInvariance == RoutingSpec => []RInv
BY InitRouting, RoutingKeeps, PTL DEF RoutingSpec

\* An enforced policy's cheap providers serve only what a classifier called simple.
THEOREM CheapAlwaysSimple == RoutingSpec => []CheapOnlyIfSimple
<1>1. RInv => CheapOnlyIfSimple
  BY DEF RInv, ChainsStand
<1> QED
  BY <1>1, RoutingInvariance, PTL

\* An invocation is not asked about twice while its decision is kept, and no day's calls,
\* nor what they cost, pass the budget, whenever and whether their results come.
THEOREM ClassifierAlwaysWithinBudget == RoutingSpec => []ClassifierWithinBudget
<1>1. ASSUME RInv PROVE ClassifierWithinBudget
  <2>1. \A n, m \in DOMAIN asked :
          n < m /\ asked[n].of = asked[m].of => asked[m].day - asked[n].day > Retention
    BY <1>1 DEF RInv, CallsApart
  <2>2. ASSUME NEW day \in {asked[n].day : n \in DOMAIN asked}
        PROVE  LET calls == {n \in DOMAIN asked : asked[n].day = day}
                   laid == MapThenSumSet(LAMBDA n : asked[n].cost, calls)
               IN /\ Cardinality(calls) <= DailyCalls /\ laid <= DailyBudget
                  /\ budget.day = day => laid <= budget.cost
    <3>1. DayWithin(day)
      BY <1>1 DEF RInv, BudgetStands
    <3>2. budget.day = day => CostOf(asked, Calls(asked, day)) <= budget.cost
      BY <1>1, Zenon DEF RInv, BudgetStands
    <3> QED
      BY <3>1, <3>2, Zenon DEF DayWithin, CostOf, Calls
  <2> QED
    BY <2>1, <2>2, Zenon DEF ClassifierWithinBudget
<1> QED
  BY <1>1, RoutingInvariance, PTL

-----------------------------------------------------------------------------
(* The stream of an answer.                                                *)

TokenCounts ==
  [uncached : Nat, cached : Nat, completion : Nat, final : BOOLEAN, restated : BOOLEAN]

Pieces == ToolUses \X Nat

Buffers ==
  [index : Nat, id : Nat, named : BOOLEAN, pieces : Seq(Pieces), announced : BOOLEAN, sent : Nat]

Frames == [id : Nat, pieces : Seq(Pieces), stop : BOOLEAN]

KiroStates ==
  [last : Nat, calls : UNION {[C -> Seq(Pieces)] : C \in SUBSET Nat}, ended : SUBSET Nat]

Upstreams ==
  [dialect : Dialects, said : Nat, sent : [ToolUses -> Nat], begun : SUBSET ToolUses,
   stopped : BOOLEAN, reports : Nat, restated : SUBSET TokenCounts, noise : Nat, garbled : Nat]

Heards ==
  [output : BOOLEAN, units : Nat, usage : TokenCounts, frame : BOOLEAN, input : BOOLEAN,
   stop : StopReasons \cup {"none"}]

AnswerTypes ==
  /\ upstream \in Upstreams
  /\ tools \in [calls : Seq(Buffers), live : Nat]
  /\ heard \in Heards
  /\ kiro \in KiroStates

\* Once its prompt is restated, what the guard has counted of it is the last restatement.
HeardStands(h, u) ==
  /\ h.units > 0 => h.output
  /\ \A report \in u.restated :
       /\ h.usage.restated /\ h.input
       /\ h.usage.uncached = report.uncached /\ h.usage.cached = report.cached

\* Nothing is billed before the end, and what is then follows the upstream.
BillStands ==
  /\ HeardStands(heard, upstream)
  /\ Open => end.bill = {}
  /\ BillFollowsUpstream

IndexOf(c, u) == IF u.dialect \in {"anthropic", "indexed"} THEN c ELSE 0

\* The buffers are the calls begun, in their order, each with what was sent of its own.
BuffersStand(calls, u) ==
  /\ calls \in Seq(Buffers)
  /\ u.begun = 1..Len(calls)
  /\ \A c \in 1..Len(calls) :
       /\ calls[c].id = c /\ calls[c].named /\ calls[c].index = IndexOf(c, u)
       /\ calls[c].pieces = PiecesSent(c, u.sent[c])
       /\ u.sent[c] <= PiecesOf[c]
  /\ \A c \in ToolUses \ u.begun : u.sent[c] = 0

\* What Kiro has heard: of every call announced what was sent on; all there is of those
\* that ended, which are the announced ones but the one that streams.
KiroStands(calls, live, k, u) ==
  /\ live \in 0..Len(calls)
  /\ DOMAIN k.calls = {c \in 1..Len(calls) : calls[c].announced}
  /\ k.ended = DOMAIN k.calls \ {live}
  /\ live # 0 => calls[live].announced /\ k.last = live
  /\ \A c \in DOMAIN k.calls :
       /\ calls[c].sent \in 0..u.sent[c]
       /\ k.calls[c] = PiecesSent(c, calls[c].sent)
       /\ c # live => calls[c].sent = u.sent[c] /\ u.sent[c] = PiecesOf[c]

\* The one that streams is sent on to the last piece.
Caught(calls, live, u) == live # 0 => calls[live].sent = u.sent[live]

CallsStand ==
  IF Open THEN /\ BuffersStand(tools.calls, upstream)
               /\ KiroStands(tools.calls, tools.live, kiro, upstream)
               /\ Caught(tools.calls, tools.live, upstream)
               /\ upstream.begun # {} => heard.output
  ELSE CallsReachKiroWhole

AnswerInv == AnswerTypes /\ BillStands /\ CallsStand

SentFacts(c, n) ==
  /\ PiecesSent(c, n) \in Seq(Pieces) /\ Len(PiecesSent(c, n)) = n
  /\ PiecesSent(c, 0) = <<>>
  /\ PiecesSent(c, n) \o <<>> = PiecesSent(c, n)
  /\ PiecesSent(c, n) \o <<<<c, n + 1>>>> = PiecesSent(c, n + 1)
  /\ SubSeq(PiecesSent(c, n), 1, n) = PiecesSent(c, n)
  /\ <<>> \o PiecesSent(c, n) = PiecesSent(c, n)
  /\ \A m \in 0..n : PiecesSent(c, m) \o SubSeq(PiecesSent(c, n), m + 1, n) = PiecesSent(c, n)
  /\ \A m \in 0..n : SubSeq(PiecesSent(c, n), m + 1, n) \in Seq(Pieces)
  /\ n # 0 => Last(PiecesSent(c, n)) = <<c, n>>

\* The pieces sent of a call, one more of them, and those from one of them on.
LEMMA PiecesFacts ==
  ASSUME NEW c \in ToolUses, NEW n \in Nat
  PROVE  SentFacts(c, n)
<1> DEFINE p == PiecesSent(c, n)
<1>1. \A m \in Nat : /\ PiecesSent(c, m) \in Seq(Pieces) /\ Len(PiecesSent(c, m)) = m
                     /\ \A i \in 1..m : PiecesSent(c, m)[i] = <<c, i>>
  BY DEF PiecesSent, Pieces
<1>2. PiecesSent(c, 0) = <<>>
  BY <1>1
<1>3. p \in Seq(Pieces) /\ Len(p) = n
  BY <1>1
<1>4. p \o <<>> = p /\ <<>> \o p = p /\ SubSeq(p, 1, n) = p
  BY <1>3
<1>5. p \o <<<<c, n + 1>>>> = PiecesSent(c, n + 1)
  <2> DEFINE q == p \o <<<<c, n + 1>>>>
  <2>1. <<<<c, n + 1>>>> \in Seq(Pieces) /\ PiecesSent(c, n + 1) \in Seq(Pieces)
    <3>1. <<c, n + 1>> \in Pieces /\ n + 1 \in Nat
      BY DEF Pieces
    <3>2. \A x \in Pieces : <<x>> \in Seq(Pieces)
      OBVIOUS
    <3> QED
      BY <1>1, <3>1, <3>2, Zenon
  <2>2. q \in Seq(Pieces) /\ Len(q) = n + 1
    BY <1>3, <2>1
  <2>3. \A i \in 1..n + 1 : q[i] = <<c, i>>
    BY <1>1, <1>3, <2>1
  <2> HIDE DEF q, p
  <2>4. \A i \in 1..n + 1 : PiecesSent(c, n + 1)[i] = q[i]
    <3>1. n + 1 \in Nat
      OBVIOUS
    <3>2. \A i \in 1..n + 1 : PiecesSent(c, n + 1)[i] = <<c, i>>
      BY <1>1, <3>1, Zenon
    <3> QED
      BY <2>3, <3>2, Zenon
  <2>5. q = PiecesSent(c, n + 1)
    BY <1>1, <2>1, <2>2, <2>4, SequencesEqual
  <2> QED
    BY <2>5 DEF q, p
<1>6. ASSUME NEW m \in 0..n
      PROVE  /\ SubSeq(p, m + 1, n) \in Seq(Pieces)
             /\ PiecesSent(c, m) \o SubSeq(p, m + 1, n) = p
  <2> DEFINE a == PiecesSent(c, m)  b == SubSeq(p, m + 1, n)
  <2>1. a \in Seq(Pieces) /\ Len(a) = m /\ m \in Nat
    BY <1>1
  <2>2. b \in Seq(Pieces) /\ Len(b) = n - m /\ \A i \in 1..n - m : b[i] = p[m + i]
    BY <1>3
  <2>3. Joined(Pieces, a, b)
    BY <2>1, <2>2, ConcatFacts
  <2>4. /\ \A i \in 1..n : p[i] = <<c, i>>
        /\ \A i \in 1..m : a[i] = <<c, i>>
    BY <1>1, <2>1
  <2> HIDE DEF a, b, p
  <2>5. a \o b \in Seq(Pieces) /\ Len(a \o b) = n
    BY <2>1, <2>2, <2>3 DEF Joined
  <2>6. ASSUME NEW i \in 1..n PROVE (a \o b)[i] = p[i]
    <3>1. CASE i <= m
      <4>1. i \in 1..m /\ i \in 1..Len(a)
        BY <2>1, <3>1
      <4>2. (a \o b)[i] = a[i]
        BY <2>3, <4>1, Zenon DEF Joined
      <4> QED
        BY <2>4, <4>1, <4>2, Zenon
    <3>2. CASE i > m
      <4>1. i - m \in 1..Len(b) /\ m + (i - m) = i
        BY <2>1, <2>2, <3>2
      <4> QED
        BY <2>1, <2>2, <2>3, <4>1 DEF Joined
    <3>3. i <= m \/ i > m
      BY <2>1
    <3> QED
      BY <3>1, <3>2, <3>3, Zenon
  <2>7. a \o b = p
    BY <1>3, <2>5, <2>6, SequencesEqual
  <2> QED
    BY <2>2, <2>7 DEF a, b
<1>7. n # 0 => Last(p) = <<c, n>>
  <2>1. n # 0 => n \in 1..n
    OBVIOUS
  <2>2. n # 0 => p[n] = <<c, n>>
    BY <1>1, <2>1
  <2> HIDE DEF p
  <2> QED
    BY <1>3, <2>2 DEF Last
<1> QED
  BY <1>1, <1>2, <1>3, <1>4, <1>5, <1>6, <1>7, Zenon DEF SentFacts

Hearing == [p \in KiroStates \X Frames |-> Hears(p[1], p[2])]

\* Kiro's calls stay calls.
LEMMA HearsFacts ==
  ASSUME NEW k \in KiroStates, NEW f \in Frames
  PROVE  Hears(k, f) \in KiroStates
<1> DEFINE of == IF f.id \in DOMAIN k.calls THEN k.last ELSE f.id
           D == DOMAIN k.calls \cup {of}
           calls == [c \in D |-> (IF c \in DOMAIN k.calls THEN k.calls[c] ELSE <<>>)
                                 \o (IF c = of THEN f.pieces ELSE <<>>)]
           ended == IF f.stop THEN k.ended \cup {of} ELSE k.ended
<1>1. PICK C \in SUBSET Nat : k.calls \in [C -> Seq(Pieces)]
  BY DEF KiroStates
<1>2. k.last \in Nat /\ k.ended \subseteq Nat /\ f.id \in Nat /\ f.pieces \in Seq(Pieces)
  BY DEF KiroStates, Frames
<1>3. of \in Nat /\ D \in SUBSET Nat
  BY <1>1, <1>2
<1>4. ASSUME NEW c \in D PROVE calls[c] \in Seq(Pieces)
  <2>1. (IF c \in DOMAIN k.calls THEN k.calls[c] ELSE <<>>) \in Seq(Pieces)
    <3>1. c \in DOMAIN k.calls => k.calls[c] \in Seq(Pieces)
      BY <1>1
    <3>2. <<>> \in Seq(Pieces)
      OBVIOUS
    <3> QED
      BY <3>1, <3>2
  <2>2. (IF c = of THEN f.pieces ELSE <<>>) \in Seq(Pieces)
    BY <1>2
  <2> QED
    BY <2>1, <2>2
<1>5. calls \in [D -> Seq(Pieces)]
  BY <1>4
<1>6. ended \in SUBSET Nat
  BY <1>2, <1>3
<1>7. Hears(k, f) = [last |-> of, calls |-> calls, ended |-> ended]
  BY DEF Hears
<1> HIDE DEF of, D, calls, ended
<1> QED
  BY <1>3, <1>5, <1>6, <1>7 DEF KiroStates

HearPeels(g, k, s) ==
  g = [t \in SUBSET DOMAIN s |->
         IF t = {} THEN k ELSE Hears(g[t \ {Max(t)}], s[Max(t)])]

\* Frames are heard one after another.
LEMMA HearingIsFold ==
  ASSUME NEW k \in KiroStates, NEW s \in Seq(Frames)
  PROVE  HearsAll(k, s) = Folded(Hearing, k, s)
<1> DEFINE h == CHOOSE g : HearPeels(g, k, s)
<1>1. HearsAll(k, s) = h[DOMAIN s]
  BY DEF HearsAll, FoldLeft, MapThenFoldSet, HearPeels
<1>2. /\ Hearing \in [KiroStates \X Frames -> KiroStates]
      /\ \A a \in KiroStates, e \in Frames : Hearing[<<a, e>>] = Hears(a, e)
  BY HearsFacts DEF Hearing
<1>3. DOMAIN s = 1 .. Len(s) /\ Len(s) \in Nat /\ \A i \in 1 .. Len(s) : s[i] \in Frames
  OBVIOUS
<1>4. \E g : HearPeels(g, k, s)
  <2>1. PICK g \in [SUBSET (1 .. Len(s)) -> KiroStates] : PeelsLast(g, Hearing, k, s)
    BY <1>2, PeelingExists
  <2>2. ASSUME NEW t \in SUBSET (1 .. Len(s))
        PROVE  g[t] = IF t = {} THEN k ELSE Hears(g[t \ {Max(t)}], s[Max(t)])
    <3>1. CASE t = {}
      BY <2>1, <3>1 DEF PeelsLast
    <3>2. CASE t # {}
      <4>1. Max(t) \in 1 .. Len(s)
        BY <1>3, <3>2, LastOfSet
      <4>2. g[t] = Hearing[<<g[t \ {Max(t)}], s[Max(t)]>>]
        BY <2>1, <3>2 DEF PeelsLast
      <4>3. g[t \ {Max(t)}] \in KiroStates /\ s[Max(t)] \in Frames
        BY <1>3, <4>1
      <4> QED
        BY <1>2, <3>2, <4>2, <4>3
    <3> QED
      BY <3>1, <3>2
  <2> QED
    BY <1>3, <2>2 DEF HearPeels
<1>5. HearPeels(h, k, s)
  BY <1>4
<1> HIDE DEF h
<1>6. h[{}] = k
  BY <1>3, <1>5 DEF HearPeels
<1>7. ASSUME NEW t \in SUBSET (1 .. Len(s)), t # {}, h[t \ {Max(t)}] \in KiroStates
      PROVE  h[t] = Hearing[<<h[t \ {Max(t)}], s[Max(t)]>>]
  <2>1. s[Max(t)] \in Frames
    BY <1>3, <1>7, LastOfSet
  <2>2. h[t] = Hears(h[t \ {Max(t)}], s[Max(t)])
    BY <1>3, <1>5, <1>7 DEF HearPeels
  <2> QED
    BY <1>2, <1>7, <2>1, <2>2
<1>8. PeelsWithin(h, Hearing, k, s, KiroStates, Frames)
  BY <1>6, <1>7 DEF PeelsWithin
<1>9. EndsAs(h, Hearing, k, s)
  BY <1>2, <1>8, PeelingIsFold
<1> QED
  BY <1>1, <1>3, <1>9 DEF EndsAs

HearsOneMore(k) ==
  /\ HearsAll(k, <<>>) = k
  /\ \A s \in Seq(Frames) : HearsAll(k, s) \in KiroStates
  /\ \A s \in Seq(Frames), f \in Frames : HearsAll(k, Append(s, f)) = Hears(HearsAll(k, s), f)

\* Hearing nothing, and one frame more.
LEMMA HearsAllFacts ==
  ASSUME NEW k \in KiroStates
  PROVE  HearsOneMore(k)
<1>1. /\ Hearing \in [KiroStates \X Frames -> KiroStates]
      /\ \A a \in KiroStates, e \in Frames : Hearing[<<a, e>>] = Hears(a, e)
  BY HearsFacts DEF Hearing
<1>2. FoldsStep(Hearing, k, KiroStates, Frames)
  BY <1>1, FoldedFacts
<1>3. \A s \in Seq(Frames) : HearsAll(k, s) = Folded(Hearing, k, s)
  BY HearingIsFold
<1>4. \A s \in Seq(Frames) : HearsAll(k, s) \in KiroStates
  BY <1>2, <1>3 DEF FoldsStep
<1>5. HearsAll(k, <<>>) = k
  <2>1. <<>> \in Seq(Frames)
    OBVIOUS
  <2> QED
    BY <1>2, <1>3, <2>1 DEF FoldsStep
<1>6. ASSUME NEW s \in Seq(Frames), NEW f \in Frames
      PROVE  HearsAll(k, Append(s, f)) = Hears(HearsAll(k, s), f)
  <2>1. Append(s, f) \in Seq(Frames)
    OBVIOUS
  <2>2. HearsAll(k, Append(s, f)) = Hearing[<<Folded(Hearing, k, s), f>>]
    BY <1>2, <1>3, <2>1 DEF FoldsStep
  <2> QED
    BY <1>1, <1>3, <1>4, <2>2
<1> QED
  BY <1>4, <1>5, <1>6 DEF HearsOneMore

\* A set of numbers has a least one.
LEMMA FirstOfSet ==
  ASSUME NEW n \in Nat, NEW t \in SUBSET (1..n), t # {}
  PROVE  \E m \in t : \A k \in t : m <= k
<1> DEFINE Good == {j \in 0..n : (\E x \in t : x <= j) => \E m \in t : \A k \in t : m <= k}
<1>1. 0 \in Good
  <2>1. \A x \in t : ~(x <= 0)
    OBVIOUS
  <2> QED
    BY <2>1
<1>2. ASSUME NEW j \in 1..n, j - 1 \in Good PROVE j \in Good
  <2>1. CASE \E x \in t : x <= j - 1
    BY <1>2, <2>1
  <2>2. CASE ~\E x \in t : x <= j - 1
    <3>1. \A k \in t : k \in 1..n /\ j <= k
      BY <2>2
    <3>2. \A x \in t : x <= j => x = j
      BY <3>1
    <3> QED
      BY <3>1, <3>2
  <2> QED
    BY <2>1, <2>2
<1>3. Good \in SUBSET (0..n)
  OBVIOUS
<1> HIDE DEF Good
<1>4. n \in Good
  BY <1>1, <1>2, <1>3, CountingUp
<1>5. \E x \in t : x <= n
  <2>1. PICK x \in t : TRUE
    OBVIOUS
  <2>2. x \in 1..n
    OBVIOUS
  <2> QED
    BY <2>1, <2>2
<1> QED
  BY <1>4, <1>5 DEF Good

AddsToLast(k, f) ==
  /\ Hears(k, f).last = k.last /\ DOMAIN Hears(k, f).calls = DOMAIN k.calls
  /\ Hears(k, f).calls[k.last] = k.calls[k.last] \o f.pieces
  /\ \A c \in DOMAIN k.calls : c # k.last => Hears(k, f).calls[c] = k.calls[c]
  /\ Hears(k, f).ended = IF f.stop THEN k.ended \cup {k.last} ELSE k.ended

OpensCall(k, f) ==
  /\ Hears(k, f).last = f.id /\ DOMAIN Hears(k, f).calls = DOMAIN k.calls \cup {f.id}
  /\ Hears(k, f).calls[f.id] = f.pieces
  /\ \A c \in DOMAIN k.calls : Hears(k, f).calls[c] = k.calls[c]
  /\ Hears(k, f).ended = IF f.stop THEN k.ended \cup {f.id} ELSE k.ended

\* What Kiro makes of a frame of a call it knows, and of one it does not.
LEMMA HearsOne ==
  ASSUME NEW k \in KiroStates, NEW f \in Frames
  PROVE  /\ f.id \in DOMAIN k.calls /\ k.last \in DOMAIN k.calls => AddsToLast(k, f)
         /\ f.id \notin DOMAIN k.calls => OpensCall(k, f)
<1>1. \A c \in DOMAIN k.calls : k.calls[c] \in Seq(Pieces)
  BY DEF KiroStates
<1>2. f.pieces \in Seq(Pieces)
  BY DEF Frames
<1>3. \A p \in Seq(Pieces) : p \o <<>> = p /\ <<>> \o p = p
  OBVIOUS
<1>4. ASSUME f.id \in DOMAIN k.calls, k.last \in DOMAIN k.calls PROVE AddsToLast(k, f)
  <2>1. DOMAIN k.calls \cup {k.last} = DOMAIN k.calls
    BY <1>4
  <2> DEFINE x == Hears(k, f)
             added == [c \in DOMAIN k.calls |->
                         k.calls[c] \o (IF c = k.last THEN f.pieces ELSE <<>>)]
             ended == IF f.stop THEN k.ended \cup {k.last} ELSE k.ended
  <2>2. x = [last |-> k.last, calls |-> added, ended |-> ended]
    BY <1>4, <2>1 DEF Hears
  <2>a. /\ DOMAIN added = DOMAIN k.calls
        /\ added[k.last] = k.calls[k.last] \o f.pieces
        /\ \A c \in DOMAIN k.calls : c # k.last => added[c] = k.calls[c] \o <<>>
    BY <1>4
  <2> HIDE DEF x, added
  <2>3. /\ x.last = k.last /\ DOMAIN x.calls = DOMAIN k.calls /\ x.ended = ended
        /\ x.calls[k.last] = k.calls[k.last] \o f.pieces
        /\ \A c \in DOMAIN k.calls : c # k.last => x.calls[c] = k.calls[c] \o <<>>
    BY <2>2, <2>a
  <2>5. \A c \in DOMAIN k.calls : c # k.last => x.calls[c] = k.calls[c]
    BY <1>1, <1>3, <2>3
  <2> QED
    BY <2>3, <2>5, Zenon DEF AddsToLast, x
<1>5. ASSUME f.id \notin DOMAIN k.calls PROVE OpensCall(k, f)
  <2> DEFINE x == Hears(k, f)
             D == DOMAIN k.calls \cup {f.id}
             added == [c \in D |-> (IF c \in DOMAIN k.calls THEN k.calls[c] ELSE <<>>)
                                   \o (IF c = f.id THEN f.pieces ELSE <<>>)]
             ended == IF f.stop THEN k.ended \cup {f.id} ELSE k.ended
  <2>1. x = [last |-> f.id, calls |-> added, ended |-> ended]
    BY <1>5 DEF Hears
  <2>a. /\ DOMAIN added = D
        /\ added[f.id] = <<>> \o f.pieces
        /\ \A c \in DOMAIN k.calls : added[c] = k.calls[c] \o <<>>
    BY <1>5
  <2> HIDE DEF x, added
  <2>2. /\ x.last = f.id /\ DOMAIN x.calls = D /\ x.ended = ended
        /\ x.calls[f.id] = <<>> \o f.pieces
        /\ \A c \in DOMAIN k.calls : x.calls[c] = k.calls[c] \o <<>>
    BY <2>1, <2>a
  <2>3. x.calls[f.id] = f.pieces
    BY <1>2, <1>3, <2>2
  <2>4. \A c \in DOMAIN k.calls : x.calls[c] = k.calls[c]
    BY <1>1, <1>3, <2>2
  <2> QED
    BY <2>2, <2>3, <2>4, Zenon DEF OpensCall, x
<1> QED
  BY <1>4, <1>5

SentOn(calls, p, u) ==
  LET new == [calls EXCEPT ![p] = SentAll(calls[p])] IN
  /\ BuffersStand(new, u) /\ Len(new) = Len(calls)
  /\ new[p].announced /\ new[p].sent = u.sent[p]
  /\ \A c \in 1..Len(calls) : c # p => new[c] = calls[c]

\* A buffer whose pieces are sent keeps them.
LEMMA SentAllKeeps ==
  ASSUME NEW u \in Upstreams, NEW calls, BuffersStand(calls, u), NEW p \in 1..Len(calls)
  PROVE  SentOn(calls, p, u)
<1> DEFINE b == calls[p]  a == SentAll(b)  new == [calls EXCEPT ![p] = a]
<1>1. calls \in Seq(Buffers) /\ b \in Buffers
  BY DEF BuffersStand
<1>2. p \in ToolUses /\ u.sent[p] \in Nat
  BY DEF BuffersStand, Upstreams
<1>3. Len(b.pieces) = u.sent[p]
  <2>1. SentFacts(p, u.sent[p])
    BY <1>2, PiecesFacts
  <2>2. b.pieces = PiecesSent(p, u.sent[p])
    BY DEF BuffersStand
  <2> QED
    BY <2>1, <2>2 DEF SentFacts
<1>4. /\ a \in Buffers /\ a.announced /\ a.sent = u.sent[p] /\ a.id = b.id /\ a.named = b.named
      /\ a.index = b.index /\ a.pieces = b.pieces
  BY <1>1, <1>2, <1>3 DEF SentAll, Buffers
<1> HIDE DEF a, b
<1>5. new \in Seq(Buffers) /\ Len(new) = Len(calls)
  BY <1>1, <1>4
<1>6. new[p] = a /\ \A c \in 1..Len(calls) : c # p => new[c] = calls[c]
  BY <1>1
<1> HIDE DEF new
<1>7. BuffersStand(new, u)
  BY <1>4, <1>5, <1>6 DEF BuffersStand, b
<1> QED
  BY <1>4, <1>5, <1>6, <1>7 DEF SentOn, new, a, b

Loops == {"on", "done", "continued"}

Rounds == [calls : Seq(Buffers), live : Nat, frames : Seq(Frames), loop : Loops]

\* Between two rounds of advance: everything stands but that the streaming call has more to
\* be sent, if it is the one a piece has come for.
RoundStands(s, position, k, u) ==
  /\ s \in Rounds /\ position \in 1..Len(s.calls)
  /\ BuffersStand(s.calls, u)
  /\ KiroStands(s.calls, s.live, HearsAll(k, s.frames), u)
  /\ Caught(s.calls, s.live, u) \/ (s.live = position /\ s.loop = "on")

RoundEnds(s, position, k, u) ==
  RoundStands(s, position, k, u) /\ Caught(s.calls, s.live, u)

\* The call's own round: what it has more is sent.
LEMMA OwnRound ==
  ASSUME NEW u \in Upstreams, NEW k \in KiroStates, NEW position, NEW s,
         RoundStands(s, position, k, u), s.loop = "on", s.live = position
  PROVE  RoundEnds(AdvanceOnce(position, s), position, k, u)
<1> DEFINE b == s.calls[position]
           h == HearsAll(k, s.frames)
           f == Frame(b, b.sent, FALSE)
           new == [s.calls EXCEPT ![position] = SentAll(b)]
           more == IF b.sent < Len(b.pieces) THEN <<f>> ELSE <<>>
           r == [s EXCEPT !.loop = "done", !.calls[position] = SentAll(b), !.frames = @ \o more]
<1>1. AdvanceOnce(position, s) = r
  <2>1. ~(s.loop # "on")
    OBVIOUS
  <2>2. position # 0
    BY DEF RoundStands
  <2> QED
    BY <2>1, <2>2 DEF AdvanceOnce
<1>2. s \in Rounds /\ position \in 1..Len(s.calls) /\ h \in KiroStates /\ s.frames \in Seq(Frames)
  BY HearsAllFacts DEF RoundStands, HearsOneMore, Rounds
<1>3. BuffersStand(s.calls, u) /\ KiroStands(s.calls, s.live, h, u)
  BY DEF RoundStands
<1>4. b \in Buffers /\ position \in ToolUses /\ u.sent[position] \in Nat
  BY <1>2, <1>3 DEF BuffersStand, Rounds, Upstreams
<1>5. SentOn(s.calls, position, u)
  BY <1>2, <1>3, SentAllKeeps
<1>6. BuffersStand(new, u) /\ Len(new) = Len(s.calls) /\ new[position].announced
      /\ new[position].sent = u.sent[position]
      /\ \A c \in 1..Len(s.calls) : c # position => new[c] = s.calls[c]
  BY <1>5 DEF SentOn
<1>7. r.calls = new /\ r.live = position /\ r.loop = "done" /\ r.frames = s.frames \o more
  <2> DEFINE a == SentAll(b)
  <2> HIDE DEF more, a, b
  <2> QED
    BY <1>2 DEF Rounds
<1>8. /\ b.announced /\ h.last = position /\ position \in DOMAIN h.calls
      /\ b.sent \in 0..u.sent[position] /\ h.calls[position] = PiecesSent(position, b.sent)
      /\ b.id = position /\ b.pieces = PiecesSent(position, u.sent[position])
      /\ Len(b.pieces) = u.sent[position]
  <2>1. SentFacts(position, u.sent[position])
    BY <1>4, PiecesFacts
  <2> HIDE DEF h
  <2>2. b.id = position /\ b.pieces = PiecesSent(position, u.sent[position])
    BY <1>2, <1>3 DEF BuffersStand
  <2>3. b.announced /\ h.last = position /\ position \in DOMAIN h.calls
    BY <1>2, <1>3 DEF KiroStands
  <2>4. b.sent \in 0..u.sent[position] /\ h.calls[position] = PiecesSent(position, b.sent)
    BY <1>3, <2>3 DEF KiroStands
  <2> QED
    BY <2>1, <2>2, <2>3, <2>4 DEF SentFacts
<1> HIDE DEF b, new, r, h
<1>9. f \in Frames /\ f.id = position /\ ~f.stop
      /\ h.calls[position] \o f.pieces = PiecesSent(position, u.sent[position])
  <2>1. f = [id |-> position, pieces |-> SubSeq(b.pieces, b.sent + 1, Len(b.pieces)), stop |-> FALSE]
    BY <1>8 DEF Frame
  <2> HIDE DEF f
  <2>2. SentFacts(position, u.sent[position])
    BY <1>4, PiecesFacts
  <2>3. f.pieces = SubSeq(PiecesSent(position, u.sent[position]), b.sent + 1, u.sent[position])
    BY <1>8, <2>1
  <2>4. f.pieces \in Seq(Pieces) /\ position \in Nat
    <3>1. position \in Nat
      BY <1>2, <1>3 DEF BuffersStand
    <3>2. f.pieces \in Seq(Pieces)
      BY <1>8, <2>2, <2>3, Zenon DEF SentFacts
    <3> QED
      BY <3>1, <3>2
  <2>5. f.id = position /\ f.stop = FALSE /\ f \in Frames
    BY <2>1, <2>4, <1>2 DEF Frames
  <2>6. h.calls[position] \o f.pieces = PiecesSent(position, u.sent[position])
    BY <1>8, <2>2, <2>3 DEF SentFacts
  <2> QED
    BY <2>5, <2>6
<1> HIDE DEF f
<1>10. /\ r.frames \in Seq(Frames)
       /\ \/ HearsAll(k, r.frames) = Hears(h, f)
          \/ HearsAll(k, r.frames) = h /\ b.sent = u.sent[position]
  <2>1. CASE b.sent < Len(b.pieces)
    <3>1. r.frames = Append(s.frames, f)
      <4>1. r.frames = s.frames \o <<f>>
        BY <1>7, <2>1
      <4> QED
        BY <1>2, <1>9, <4>1
    <3>2. HearsOneMore(k)
      BY HearsAllFacts
    <3>3. HearsAll(k, Append(s.frames, f)) = Hears(h, f)
      BY <1>2, <1>9, <3>2, Zenon DEF HearsOneMore, h
    <3> QED
      BY <1>2, <1>9, <3>1, <3>3
  <2>2. CASE ~(b.sent < Len(b.pieces))
    <3>1. r.frames = s.frames
      <4>1. r.frames = s.frames \o <<>>
        BY <1>7, <2>2
      <4> QED
        BY <1>2, <4>1
    <3>2. b.sent = u.sent[position]
      BY <1>4, <1>8, <2>2
    <3> QED
      BY <1>2, <3>1, <3>2 DEF h
  <2> QED
    BY <2>1, <2>2
<1>11. r \in Rounds
  <2>1. new \in Seq(Buffers) /\ position \in Nat
    BY <1>2, <1>6 DEF BuffersStand
  <2> QED
    BY <1>2, <1>7, <1>10, <2>1 DEF Rounds, Loops, r, new
<1> DEFINE h2 == HearsAll(k, r.frames)
<1>12. /\ DOMAIN h2.calls = DOMAIN h.calls /\ h2.last = position /\ h2.ended = h.ended
       /\ h2.calls[position] = PiecesSent(position, u.sent[position])
       /\ \A c \in DOMAIN h.calls : c # position => h2.calls[c] = h.calls[c]
  <2>1. AddsToLast(h, f)
    BY <1>2, <1>8, <1>9, HearsOne
  <2>2. CASE h2 = Hears(h, f)
    BY <1>8, <1>9, <2>1, <2>2 DEF AddsToLast
  <2>3. CASE h2 = h /\ b.sent = u.sent[position]
    BY <1>8, <2>3
  <2> QED
    BY <1>10, <2>2, <2>3
<1> HIDE DEF h2, more
<1>13. KiroStands(new, position, h2, u)
  <2>1. \A c \in 1..Len(s.calls) : new[c].announced <=> s.calls[c].announced
    BY <1>6, <1>8 DEF b
  <2>2. DOMAIN h2.calls = {c \in 1..Len(new) : new[c].announced} /\ h2.ended = DOMAIN h2.calls \ {position}
    BY <1>3, <1>6, <1>12, <2>1 DEF KiroStands
  <2>3. ASSUME NEW c \in DOMAIN h2.calls
        PROVE  /\ new[c].sent \in 0..u.sent[c]
               /\ h2.calls[c] = PiecesSent(c, new[c].sent)
               /\ c # position => new[c].sent = u.sent[c] /\ u.sent[c] = PiecesOf[c]
    <3>1. CASE c = position
      BY <1>4, <1>6, <1>12, <3>1
    <3>2. CASE c # position
      BY <1>3, <1>6, <1>12, <2>2, <3>2 DEF KiroStands
    <3> QED
      BY <3>1, <3>2
  <2> QED
    BY <1>2, <1>6, <1>12, <2>2, <2>3 DEF KiroStands
<1>14. Caught(new, position, u)
  BY <1>6 DEF Caught
<1> QED
  BY <1>1, <1>2, <1>6, <1>7, <1>11, <1>13, <1>14 DEF RoundEnds, RoundStands, h2

\* A round while another call streams: it waits for that one's end, or ends it.
LEMMA OthersRound ==
  ASSUME NEW u \in Upstreams, NEW k \in KiroStates, NEW position, NEW s,
         RoundStands(s, position, k, u), s.loop = "on", s.live \notin {0, position}
  PROVE  RoundEnds(AdvanceOnce(position, s), position, k, u)
<1> DEFINE live == s.live
           b == s.calls[live]
           h == HearsAll(k, s.frames)
           f == [id |-> b.id, pieces |-> <<>>, stop |-> TRUE]
           on == [s EXCEPT !.loop = "continued"]
           waits == [s EXCEPT !.loop = "done"]
           freed == [s EXCEPT !.live = 0, !.frames = Append(@, f)]
           r == AdvanceOnce(position, s)
<1>1. \/ r = on \/ r = waits
      \/ MayEnd(b) /\ r = freed
  <2>1. /\ ~(s.loop # "on") /\ ~(s.loop = "on" /\ s.live = position)
        /\ s.loop = "on" /\ s.live \notin {0, position}
    OBVIOUS
  <2> QED
    BY <2>1 DEF AdvanceOnce
<1>2. s \in Rounds /\ position \in 1..Len(s.calls) /\ h \in KiroStates /\ s.frames \in Seq(Frames)
  BY HearsAllFacts DEF RoundStands, HearsOneMore, Rounds
<1>3. BuffersStand(s.calls, u) /\ KiroStands(s.calls, live, h, u) /\ Caught(s.calls, live, u)
  BY DEF RoundStands
<1>4. ASSUME NEW loop \in Loops, r = [s EXCEPT !.loop = loop]
      PROVE  RoundEnds(r, position, k, u)
  <2>1. r.calls = s.calls /\ r.live = s.live /\ r.frames = s.frames /\ r \in Rounds
    BY <1>2, <1>4 DEF Rounds
  <2> HIDE DEF r
  <2> QED
    BY <1>2, <1>3, <2>1 DEF RoundEnds, RoundStands
<1>5. ASSUME MayEnd(b), r = freed
      PROVE  RoundEnds(r, position, k, u)
  <2> HIDE DEF h
  <2>1. live \in 1..Len(s.calls) /\ live # 0 /\ b.announced /\ h.last = live /\ live \in DOMAIN h.calls
    BY <1>2, <1>3 DEF KiroStands, BuffersStand
  <2>2. b \in Buffers /\ live \in ToolUses /\ live \in Nat /\ u.sent[live] \in Nat
    BY <1>3, <2>1 DEF BuffersStand, Upstreams
  <2>3. b.id = live /\ b.pieces = PiecesSent(live, u.sent[live]) /\ b.sent = u.sent[live]
        /\ h.calls[live] = PiecesSent(live, u.sent[live])
    BY <1>3, <2>1 DEF BuffersStand, KiroStands, Caught
  <2>4. SentFacts(live, u.sent[live])
    BY <2>2, PiecesFacts
  <2> HIDE DEF b
  <2>5. u.sent[live] = PiecesOf[live]
    <3>1. b.pieces # <<>> /\ Last(b.pieces)[2] = PiecesOf[Last(b.pieces)[1]]
      BY <1>5 DEF MayEnd, WholeJson
    <3>2. u.sent[live] # 0
      BY <2>3, <2>4, <3>1 DEF SentFacts
    <3>3. Last(b.pieces) = <<live, u.sent[live]>>
      BY <2>3, <2>4, <3>2, Zenon DEF SentFacts
    <3> QED
      BY <3>1, <3>3
  <2>6. f = [id |-> live, pieces |-> <<>>, stop |-> TRUE]
    BY <2>3
  <2>7. f \in Frames /\ f.id = live /\ f.stop /\ f.pieces = <<>>
    <3>1. <<>> \in Seq(Pieces)
      OBVIOUS
    <3> QED
      BY <2>2, <2>6, <3>1 DEF Frames
  <2> HIDE DEF f
  <2>8. r.calls = s.calls /\ r.live = 0 /\ r.frames = Append(s.frames, f) /\ r.loop = s.loop
    BY <1>2, <1>5 DEF Rounds
  <2>9. r \in Rounds
    <3>1. Append(s.frames, f) \in Seq(Frames)
      BY <1>2, <2>7
    <3>2. r = [s EXCEPT !.live = 0, !.frames = Append(s.frames, f)]
      BY <1>5
    <3> HIDE DEF r
    <3> QED
      BY <1>2, <3>1, <3>2 DEF Rounds
  <2> HIDE DEF r
  <2> DEFINE h2 == HearsAll(k, r.frames)
  <2>10. h2 = Hears(h, f)
    <3>1. HearsOneMore(k)
      BY HearsAllFacts
    <3> QED
      BY <1>2, <2>7, <2>8, <3>1, Zenon DEF HearsOneMore, h
  <2>11. AddsToLast(h, f)
    BY <1>2, <2>1, <2>7, HearsOne
  <2>12. /\ DOMAIN h2.calls = DOMAIN h.calls /\ h2.ended = h.ended \cup {live}
         /\ \A c \in DOMAIN h.calls : h2.calls[c] = h.calls[c]
    <3>1. h2.calls[live] = h.calls[live]
      <4>1. h2.calls[live] = h.calls[live] \o <<>>
        BY <2>1, <2>7, <2>10, <2>11 DEF AddsToLast
      <4>2. h.calls[live] \o <<>> = h.calls[live]
        BY <2>3, <2>4, Zenon DEF SentFacts
      <4> QED
        BY <4>1, <4>2, Zenon
    <3> QED
      BY <2>1, <2>7, <2>10, <2>11, <3>1 DEF AddsToLast
  <2> HIDE DEF h2
  <2>13. KiroStands(s.calls, 0, h2, u)
    <3>1. h2.ended = DOMAIN h2.calls \ {0}
      <4>1. 0 \notin DOMAIN h.calls
        BY <1>3 DEF KiroStands
      <4>2. h.ended = DOMAIN h.calls \ {live}
        BY <1>3 DEF KiroStands
      <4> QED
        BY <2>1, <2>12, <4>1, <4>2
    <3>2. ASSUME NEW c \in DOMAIN h2.calls
          PROVE  /\ s.calls[c].sent \in 0..u.sent[c]
                 /\ h2.calls[c] = PiecesSent(c, s.calls[c].sent)
                 /\ s.calls[c].sent = u.sent[c] /\ u.sent[c] = PiecesOf[c]
      <4>1. CASE c = live
        BY <1>3, <2>3, <2>5, <2>12, <4>1 DEF KiroStands, b
      <4>2. CASE c # live
        BY <1>3, <2>12, <4>2 DEF KiroStands
      <4> QED
        BY <4>1, <4>2
    <3>3. 0 \in 0..Len(s.calls)
      BY <1>2 DEF Rounds
    <3> QED
      BY <1>3, <2>12, <3>1, <3>2, <3>3 DEF KiroStands
  <2> QED
    BY <1>2, <1>3, <2>8, <2>9, <2>13 DEF RoundEnds, RoundStands, Caught, h2
<1> QED
  BY <1>1, <1>4, <1>5 DEF Loops

\* A round while none streams: the first that waits begins to, whole.
LEMMA FreeRound ==
  ASSUME NEW u \in Upstreams, NEW k \in KiroStates, NEW position, NEW s,
         RoundStands(s, position, k, u), s.loop = "on", s.live = 0, position # 0
  PROVE  RoundEnds(AdvanceOnce(position, s), position, k, u)
<1> DEFINE waiting == {n \in DOMAIN s.calls :
                         ~s.calls[n].announced /\ s.calls[n].id # 0 /\ s.calls[n].named}
           next == CHOOSE n \in waiting : \A m \in waiting : n <= m
           b == s.calls[next]
           h == HearsAll(k, s.frames)
           f == Frame(b, 0, FALSE)
           new == [s.calls EXCEPT ![next] = SentAll(b)]
           waits == [s EXCEPT !.loop = "done"]
           unheard == [s EXCEPT !.live = next, !.calls[next] = SentAll(@), !.frames = Append(@, f)]
           r == AdvanceOnce(position, s)
<1>1. r = IF waiting = {} THEN waits ELSE unheard
  <2>1. /\ ~(s.loop # "on") /\ ~(s.loop = "on" /\ s.live = position)
        /\ ~(s.loop = "on" /\ s.live \notin {0, position}) /\ s.loop = "on" /\ s.live = 0
    OBVIOUS
  <2> QED
    BY <2>1 DEF AdvanceOnce
<1>2. s \in Rounds /\ position \in 1..Len(s.calls) /\ h \in KiroStates /\ s.frames \in Seq(Frames)
  BY HearsAllFacts DEF RoundStands, HearsOneMore, Rounds
<1>3. BuffersStand(s.calls, u) /\ KiroStands(s.calls, 0, h, u)
  BY DEF RoundStands
<1>4. CASE waiting = {}
  <2> HIDE DEF waiting, h
  <2>1. r = waits
    BY <1>1, <1>4
  <2>2. r.calls = s.calls /\ r.live = 0 /\ r.frames = s.frames /\ r \in Rounds
    BY <1>2, <2>1 DEF Rounds, Loops
  <2> HIDE DEF r
  <2> QED
    BY <1>2, <1>3, <2>2 DEF RoundEnds, RoundStands, Caught, h, r
<1>5. CASE waiting # {}
  <2>1. Len(s.calls) \in Nat /\ waiting \in SUBSET (1..Len(s.calls))
    BY <1>2 DEF Rounds
  <2>2. next \in waiting
    <3>1. \E n \in waiting : \A m \in waiting : n <= m
      BY <1>5, <2>1, FirstOfSet
    <3> QED
      BY <3>1
  <2>3. next \in 1..Len(s.calls) /\ ~b.announced
    BY <2>1, <2>2
  <2>4. r = unheard
    BY <1>1, <1>5
  <2> HIDE DEF waiting, next, h
  <2>5. b \in Buffers /\ next \in ToolUses /\ next \in Nat /\ next # 0 /\ u.sent[next] \in Nat
    BY <1>3, <2>3 DEF BuffersStand, Upstreams
  <2>6. SentOn(s.calls, next, u)
    BY <1>3, <2>3, SentAllKeeps
  <2>7. BuffersStand(new, u) /\ Len(new) = Len(s.calls) /\ new[next].announced
        /\ new[next].sent = u.sent[next]
        /\ \A c \in 1..Len(s.calls) : c # next => new[c] = s.calls[c]
    BY <2>6 DEF SentOn
  <2>8. b.id = next /\ b.pieces = PiecesSent(next, u.sent[next])
    BY <1>3, <2>3 DEF BuffersStand
  <2>9. SentFacts(next, u.sent[next])
    BY <2>5, PiecesFacts
  <2>10. f \in Frames /\ f.id = next /\ ~f.stop /\ f.pieces = PiecesSent(next, u.sent[next])
    <3>1. f = [id |-> b.id, pieces |-> SubSeq(b.pieces, 0 + 1, Len(b.pieces)), stop |-> FALSE]
      BY DEF Frame
    <3> HIDE DEF f, b
    <3>2. f.pieces = SubSeq(PiecesSent(next, u.sent[next]), 1, u.sent[next])
      BY <2>8, <2>9, <3>1 DEF SentFacts
    <3>3. f.pieces = PiecesSent(next, u.sent[next]) /\ PiecesSent(next, u.sent[next]) \in Seq(Pieces)
      BY <2>9, <3>2 DEF SentFacts
    <3> QED
      BY <2>5, <2>8, <3>1, <3>3 DEF Frames
  <2> HIDE DEF f, b
  <2>11. /\ r.calls = new /\ r.live = next /\ r.frames = Append(s.frames, f)
    <3>1. r = [s EXCEPT !.live = next, !.calls = new, !.frames = Append(s.frames, f)]
      BY <1>2, <2>3, <2>4 DEF b, Rounds
    <3> HIDE DEF new, r
    <3> QED
      BY <1>2, <3>1 DEF Rounds
  <2>12. r \in Rounds
    <3>1. Append(s.frames, f) \in Seq(Frames) /\ new \in Seq(Buffers)
      BY <1>2, <2>7, <2>10 DEF BuffersStand
    <3>2. r = [s EXCEPT !.live = next, !.calls = new, !.frames = Append(s.frames, f)]
      BY <1>2, <2>3, <2>4 DEF b, Rounds
    <3> HIDE DEF r, new
    <3> QED
      BY <1>2, <2>5, <3>1, <3>2 DEF Rounds
  <2> HIDE DEF r, new
  <2> DEFINE h2 == HearsAll(k, r.frames)
  <2>13. next \notin DOMAIN h.calls /\ 0 \notin DOMAIN h.calls
    BY <1>3, <2>3 DEF KiroStands, b
  <2>14. OpensCall(h, f) /\ h2 = Hears(h, f)
    <3>1. HearsOneMore(k)
      BY HearsAllFacts
    <3>2. h2 = Hears(h, f)
      BY <1>2, <2>10, <2>11, <3>1, Zenon DEF HearsOneMore, h
    <3> QED
      BY <1>2, <2>10, <2>13, <3>2, HearsOne
  <2>15. /\ h2.last = next /\ DOMAIN h2.calls = DOMAIN h.calls \cup {next} /\ h2.ended = h.ended
         /\ h2.calls[next] = PiecesSent(next, u.sent[next])
         /\ \A c \in DOMAIN h.calls : h2.calls[c] = h.calls[c]
    BY <2>10, <2>14 DEF OpensCall
  <2> HIDE DEF h2
  <2>16. KiroStands(new, next, h2, u)
    <3>1. h2.ended = DOMAIN h2.calls \ {next}
      BY <1>3, <2>13, <2>15 DEF KiroStands
    <3>2. DOMAIN h2.calls = {c \in 1..Len(new) : new[c].announced}
      BY <1>3, <2>3, <2>7, <2>15 DEF KiroStands
    <3>3. ASSUME NEW c \in DOMAIN h2.calls
          PROVE  /\ new[c].sent \in 0..u.sent[c]
                 /\ h2.calls[c] = PiecesSent(c, new[c].sent)
                 /\ c # next => new[c].sent = u.sent[c] /\ u.sent[c] = PiecesOf[c]
      <4>1. CASE c = next
        BY <2>5, <2>7, <2>15, <4>1
      <4>2. CASE c # next
        <5>1. c \in DOMAIN h.calls /\ c # 0 /\ c \in 1..Len(s.calls)
          BY <1>3, <2>13, <2>15, <4>2 DEF KiroStands
        <5>2. new[c] = s.calls[c] /\ h2.calls[c] = h.calls[c]
          BY <2>7, <2>15, <4>2, <5>1
        <5> QED
          BY <1>3, <5>1, <5>2 DEF KiroStands
      <4> QED
        BY <4>1, <4>2
    <3>4. next \in 0..Len(new) /\ next # 0 /\ new[next].announced /\ h2.last = next
      BY <2>3, <2>5, <2>7, <2>15
    <3> QED
      BY <3>1, <3>2, <3>3, <3>4 DEF KiroStands
  <2> QED
    BY <1>2, <2>7, <2>11, <2>12, <2>16 DEF RoundEnds, RoundStands, Caught, h2, r
<1> QED
  BY <1>4, <1>5

\* Every round leaves everything standing, and what streams sent on.
LEMMA RoundKeeps ==
  ASSUME NEW u \in Upstreams, NEW k \in KiroStates, NEW position, NEW s,
         RoundStands(s, position, k, u)
  PROVE  RoundEnds(AdvanceOnce(position, s), position, k, u)
<1>1. CASE s.loop # "on"
  <2>1. AdvanceOnce(position, s) = s
    BY <1>1 DEF AdvanceOnce
  <2> QED
    BY <1>1, <2>1 DEF RoundEnds, RoundStands
<1>2. position # 0
  BY DEF RoundStands
<1> QED
  BY <1>1, <1>2, OwnRound, OthersRound, FreeRound

AdvancePeels(g, b, s, position) ==
  g = [t \in SUBSET DOMAIN s |->
         IF t = {} THEN b ELSE AdvanceOnce(position, g[t \ {Max(t)}])]

Starting(calls, live) == [calls |-> calls, live |-> live, frames |-> <<>>, loop |-> "on"]

\* Whatever a piece leaves to be told, advance tells it: after its rounds everything stands
\* and what streams is sent on.
LEMMA AdvanceKeeps ==
  ASSUME NEW u \in Upstreams, NEW k \in KiroStates, NEW calls, NEW live, NEW position,
         RoundStands(Starting(calls, live), position, k, u)
  PROVE  RoundEnds(Advance(calls, live, position), position, k, u)
<1> DEFINE b == Starting(calls, live)
           A == {s \in Rounds : RoundStands(s, position, k, u)}
           F == [p \in A \X Nat |-> AdvanceOnce(position, p[1])]
           n == 2 * Len(calls) + 2
           s == [i \in 1..n |-> i]
           h == CHOOSE g : AdvancePeels(g, b, s, position)
<1>1. Advance(calls, live, position) = h[DOMAIN s]
  BY DEF Advance, FoldLeft, MapThenFoldSet, AdvancePeels, Starting
<1>2. b \in A /\ n \in Nat /\ n \in 1..n /\ n - 1 \in 0..n
  <2>1. b \in Rounds /\ b.calls = calls
    BY DEF RoundStands, Starting
  <2>2. Len(calls) \in Nat
    BY <2>1 DEF Rounds
  <2> QED
    BY <2>1, <2>2
<1>3. s \in Seq(Nat) /\ Len(s) = n /\ DOMAIN s = 1..n /\ \A i \in 1..n : s[i] \in Nat
  BY <1>2
<1>4. /\ F \in [A \X Nat -> A]
      /\ \A a \in A, e \in Nat : F[<<a, e>>] = AdvanceOnce(position, a)
      /\ \A a \in A : RoundEnds(AdvanceOnce(position, a), position, k, u)
  <2>1. ASSUME NEW a \in A
        PROVE  AdvanceOnce(position, a) \in A /\ RoundEnds(AdvanceOnce(position, a), position, k, u)
    <3>1. RoundEnds(AdvanceOnce(position, a), position, k, u)
      BY RoundKeeps
    <3> QED
      BY <3>1 DEF RoundEnds, RoundStands
  <2> HIDE DEF A
  <2> QED
    BY <2>1
<1> HIDE DEF A, F, b, s, n
<1>5. \E g : AdvancePeels(g, b, s, position)
  <2>1. PICK g \in [SUBSET (1 .. Len(s)) -> A] : PeelsLast(g, F, b, s)
    BY <1>2, <1>3, <1>4, PeelingExists
  <2>2. ASSUME NEW t \in SUBSET (1 .. n)
        PROVE  g[t] = IF t = {} THEN b ELSE AdvanceOnce(position, g[t \ {Max(t)}])
    <3>1. CASE t = {}
      BY <1>3, <2>1, <3>1 DEF PeelsLast
    <3>2. CASE t # {}
      <4>1. Max(t) \in 1 .. n
        BY <1>2, <3>2, LastOfSet
      <4>2. g[t] = F[<<g[t \ {Max(t)}], s[Max(t)]>>]
        BY <1>3, <2>1, <3>2 DEF PeelsLast
      <4>3. g[t \ {Max(t)}] \in A /\ s[Max(t)] \in Nat
        BY <1>3, <2>1, <4>1
      <4> QED
        BY <1>4, <3>2, <4>2, <4>3
    <3> QED
      BY <3>1, <3>2
  <2> QED
    BY <1>3, <2>1, <2>2 DEF AdvancePeels
<1>6. AdvancePeels(h, b, s, position)
  BY <1>5
<1> HIDE DEF h
<1>7. h[{}] = b
  BY <1>3, <1>6 DEF AdvancePeels
<1>8. ASSUME NEW t \in SUBSET (1 .. Len(s)), t # {}, h[t \ {Max(t)}] \in A
      PROVE  h[t] = F[<<h[t \ {Max(t)}], s[Max(t)]>>]
  <2>1. s[Max(t)] \in Nat
    BY <1>2, <1>3, <1>8, LastOfSet
  <2>2. h[t] = AdvanceOnce(position, h[t \ {Max(t)}])
    BY <1>3, <1>6, <1>8 DEF AdvancePeels
  <2> QED
    BY <1>4, <1>8, <2>1, <2>2
<1>9. PeelsWithin(h, F, b, s, A, Nat)
  BY <1>3, <1>7, <1>8 DEF PeelsWithin
<1>10. EndsAs(h, F, b, s)
  BY <1>2, <1>4, <1>9, PeelingIsFold
<1> DEFINE g == FoldAlong(F, b, s, 1..n)
<1>11. FoldsAlong(g, F, b, s, 1..n) /\ h[1..n] = g[n]
  BY <1>2, <1>3, <1>10, FoldAlongExists DEF EndsAs, Folded
<1> HIDE DEF g
<1>12. g[n - 1] \in A
  <2>1. \A j \in 0..Len(s) : g[j] \in A
    BY <1>2, <1>3, <1>4, <1>11, FoldAlongType
  <2> QED
    BY <1>2, <1>3, <2>1
<1>13. g[n] = AdvanceOnce(position, g[n - 1])
  <2>1. g[n] = F[<<g[n - 1], s[n]>>]
    BY <1>2, <1>3, <1>11 DEF FoldsAlong
  <2> QED
    BY <1>2, <1>3, <1>4, <1>12, <2>1
<1> QED
  BY <1>1, <1>3, <1>4, <1>11, <1>12, <1>13

EndPeels(g, b, s) ==
  g = [t \in SUBSET DOMAIN s |->
         IF t = {} THEN b
         ELSE IF s[Max(t)].announced THEN g[t \ {Max(t)}]
              ELSE Append(g[t \ {Max(t)}], Frame(s[Max(t)], 0, TRUE))]

Ending ==
  [p \in Seq(Frames) \X Buffers |->
     IF p[2].announced THEN p[1] ELSE Append(p[1], Frame(p[2], 0, TRUE))]

EndsAlong(g, b, s) ==
  /\ g[0] = b
  /\ \A j \in 0..Len(s) : g[j] \in Seq(Frames)
  /\ \A j \in 1..Len(s) :
       g[j] = IF s[j].announced THEN g[j - 1] ELSE Append(g[j - 1], Frame(s[j], 0, TRUE))

\* The frames that end an answer's calls, one call after another.
LEMMA EndingAlong ==
  ASSUME NEW b \in Seq(Frames), NEW s \in Seq(Buffers)
  PROVE  \E g : /\ EndsAlong(g, b, s)
                /\ FoldLeft(LAMBDA frames, c : IF c.announced THEN frames
                                               ELSE Append(frames, Frame(c, 0, TRUE)), b, s)
                     = g[Len(s)]
<1> DEFINE h == CHOOSE g : EndPeels(g, b, s)
           x == FoldLeft(LAMBDA frames, c : IF c.announced THEN frames
                                            ELSE Append(frames, Frame(c, 0, TRUE)), b, s)
           F == Ending
<1>1. x = h[DOMAIN s]
  BY DEF FoldLeft, MapThenFoldSet, EndPeels
<1>2. DOMAIN s = 1..Len(s) /\ Len(s) \in Nat /\ \A i \in 1..Len(s) : s[i] \in Buffers
  OBVIOUS
<1>3. ASSUME NEW c \in Buffers PROVE Frame(c, 0, TRUE) \in Frames
  <2>1. c.id \in Nat /\ c.pieces \in Seq(Pieces)
    BY DEF Buffers
  <2>2. SubSeq(c.pieces, 0 + 1, Len(c.pieces)) \in Seq(Pieces)
    BY <2>1
  <2> QED
    BY <2>1, <2>2 DEF Frame, Frames
<1>4. /\ F \in [Seq(Frames) \X Buffers -> Seq(Frames)]
      /\ \A a \in Seq(Frames), c \in Buffers :
           F[<<a, c>>] = IF c.announced THEN a ELSE Append(a, Frame(c, 0, TRUE))
  <2>1. ASSUME NEW a \in Seq(Frames), NEW c \in Buffers
        PROVE  (IF c.announced THEN a ELSE Append(a, Frame(c, 0, TRUE))) \in Seq(Frames)
    <3> DEFINE f == Frame(c, 0, TRUE)
    <3>1. f \in Frames
      BY <1>3
    <3> HIDE DEF f
    <3>2. Append(a, f) \in Seq(Frames)
      BY <3>1
    <3> QED
      BY <3>2 DEF f
  <2> QED
    BY <2>1 DEF Ending
<1> HIDE DEF F, x
<1>5. \E g : EndPeels(g, b, s)
  <2>1. PICK g \in [SUBSET (1 .. Len(s)) -> Seq(Frames)] : PeelsLast(g, F, b, s)
    BY <1>4, PeelingExists
  <2>2. ASSUME NEW t \in SUBSET (1 .. Len(s))
        PROVE  g[t] = IF t = {} THEN b
                      ELSE IF s[Max(t)].announced THEN g[t \ {Max(t)}]
                           ELSE Append(g[t \ {Max(t)}], Frame(s[Max(t)], 0, TRUE))
    <3>1. CASE t = {}
      BY <2>1, <3>1 DEF PeelsLast
    <3>2. CASE t # {}
      <4>1. Max(t) \in 1 .. Len(s)
        BY <1>2, <3>2, LastOfSet
      <4>2. g[t] = F[<<g[t \ {Max(t)}], s[Max(t)]>>]
        BY <2>1, <3>2 DEF PeelsLast
      <4>3. g[t \ {Max(t)}] \in Seq(Frames) /\ s[Max(t)] \in Buffers
        BY <1>2, <2>1, <4>1
      <4> QED
        BY <1>4, <3>2, <4>2, <4>3
    <3> QED
      BY <3>1, <3>2
  <2> QED
    BY <1>2, <2>1, <2>2 DEF EndPeels
<1>6. EndPeels(h, b, s)
  BY <1>5
<1> HIDE DEF h
<1>7. h[{}] = b
  BY <1>2, <1>6 DEF EndPeels
<1>8. ASSUME NEW t \in SUBSET (1 .. Len(s)), t # {}, h[t \ {Max(t)}] \in Seq(Frames)
      PROVE  h[t] = F[<<h[t \ {Max(t)}], s[Max(t)]>>]
  <2>1. s[Max(t)] \in Buffers
    BY <1>2, <1>8, LastOfSet
  <2>2. h[t] = IF s[Max(t)].announced THEN h[t \ {Max(t)}]
               ELSE Append(h[t \ {Max(t)}], Frame(s[Max(t)], 0, TRUE))
    BY <1>2, <1>6, <1>8 DEF EndPeels
  <2> QED
    BY <1>4, <1>8, <2>1, <2>2
<1>9. PeelsWithin(h, F, b, s, Seq(Frames), Buffers)
  BY <1>7, <1>8 DEF PeelsWithin
<1>10. EndsAs(h, F, b, s)
  BY <1>4, <1>9, PeelingIsFold
<1> DEFINE g == FoldAlong(F, b, s, 1..Len(s))
<1>11. FoldsAlong(g, F, b, s, 1..Len(s)) /\ h[1..Len(s)] = g[Len(s)]
  BY <1>2, <1>10, FoldAlongExists DEF EndsAs, Folded
<1> HIDE DEF g
<1>12. \A j \in 0..Len(s) : g[j] \in Seq(Frames)
  BY <1>2, <1>4, <1>11, FoldAlongType
<1>13. ASSUME NEW j \in 1..Len(s)
       PROVE  g[j] = IF s[j].announced THEN g[j - 1] ELSE Append(g[j - 1], Frame(s[j], 0, TRUE))
  <2>1. g[j] = F[<<g[j - 1], s[j]>>]
    BY <1>2, <1>11 DEF FoldsAlong
  <2>2. g[j - 1] \in Seq(Frames) /\ s[j] \in Buffers
    BY <1>2, <1>12
  <2> QED
    BY <1>4, <2>1, <2>2
<1>14. EndsAlong(g, b, s)
  BY <1>11, <1>12, <1>13 DEF EndsAlong, FoldsAlong
<1> QED
  BY <1>1, <1>2, <1>11, <1>14 DEF x

\* What Kiro knows when an answer's calls have been ended up to the jth.
EndedUpTo(k, calls, u, j) ==
  /\ k \in KiroStates
  /\ DOMAIN k.calls = {c \in 1..Len(calls) : calls[c].announced \/ c <= j}
  /\ k.ended = DOMAIN k.calls
  /\ \A c \in DOMAIN k.calls : k.calls[c] = PiecesSent(c, u.sent[c])

\* At its explicit end an answer's calls all reach Kiro, ended and whole.
LEMMA FinishTellsAll ==
  ASSUME upstream \in Upstreams, kiro \in KiroStates, BuffersStand(tools.calls, upstream),
         KiroStands(tools.calls, tools.live, kiro, upstream),
         Caught(tools.calls, tools.live, upstream)
  PROVE  EndedUpTo(HearsAll(kiro, FinishCalls), tools.calls, upstream, Len(tools.calls))
<1> DEFINE s == tools.calls  live == tools.live  u == upstream  n == Len(s)
           e == [id |-> s[live].id, pieces |-> <<>>, stop |-> TRUE]
           b == IF live = 0 THEN <<>> ELSE <<e>>
<1>1. s \in Seq(Buffers) /\ n \in Nat /\ live \in 0..n
  BY DEF BuffersStand, KiroStands
<1>2. \A c \in 1..n : /\ c \in ToolUses /\ c \in Nat /\ u.sent[c] \in Nat /\ s[c].id = c
                      /\ s[c].pieces = PiecesSent(c, u.sent[c]) /\ SentFacts(c, u.sent[c])
  BY PiecesFacts DEF BuffersStand, Upstreams
<1>3. HearsOneMore(kiro)
  BY HearsAllFacts
<1> HIDE DEF u, s, live, n
<1>4. b \in Seq(Frames) /\ EndedUpTo(HearsAll(kiro, b), s, u, 0)
  <2>1. CASE live = 0
    <3>1. b = <<>> /\ b \in Seq(Frames) /\ HearsAll(kiro, b) = kiro
      BY <1>3, <2>1 DEF HearsOneMore
    <3> HIDE DEF b
    <3>2. KiroStands(s, 0, kiro, u)
      BY <2>1 DEF s, live, u
    <3>3. \A c \in 1..n : (s[c].announced \/ c <= 0) <=> s[c].announced
      BY <1>1
    <3>4. EndedUpTo(kiro, s, u, 0)
      BY <1>1, <3>2, <3>3 DEF KiroStands, EndedUpTo, n
    <3> QED
      BY <3>1, <3>4
  <2>2. CASE live # 0
    <3> DEFINE h == Hears(kiro, e)
    <3>1. live \in 1..n /\ e \in Frames /\ e.id = live /\ e.stop /\ e.pieces = <<>>
      <4>1. live \in 1..n
        BY <1>1, <2>2
      <4>2. <<>> \in Seq(Pieces)
        OBVIOUS
      <4> QED
        BY <1>2, <4>1, <4>2 DEF Frames
    <3>2. b = <<e>>
      BY <2>2
    <3> HIDE DEF e, b
    <3>3. b = Append(<<>>, e) /\ b \in Seq(Frames) /\ <<>> \in Seq(Frames)
      BY <3>1, <3>2
    <3>4. HearsAll(kiro, b) = h
      BY <1>3, <3>1, <3>3 DEF HearsOneMore
    <3>5. KiroStands(s, live, kiro, u) /\ Caught(s, live, u)
      BY DEF s, live, u
    <3>6. kiro.last = live /\ live \in DOMAIN kiro.calls
      BY <2>2, <3>1, <3>5 DEF KiroStands, n
    <3>7. AddsToLast(kiro, e)
      BY <3>1, <3>6, HearsOne
    <3>8. h \in KiroStates
      BY <3>1, HearsFacts
    <3> HIDE DEF h
    <3>9. /\ DOMAIN h.calls = DOMAIN kiro.calls /\ h.ended = DOMAIN h.calls
          /\ \A c \in DOMAIN kiro.calls : c # live => h.calls[c] = kiro.calls[c]
          /\ h.calls[live] = kiro.calls[live] \o <<>>
      BY <3>1, <3>5, <3>6, <3>7 DEF AddsToLast, KiroStands, h
    <3>10. h.calls[live] = PiecesSent(live, u.sent[live])
      <4>1. kiro.calls[live] = PiecesSent(live, u.sent[live])
        BY <2>2, <3>5, <3>6 DEF KiroStands, Caught
      <4> QED
        BY <1>2, <3>1, <3>9, <4>1 DEF SentFacts
    <3>11. \A c \in DOMAIN h.calls : h.calls[c] = PiecesSent(c, u.sent[c])
      BY <3>5, <3>9, <3>10 DEF KiroStands
    <3>12. DOMAIN h.calls = {c \in 1..n : s[c].announced}
      BY <3>5, <3>9 DEF KiroStands, n
    <3>13. \A c \in 1..n : (s[c].announced \/ c <= 0) <=> s[c].announced
      BY <1>1
    <3>14. EndedUpTo(h, s, u, 0)
      BY <3>8, <3>9, <3>11, <3>12, <3>13 DEF EndedUpTo, n
    <3> QED
      BY <3>3, <3>4, <3>14
  <2> QED
    BY <2>1, <2>2
<1>5. PICK g : EndsAlong(g, b, s) /\ FinishCalls = g[n]
  <2>1. FinishCalls = FoldLeft(LAMBDA frames, c : IF c.announced THEN frames
                                                  ELSE Append(frames, Frame(c, 0, TRUE)), b, s)
    BY DEF FinishCalls, s, live
  <2> HIDE DEF b
  <2> QED
    BY <1>1, <1>4, <2>1, EndingAlong DEF n
<1> HIDE DEF b
<1> DEFINE Good == {j \in 0..n : EndedUpTo(HearsAll(kiro, g[j]), s, u, j)}
<1>6. 0 \in Good
  BY <1>1, <1>4, <1>5 DEF EndsAlong
<1>7. ASSUME NEW j \in 1..n, j - 1 \in Good PROVE j \in Good
  <2> DEFINE k == HearsAll(kiro, g[j - 1])  f == Frame(s[j], 0, TRUE)  h == Hears(k, f)
  <2>1. EndedUpTo(k, s, u, j - 1) /\ k \in KiroStates
    BY <1>7 DEF EndedUpTo
  <2>2. /\ g[j - 1] \in Seq(Frames)
        /\ g[j] = IF s[j].announced THEN g[j - 1] ELSE Append(g[j - 1], f)
    <3>1. j - 1 \in 0..Len(s) /\ j \in 1..Len(s)
      BY <1>1 DEF n
    <3> QED
      BY <1>5, <3>1 DEF EndsAlong
  <2> HIDE DEF k
  <2>3. CASE s[j].announced
    <3>1. HearsAll(kiro, g[j]) = k
      BY <2>2, <2>3 DEF k
    <3>2. \A c \in 1..n : (s[c].announced \/ c <= j - 1) <=> (s[c].announced \/ c <= j)
      BY <1>1, <2>3
    <3>3. EndedUpTo(k, s, u, j)
      BY <2>1, <3>2 DEF EndedUpTo, n
    <3> QED
      BY <3>1, <3>3
  <2>4. CASE ~s[j].announced
    <3>1. f.id = j /\ f.stop = TRUE /\ f.pieces = PiecesSent(j, u.sent[j]) /\ f \in Frames
      <4>1. f = [id |-> j, pieces |-> SubSeq(s[j].pieces, 0 + 1, Len(s[j].pieces)), stop |-> TRUE]
        BY <1>2 DEF Frame
      <4> HIDE DEF f
      <4>2. f.pieces = SubSeq(PiecesSent(j, u.sent[j]), 1, u.sent[j])
        <5>1. s[j].pieces = PiecesSent(j, u.sent[j]) /\ Len(PiecesSent(j, u.sent[j])) = u.sent[j]
          BY <1>2, Zenon DEF SentFacts
        <5>2. f.pieces = SubSeq(s[j].pieces, 1, Len(s[j].pieces))
          BY <4>1
        <5> QED
          BY <5>1, <5>2
      <4>3. f.pieces = PiecesSent(j, u.sent[j]) /\ PiecesSent(j, u.sent[j]) \in Seq(Pieces)
        BY <1>2, <4>2 DEF SentFacts
      <4> QED
        BY <1>2, <4>1, <4>3 DEF Frames
    <3> HIDE DEF f
    <3>2. HearsAll(kiro, g[j]) = h
      BY <1>3, <2>2, <2>4, <3>1 DEF HearsOneMore, k
    <3>3. j \notin DOMAIN k.calls
      BY <2>1, <2>4 DEF EndedUpTo
    <3>4. OpensCall(k, f) /\ h \in KiroStates
      BY <2>1, <3>1, <3>3, HearsOne, HearsFacts
    <3> HIDE DEF h
    <3>5. /\ DOMAIN h.calls = DOMAIN k.calls \cup {j} /\ h.ended = k.ended \cup {j}
          /\ h.calls[j] = PiecesSent(j, u.sent[j])
          /\ \A c \in DOMAIN k.calls : h.calls[c] = k.calls[c]
      BY <3>1, <3>4 DEF OpensCall, h
    <3>6. DOMAIN h.calls = {c \in 1..n : s[c].announced \/ c <= j}
      <4>1. \A c \in 1..n : (s[c].announced \/ c <= j) <=> (s[c].announced \/ c <= j - 1 \/ c = j)
        BY <1>1
      <4> QED
        BY <2>1, <3>5, <4>1 DEF EndedUpTo, n
    <3>7. h.ended = DOMAIN h.calls /\ \A c \in DOMAIN h.calls : h.calls[c] = PiecesSent(c, u.sent[c])
      BY <2>1, <3>5 DEF EndedUpTo
    <3>8. EndedUpTo(h, s, u, j)
      BY <3>4, <3>6, <3>7 DEF EndedUpTo, n
    <3> QED
      BY <3>2, <3>8
  <2> QED
    BY <2>3, <2>4
<1>8. Good \in SUBSET (0..n)
  OBVIOUS
<1> HIDE DEF Good
<1>9. n \in Good
  BY <1>1, <1>6, <1>7, <1>8, CountingUp
<1> QED
  BY <1>5, <1>9 DEF Good, s, u, n

\* What stands between the steps of an open answer is what Kiro is promised.
LEMMA StandsWhole ==
  ASSUME NEW u \in Upstreams, NEW calls, NEW live, NEW k,
         BuffersStand(calls, u), KiroStands(calls, live, k, u)
  PROVE  \A c \in DOMAIN k.calls :
           /\ k.calls[c] = PiecesSent(c, Len(k.calls[c]))
           /\ c \in k.ended => Len(k.calls[c]) = u.sent[c]
<1> SUFFICES ASSUME NEW c \in DOMAIN k.calls
             PROVE  /\ k.calls[c] = PiecesSent(c, Len(k.calls[c]))
                    /\ c \in k.ended => Len(k.calls[c]) = u.sent[c]
  OBVIOUS
<1>1. c \in ToolUses /\ u.sent[c] \in Nat
  BY DEF KiroStands, BuffersStand, Upstreams
<1>2. calls[c].sent \in 0..u.sent[c] /\ k.calls[c] = PiecesSent(c, calls[c].sent)
  BY DEF KiroStands
<1>3. SentFacts(c, calls[c].sent)
  BY <1>1, <1>2, PiecesFacts
<1>4. Len(k.calls[c]) = calls[c].sent
  BY <1>2, <1>3 DEF SentFacts
<1>5. c \in k.ended => calls[c].sent = u.sent[c]
  BY DEF KiroStands
<1> QED
  BY <1>2, <1>4, <1>5

\* The upstream's next piece of call c, as Fragment tells it.
Speaks(c, size, again) ==
  /\ size \in {0, 1}
  /\ \A d \in ToolUses : d < c => d \in upstream.begun
  /\ upstream.dialect # "plain" \/ (size = 0 /\ again) \/ \A d \in upstream.begun : d <= c
  /\ upstream.sent[c] + size <= PiecesOf[c]

IdOf(c, again) ==
  IF c \notin upstream.begun \/ again \/ upstream.dialect = "named" THEN c ELSE 0

Finds(c, again) ==
  /\ c \in Nat \ {0}
  /\ c \notin upstream.begun =>
       Find(IndexOf(c, upstream), IdOf(c, again)) = 0 /\ c = Len(tools.calls) + 1
  /\ c \in upstream.begun =>
       Find(IndexOf(c, upstream), IdOf(c, again)) = c /\ c \in 1..Len(tools.calls)

\* A piece is put to the call it is of, in every dialect, whatever else is under way.
LEMMA FindsCall ==
  ASSUME upstream \in Upstreams, BuffersStand(tools.calls, upstream),
         NEW c \in ToolUses, NEW size, NEW again \in BOOLEAN, Speaks(c, size, again)
  PROVE  Finds(c, again)
<1> DEFINE calls == tools.calls  n == Len(calls)
           index == IndexOf(c, upstream)  id == IdOf(c, again)
           byIndex == {m \in DOMAIN calls : calls[m].index = index}
           byId == {m \in DOMAIN calls : calls[m].id = id}
<1>1. calls \in Seq(Buffers) /\ n \in Nat /\ DOMAIN calls = 1..n /\ upstream.begun = 1..n
  BY DEF BuffersStand
<1>2. \A m \in 1..n : calls[m].id = m /\ calls[m].index = IndexOf(m, upstream) /\ m # 0
  BY DEF BuffersStand
<1>3. c \in Nat \ {0} /\ 1..c \subseteq ToolUses
  BY AnswerAssumption
<1>4. c \notin upstream.begun => c = n + 1
  <2> SUFFICES ASSUME c \notin 1..n PROVE c = n + 1
    BY <1>1
  <2>1. c > n
    BY <1>1, <1>3
  <2>2. ASSUME c # n + 1 PROVE FALSE
    <3>1. n + 1 \in 1..c /\ n + 1 < c
      BY <1>1, <1>3, <2>1, <2>2
    <3>2. n + 1 \in 1..n
      BY <1>1, <1>3, <3>1 DEF Speaks
    <3> QED
      BY <1>1, <3>2
  <2> QED
    BY <2>2
<1>5. Find(index, id) =
        IF index # 0
        THEN IF byIndex = {} THEN 0 ELSE CHOOSE m \in byIndex : \A j \in byIndex : m <= j
        ELSE IF id # 0
        THEN IF byId = {} THEN 0 ELSE CHOOSE m \in byId : \A j \in byId : m <= j
        ELSE n
  BY DEF Find, FirstWith
<1>6. index # 0 => index = c /\ byIndex = {m \in 1..n : m = c}
  BY <1>1, <1>2, <1>3 DEF IndexOf
<1>7. id # 0 => id = c /\ byId = {m \in 1..n : m = c}
  BY <1>1, <1>2, <1>3 DEF IdOf
<1>8. index = 0 /\ id = 0 => c \in upstream.begun /\ c = n
  <2> SUFFICES ASSUME index = 0, id = 0 PROVE c \in upstream.begun /\ c = n
    OBVIOUS
  <2>1. c \in upstream.begun /\ ~again /\ upstream.dialect # "named"
    BY <1>3 DEF IdOf
  <2>2. upstream.dialect \notin {"anthropic", "indexed"}
    BY <1>3 DEF IndexOf
  <2>3. upstream.dialect \in DialectsKnown
    BY AnswerAssumption DEF Upstreams
  <2>4. upstream.dialect = "plain"
    BY <2>1, <2>2, <2>3 DEF DialectsKnown
  <2>5. \A d \in 1..n : d <= c
    BY <1>1, <2>1, <2>4 DEF Speaks
  <2> QED
    BY <1>1, <2>1, <2>5
<1> HIDE DEF index, id, byIndex, byId, n, calls
<1>9. CASE c \notin upstream.begun
  <2>1. {m \in 1..n : m = c} = {}
    BY <1>1, <1>9
  <2>2. Find(index, id) = 0
    BY <1>5, <1>6, <1>7, <1>8, <1>9, <2>1
  <2> QED
    BY <1>3, <1>4, <1>9, <2>2 DEF Finds, index, id, n, calls
<1>10. CASE c \in upstream.begun
  <2>1. c \in 1..n /\ {m \in 1..n : m = c} = {c} /\ c \in Nat
    BY <1>1, <1>3, <1>10
  <2>2. (CHOOSE m \in {c} : \A j \in {c} : m <= j) = c
    BY <2>1
  <2>3. Find(index, id) = c
    <3>1. CASE index # 0
      BY <1>5, <1>6, <2>1, <2>2, <3>1
    <3>2. CASE index = 0 /\ id # 0
      BY <1>5, <1>7, <2>1, <2>2, <3>2
    <3>3. CASE index = 0 /\ id = 0
      BY <1>5, <1>8, <3>3
    <3> QED
      BY <3>1, <3>2, <3>3
  <2> QED
    BY <1>3, <1>10, <2>1, <2>3 DEF Finds, index, id, n, calls
<1> QED
  BY <1>9, <1>10

Piece(c, size) == IF size = 1 THEN <<<<c, upstream.sent[c] + 1>>>> ELSE <<>>

SpokenUpstream(c, size) ==
  [upstream EXCEPT !.sent[c] = @ + Len(Piece(c, size)), !.begun = @ \cup {c}]

Updated(c, size) ==
  LET u == SpokenUpstream(c, size) IN
  /\ u \in Upstreams /\ u.dialect = upstream.dialect /\ u.begun = upstream.begun \cup {c}
  /\ u.restated = upstream.restated
  /\ u.sent = [upstream.sent EXCEPT ![c] = @ + size] /\ u.sent[c] = upstream.sent[c] + size
  /\ \A d \in ToolUses : d # c => u.sent[d] = upstream.sent[d]
  /\ Piece(c, size) \in Seq(Pieces) /\ Len(Piece(c, size)) = size
  /\ PiecesSent(c, u.sent[c]) = PiecesSent(c, upstream.sent[c]) \o Piece(c, size)

\* What a piece changes of what the upstream has sent.
LEMMA SpokenFacts ==
  ASSUME upstream \in Upstreams, NEW c \in ToolUses, NEW size \in {0, 1}
  PROVE  Updated(c, size)
<1> DEFINE p == Piece(c, size)  u == SpokenUpstream(c, size)
<1>1. upstream.sent[c] \in Nat /\ upstream.sent \in [ToolUses -> Nat]
  BY DEF Upstreams
<1>2. SentFacts(c, upstream.sent[c])
  BY <1>1, PiecesFacts
<1>3. <<c, upstream.sent[c] + 1>> \in Pieces
  BY <1>1 DEF Pieces
<1>4. p \in Seq(Pieces) /\ Len(p) = size /\ size \in Nat
  <2>1. CASE size = 1
    BY <1>3, <2>1 DEF Piece
  <2>2. CASE size = 0
    BY <2>2 DEF Piece
  <2> QED
    BY <2>1, <2>2
<1>5. PiecesSent(c, upstream.sent[c] + size) = PiecesSent(c, upstream.sent[c]) \o p
  <2>1. CASE size = 1
    BY <1>2, <2>1 DEF Piece, SentFacts
  <2>2. CASE size = 0
    BY <1>1, <1>2, <2>2 DEF Piece, SentFacts
  <2> QED
    BY <2>1, <2>2
<1> HIDE DEF p
<1>6. u = [upstream EXCEPT !.sent[c] = @ + size, !.begun = @ \cup {c}]
  BY <1>4 DEF SpokenUpstream, p
<1> HIDE DEF u
<1>7. /\ u.dialect = upstream.dialect /\ u.begun = upstream.begun \cup {c}
      /\ u.restated = upstream.restated /\ u.sent = [upstream.sent EXCEPT ![c] = @ + size]
  BY <1>6 DEF Upstreams
<1>8. u \in Upstreams
  <2>1. [upstream.sent EXCEPT ![c] = @ + size] \in [ToolUses -> Nat]
    BY <1>1, <1>4
  <2>2. upstream.begun \cup {c} \in SUBSET ToolUses
    BY DEF Upstreams
  <2> QED
    BY <1>6, <2>1, <2>2 DEF Upstreams
<1>9. u.sent[c] = upstream.sent[c] + size /\ \A d \in ToolUses : d # c => u.sent[d] = upstream.sent[d]
  BY <1>1, <1>7
<1> QED
  BY <1>4, <1>5, <1>7, <1>8, <1>9 DEF Updated, p, u

\* The buffers with the piece in its call's.
Opened(c, size, again) ==
  LET index == IndexOf(c, upstream)
      id == IdOf(c, again)
      position == Find(index, id)
      old == IF position = 0 THEN [EmptyBuffer EXCEPT !.index = index] ELSE tools.calls[position]
      new == [old EXCEPT !.id = IF id # 0 THEN id ELSE @,
                         !.named = @ \/ (c \notin upstream.begun \/ again),
                         !.pieces = @ \o Piece(c, size)]
  IN IF position = 0 THEN Append(tools.calls, new)
     ELSE [tools.calls EXCEPT ![position] = new]

AllStand ==
  /\ upstream \in Upstreams /\ kiro \in KiroStates
  /\ BuffersStand(tools.calls, upstream) /\ KiroStands(tools.calls, tools.live, kiro, upstream)
  /\ Caught(tools.calls, tools.live, upstream)

\* The first piece of a call opens a buffer of its own.
LEMMA OpensBuffer ==
  ASSUME AllStand, NEW c \in ToolUses, NEW size, NEW again \in BOOLEAN, Speaks(c, size, again),
         c \notin upstream.begun
  PROVE  RoundStands(Starting(Opened(c, size, again), tools.live), c, kiro, SpokenUpstream(c, size))
<1> DEFINE calls == tools.calls  live == tools.live  n == Len(calls)
           u == SpokenUpstream(c, size)
           index == IndexOf(c, upstream)  id == IdOf(c, again)
           empty == [EmptyBuffer EXCEPT !.index = index]
           new == [empty EXCEPT !.id = IF id # 0 THEN id ELSE @,
                                !.named = @ \/ (c \notin upstream.begun \/ again),
                                !.pieces = @ \o Piece(c, size)]
           opened == Append(calls, new)
<1>1. Find(index, id) = 0 /\ c = n + 1 /\ c \in Nat \ {0}
  BY FindsCall DEF Finds, AllStand
<1>2. Opened(c, size, again) = opened
  BY <1>1 DEF Opened
<1>3. Updated(c, size)
  BY SpokenFacts DEF AllStand, Speaks
<1> HIDE DEF u
<1>4. /\ u \in Upstreams /\ u.begun = upstream.begun \cup {c} /\ u.sent[c] = size
      /\ u.dialect = upstream.dialect
      /\ \A d \in ToolUses : d # c => u.sent[d] = upstream.sent[d]
      /\ Piece(c, size) \in Seq(Pieces) /\ PiecesSent(c, u.sent[c]) = Piece(c, size)
      /\ u.sent[c] <= PiecesOf[c] /\ size \in Nat
  <2>1. upstream.sent[c] = 0 /\ SentFacts(c, 0)
    BY PiecesFacts DEF AllStand, BuffersStand
  <2>2. size \in {0, 1}
    BY DEF Speaks
  <2>3. <<>> \o Piece(c, size) = Piece(c, size)
    BY <1>3 DEF Updated
  <2> QED
    BY <1>3, <2>1, <2>2, <2>3 DEF Updated, u, SentFacts, Speaks
<1>5. /\ calls \in Seq(Buffers) /\ n \in Nat /\ live \in 0..n /\ upstream.begun = 1..n
  BY DEF AllStand, BuffersStand, KiroStands
<1>6. /\ new.id = c /\ new.named /\ new.index = IndexOf(c, u) /\ new.pieces = PiecesSent(c, u.sent[c])
      /\ ~new.announced /\ new \in Buffers
  <2> DEFINE p == Piece(c, size)
  <2>1. id = c /\ index = IndexOf(c, u) /\ index \in Nat /\ (c \notin upstream.begun \/ again)
    BY <1>1, <1>4 DEF IdOf, IndexOf
  <2>2. EmptyBuffer \in Buffers /\ EmptyBuffer.pieces = <<>> /\ EmptyBuffer.announced = FALSE
    <3>1. <<>> \in Seq(Pieces)
      OBVIOUS
    <3> QED
      BY <3>1 DEF EmptyBuffer, Buffers
  <2>3. empty \in Buffers /\ empty.pieces = <<>> /\ empty.announced = FALSE /\ empty.index = index
    BY <2>1, <2>2 DEF Buffers
  <2>4. <<>> \o p = p /\ p \in Seq(Pieces)
    BY <1>4
  <2> HIDE DEF empty, p, id, index
  <2>5. new = [empty EXCEPT !.id = c, !.named = TRUE, !.pieces = p]
    BY <1>1, <2>1, <2>3, <2>4 DEF p
  <2> HIDE DEF new
  <2> QED
    <3>1. new \in Buffers
      <4>1. c \in Nat
        BY <1>1
      <4> QED
        BY <2>3, <2>4, <2>5, <4>1 DEF Buffers
    <3>2. /\ new.id = c /\ new.named /\ new.index = index /\ new.pieces = p
          /\ new.announced = FALSE
      BY <2>3, <2>5 DEF Buffers
    <3>3. p = PiecesSent(c, u.sent[c])
      BY <1>4, Zenon DEF p
    <3> QED
      BY <2>1, <3>1, <3>2, <3>3
<1> HIDE DEF new, index, id, calls, live, n
<1>7. /\ opened \in Seq(Buffers) /\ Len(opened) = n + 1 /\ opened[c] = new
      /\ \A d \in 1..n : opened[d] = calls[d] /\ d # c /\ d \in ToolUses
  <2>1. \A d \in 1..n : d \in ToolUses
    BY <1>5 DEF AllStand, Upstreams
  <2> QED
    BY <1>1, <1>5, <1>6, <2>1 DEF n
<1> HIDE DEF opened
<1>8. BuffersStand(opened, u)
  <2>1. u.begun = 1..Len(opened)
    BY <1>1, <1>4, <1>5, <1>7
  <2>2. ASSUME NEW d \in 1..Len(opened)
        PROVE  /\ opened[d].id = d /\ opened[d].named /\ opened[d].index = IndexOf(d, u)
               /\ opened[d].pieces = PiecesSent(d, u.sent[d])
               /\ u.sent[d] <= PiecesOf[d]
    <3>1. CASE d = c
      BY <1>4, <1>6, <1>7, <3>1
    <3>2. CASE d # c
      <4>1. d \in 1..n
        BY <1>1, <1>5, <1>7, <3>2
      <4>2. u.sent[d] = upstream.sent[d] /\ opened[d] = calls[d]
        BY <1>4, <1>7, <3>2, <4>1
      <4>3. IndexOf(d, u) = IndexOf(d, upstream)
        BY <1>4 DEF IndexOf
      <4> QED
        BY <4>1, <4>2, <4>3 DEF AllStand, BuffersStand, calls, n
    <3> QED
      BY <3>1, <3>2
  <2>3. \A d \in ToolUses \ u.begun : u.sent[d] = 0
    BY <1>4 DEF AllStand, BuffersStand
  <2> QED
    BY <1>7, <2>1, <2>2, <2>3 DEF BuffersStand
<1>9. KiroStands(opened, live, kiro, u) /\ Caught(opened, live, u)
  <2>1. KiroStands(calls, live, kiro, upstream) /\ Caught(calls, live, upstream)
    BY DEF AllStand, calls, live
  <2>2. DOMAIN kiro.calls = {d \in 1..n : calls[d].announced}
    BY <2>1 DEF KiroStands, n
  <2>3. {d \in 1..n : calls[d].announced} = {d \in 1..Len(opened) : opened[d].announced}
    <3>1. \A d : d \in 1..Len(opened) <=> (d \in 1..n \/ d = c)
      BY <1>1, <1>5, <1>7
    <3> QED
      BY <1>6, <1>7, <3>1
  <2>4. ASSUME NEW d \in DOMAIN kiro.calls
        PROVE  /\ opened[d].sent \in 0..u.sent[d]
               /\ kiro.calls[d] = PiecesSent(d, opened[d].sent)
               /\ d # live => opened[d].sent = u.sent[d] /\ u.sent[d] = PiecesOf[d]
    <3>1. d \in 1..n /\ opened[d] = calls[d] /\ u.sent[d] = upstream.sent[d]
      BY <1>4, <1>7, <2>2
    <3> QED
      BY <2>1, <3>1 DEF KiroStands
  <2>5. live # 0 => live \in 1..n /\ opened[live] = calls[live] /\ u.sent[live] = upstream.sent[live]
    BY <1>4, <1>5, <1>7
  <2>6. live \in 0..Len(opened)
    BY <1>5, <1>7
  <2> QED
    BY <2>1, <2>2, <2>3, <2>4, <2>5, <2>6 DEF KiroStands, Caught
<1>10. /\ Starting(opened, live) \in Rounds /\ Starting(opened, live).calls = opened
       /\ Starting(opened, live).live = live /\ Starting(opened, live).frames = <<>>
  <2>1. live \in Nat /\ <<>> \in Seq(Frames)
    BY <1>5
  <2> QED
    BY <1>7, <2>1 DEF Starting, Rounds, Loops
<1>11. HearsAll(kiro, <<>>) = kiro
  BY HearsAllFacts DEF AllStand, HearsOneMore
<1>12. c \in 1..Len(opened)
  BY <1>1, <1>5, <1>7
<1> QED
  BY <1>2, <1>8, <1>9, <1>10, <1>11, <1>12 DEF RoundStands, u, live

\* A later piece adds to the call's own buffer, and to no other.
LEMMA AddsToBuffer ==
  ASSUME AllStand, NEW c \in ToolUses, NEW size, NEW again \in BOOLEAN, Speaks(c, size, again),
         c \in upstream.begun
  PROVE  RoundStands(Starting(Opened(c, size, again), tools.live), c, kiro, SpokenUpstream(c, size))
<1> DEFINE calls == tools.calls  live == tools.live  n == Len(calls)
           u == SpokenUpstream(c, size)
           index == IndexOf(c, upstream)  id == IdOf(c, again)
           old == calls[c]
           new == [old EXCEPT !.id = IF id # 0 THEN id ELSE @,
                              !.named = @ \/ (c \notin upstream.begun \/ again),
                              !.pieces = @ \o Piece(c, size)]
           opened == [calls EXCEPT ![c] = new]
<1>1. Find(index, id) = c /\ c \in 1..n /\ c \in Nat \ {0}
  BY FindsCall DEF Finds, AllStand
<1>2. Opened(c, size, again) = opened
  BY <1>1 DEF Opened
<1>3. Updated(c, size)
  BY SpokenFacts DEF AllStand, Speaks
<1> HIDE DEF u
<1>4. /\ u \in Upstreams /\ u.begun = upstream.begun /\ u.sent[c] = upstream.sent[c] + size
      /\ u.dialect = upstream.dialect /\ size \in Nat /\ upstream.sent[c] \in Nat
      /\ \A d \in ToolUses : d # c => u.sent[d] = upstream.sent[d]
      /\ Piece(c, size) \in Seq(Pieces)
      /\ PiecesSent(c, u.sent[c]) = PiecesSent(c, upstream.sent[c]) \o Piece(c, size)
      /\ u.sent[c] <= PiecesOf[c]
  <2>1. size \in {0, 1} /\ upstream.sent[c] \in Nat
    BY DEF Speaks, AllStand, Upstreams
  <2> QED
    BY <1>3, <2>1 DEF Updated, u, Speaks
<1>5. /\ calls \in Seq(Buffers) /\ n \in Nat /\ live \in 0..n /\ upstream.begun = 1..n
  BY DEF AllStand, BuffersStand, KiroStands
<1>6. /\ old \in Buffers /\ old.id = c /\ old.named /\ old.index = IndexOf(c, upstream)
      /\ old.pieces = PiecesSent(c, upstream.sent[c])
  BY <1>1, <1>5 DEF AllStand, BuffersStand
<1>7. /\ new.id = c /\ new.named /\ new.index = IndexOf(c, u) /\ new.pieces = PiecesSent(c, u.sent[c])
      /\ new.announced = old.announced /\ new.sent = old.sent /\ new \in Buffers
  <2> DEFINE q == PiecesSent(c, u.sent[c])
  <2>1. (IF id # 0 THEN id ELSE old.id) = c /\ IndexOf(c, u) = IndexOf(c, upstream)
    BY <1>1, <1>4, <1>6 DEF IdOf, IndexOf
  <2>2. old.pieces \o Piece(c, size) = q
    BY <1>4, <1>6
  <2>3. q \in Seq(Pieces) /\ c \in Nat
    <3>1. u.sent[c] \in Nat
      BY <1>4
    <3>2. SentFacts(c, u.sent[c])
      BY <3>1, PiecesFacts
    <3> QED
      BY <1>1, <3>2 DEF SentFacts
  <2> HIDE DEF q, id, old
  <2>4. new = [old EXCEPT !.id = c, !.named = TRUE, !.pieces = q]
    BY <1>6, <2>1, <2>2
  <2> HIDE DEF new
  <2> QED
    BY <1>6, <2>1, <2>3, <2>4 DEF Buffers, q
<1> HIDE DEF new, index, id
<1>8. /\ opened \in Seq(Buffers) /\ Len(opened) = n /\ opened[c] = new
      /\ \A d \in 1..n : /\ d # c => opened[d] = calls[d]
                         /\ opened[d].announced = calls[d].announced
                         /\ opened[d].sent = calls[d].sent /\ d \in ToolUses
  <2>1. \A d \in 1..n : d \in ToolUses
    BY <1>5 DEF AllStand, Upstreams
  <2> QED
    BY <1>1, <1>5, <1>7, <2>1
<1> HIDE DEF opened, old, calls, live, n
<1>9. BuffersStand(opened, u)
  <2>1. ASSUME NEW d \in 1..Len(opened)
        PROVE  /\ opened[d].id = d /\ opened[d].named /\ opened[d].index = IndexOf(d, u)
               /\ opened[d].pieces = PiecesSent(d, u.sent[d])
               /\ u.sent[d] <= PiecesOf[d]
    <3>1. CASE d = c
      BY <1>4, <1>7, <1>8, <3>1
    <3>2. CASE d # c
      <4>1. d \in 1..n /\ u.sent[d] = upstream.sent[d] /\ opened[d] = calls[d]
        BY <1>4, <1>8, <3>2
      <4>2. IndexOf(d, u) = IndexOf(d, upstream)
        BY <1>4 DEF IndexOf
      <4> QED
        BY <4>1, <4>2 DEF AllStand, BuffersStand, calls, n
    <3> QED
      BY <3>1, <3>2
  <2>2. \A d \in ToolUses \ u.begun : u.sent[d] = 0
    BY <1>4, <1>1, <1>5 DEF AllStand, BuffersStand
  <2> QED
    BY <1>4, <1>5, <1>8, <2>1, <2>2 DEF BuffersStand
<1>10. KiroStands(opened, live, kiro, u) /\ (Caught(opened, live, u) \/ live = c)
  <2>1. KiroStands(calls, live, kiro, upstream) /\ Caught(calls, live, upstream)
    BY DEF AllStand, calls, live
  <2>2. DOMAIN kiro.calls = {d \in 1..n : calls[d].announced}
    BY <2>1 DEF KiroStands, n
  <2>3. {d \in 1..n : calls[d].announced} = {d \in 1..Len(opened) : opened[d].announced}
    BY <1>8
  <2>4. ASSUME NEW d \in DOMAIN kiro.calls
        PROVE  /\ opened[d].sent \in 0..u.sent[d]
               /\ kiro.calls[d] = PiecesSent(d, opened[d].sent)
               /\ d # live => opened[d].sent = u.sent[d] /\ u.sent[d] = PiecesOf[d]
    <3>1. d \in 1..n /\ opened[d].sent = calls[d].sent
      BY <1>8, <2>2
    <3>2. /\ calls[d].sent \in 0..upstream.sent[d]
          /\ kiro.calls[d] = PiecesSent(d, calls[d].sent)
          /\ d # live => calls[d].sent = upstream.sent[d] /\ upstream.sent[d] = PiecesOf[d]
      BY <2>1 DEF KiroStands
    <3>3. CASE d # c
      BY <1>4, <1>8, <3>1, <3>2, <3>3
    <3>4. CASE d = c
      <4>1. d # live => size = 0
        BY <1>4, <3>2, <3>4
      <4> QED
        BY <1>4, <3>1, <3>2, <3>4, <4>1
    <3> QED
      BY <3>3, <3>4
  <2>5. live # 0 => live \in 1..n /\ opened[live].sent = calls[live].sent
                    /\ opened[live].announced = calls[live].announced
    BY <1>5, <1>8
  <2>6. live # 0 /\ live # c => u.sent[live] = upstream.sent[live]
    BY <1>4, <1>8, <2>5
  <2>7. live \in 0..Len(opened)
    BY <1>5, <1>8
  <2>8. KiroStands(opened, live, kiro, u)
    BY <2>1, <2>2, <2>3, <2>4, <2>5, <2>7 DEF KiroStands
  <2>9. live # c => Caught(opened, live, u)
    BY <2>1, <2>5, <2>6 DEF Caught
  <2> QED
    BY <2>8, <2>9
<1>11. /\ Starting(opened, live) \in Rounds /\ Starting(opened, live).calls = opened
       /\ Starting(opened, live).live = live /\ Starting(opened, live).frames = <<>>
       /\ Starting(opened, live).loop = "on"
  <2>1. live \in Nat /\ <<>> \in Seq(Frames)
    BY <1>5
  <2> QED
    BY <1>8, <2>1 DEF Starting, Rounds, Loops
<1>12. HearsAll(kiro, <<>>) = kiro
  BY HearsAllFacts DEF AllStand, HearsOneMore
<1> QED
  BY <1>1, <1>2, <1>8, <1>9, <1>10, <1>11, <1>12 DEF RoundStands, u, live

\* A bill made of what has been counted follows the upstream.
LEMMA ResolvedBill ==
  ASSUME NEW h \in Heards, NEW u \in Upstreams, HeardStands(h, u),
         NEW bill \in ResolveSettlementTokens(h)
  PROVE  /\ \A report \in u.restated :
              bill.uncached = report.uncached /\ bill.cached = report.cached
         /\ 2 * bill.output >= h.units
         /\ bill.output <= Greater(Greater(h.units, 1), h.usage.completion)
<1>1. /\ h.units \in Nat /\ h.usage.completion \in Nat
      /\ h.usage.uncached \in Nat /\ h.usage.cached \in Nat
  BY DEF Heards, TokenCounts
<1>2. /\ bill.uncached = IF h.input THEN h.usage.uncached ELSE Greater(EstimatedInput, 1)
      /\ bill.cached = h.usage.cached /\ bill.output = BilledOutput(h)
  BY DEF ResolveSettlementTokens
<1>3. \A report \in u.restated : bill.uncached = report.uncached /\ bill.cached = report.cached
  BY <1>2 DEF HeardStands
<1>4. ~h.output => h.units = 0
  BY <1>1 DEF HeardStands
<1>5. /\ 2 * BilledOutput(h) >= h.units
      /\ BilledOutput(h) <= Greater(Greater(h.units, 1), h.usage.completion)
  BY <1>1, <1>4 DEF BilledOutput, Greater
<1> QED
  BY <1>2, <1>3, <1>5

\* However the stream ends, what is billed follows the upstream.
LEMMA FinishBills ==
  ASSUME NEW how, how # "open", NEW completed, NEW emptied,
         heard' \in Heards, upstream' \in Upstreams, HeardStands(heard, upstream)',
         Finish(heard', how, completed, emptied)
  PROVE  end'.how = how /\ BillStands'
<1>1. end'.how = how /\ \A bill \in end'.bill : bill \in ResolveSettlementTokens(heard')
  BY DEF Finish
<1>2. HeardStands(heard', upstream')
  OBVIOUS
<1>3. \A bill \in end'.bill :
        /\ \A report \in upstream'.restated :
             bill.uncached = report.uncached /\ bill.cached = report.cached
        /\ 2 * bill.output >= heard'.units
        /\ bill.output <= Greater(Greater(heard'.units, 1), heard'.usage.completion)
  BY <1>1, <1>2, ResolvedBill
<1>4. BillFollowsUpstream'
  BY <1>3 DEF BillFollowsUpstream
<1>5. ~Open'
  BY <1>1 DEF Open
<1> QED
  BY <1>1, <1>4, <1>5 DEF BillStands

\* What an upstream reports is counts, and one that restates its prompt has some of it.
LEMMA ReportedFacts ==
  ASSUME NEW dialect, NEW report \in Reported(dialect)
  PROVE  report \in TokenCounts /\ (report.restated => ReportsInput(report))
<1>1. \A n \in Counts : n[1] \in Nat /\ n[2] \in Nat /\ n[3] \in Nat
  BY AnswerAssumption
<1>2. ASSUME NEW n \in Counts PROVE MessageStart(n) \in TokenCounts /\ ~MessageStart(n).restated
  BY <1>1 DEF MessageStart, TokenCounts
<1>3. ASSUME NEW n \in Counts
      PROVE  MessageDelta(n) \in TokenCounts /\ (MessageDelta(n).restated => ReportsInput(MessageDelta(n)))
  <2>1. CASE n[1] + n[2] = 0
    BY <1>1, <2>1 DEF MessageDelta, NoTokens, TokenCounts
  <2>2. CASE n[1] + n[2] # 0
    BY <1>1, <2>2 DEF MessageDelta, TokenCounts, ReportsInput
  <2> QED
    BY <2>1, <2>2
<1>4. ASSUME NEW n \in Counts PROVE OpenAiUsage(n) \in TokenCounts /\ ~OpenAiUsage(n).restated
  <2>1. Greater(n[1] - n[2], 0) \in Nat
    BY <1>1 DEF Greater
  <2> QED
    BY <1>1, <2>1 DEF OpenAiUsage, TokenCounts
<1> QED
  BY <1>2, <1>3, <1>4 DEF Reported

\* A restatement replaces the prompt, and what comes after one leaves it.
LEMMA MergeFacts ==
  ASSUME NEW a \in TokenCounts, NEW b \in TokenCounts
  PROVE  LET m == MergeUsage(a, b) IN
         /\ m \in TokenCounts
         /\ b.restated => m.restated /\ m.uncached = b.uncached /\ m.cached = b.cached
         /\ ~b.restated /\ a.restated => m.restated /\ m.uncached = a.uncached /\ m.cached = a.cached
<1>1. \A x, y \in Nat : Greater(x, y) \in Nat
  BY DEF Greater
<1>2. CASE b.restated
  BY <1>1, <1>2 DEF MergeUsage, TokenCounts
<1>3. CASE ~b.restated /\ a.restated
  BY <1>1, <1>3 DEF MergeUsage, TokenCounts
<1>4. CASE ~b.restated /\ ~a.restated
  BY <1>1, <1>4 DEF MergeUsage, TokenCounts
<1> QED
  BY <1>2, <1>3, <1>4

\* How the calls stand rests on what the upstream has sent of them, and nothing else of it.
LEMMA CallsKeep ==
  ASSUME AnswerInv, Open, UNCHANGED <<tools, kiro>>, Open',
         upstream'.dialect = upstream.dialect, upstream'.begun = upstream.begun,
         upstream'.sent = upstream.sent, heard.output => heard'.output
  PROVE  CallsStand'
<1>1. /\ BuffersStand(tools.calls, upstream) /\ KiroStands(tools.calls, tools.live, kiro, upstream)
      /\ Caught(tools.calls, tools.live, upstream) /\ (upstream.begun # {} => heard.output)
  BY DEF AnswerInv, CallsStand
<1>2. \A c : IndexOf(c, upstream') = IndexOf(c, upstream)
  BY DEF IndexOf
<1>3. BuffersStand(tools.calls, upstream')
  BY <1>1, <1>2 DEF BuffersStand
<1>4. KiroStands(tools.calls, tools.live, kiro, upstream') /\ Caught(tools.calls, tools.live, upstream')
  BY <1>1 DEF KiroStands, Caught
<1>5. tools' = tools /\ kiro' = kiro
  OBVIOUS
<1> QED
  BY <1>1, <1>3, <1>4, <1>5 DEF CallsStand

\* An end that tells Kiro nothing leaves what it has.
LEMMA EndKeeps ==
  ASSUME AnswerInv, Open, UNCHANGED kiro, upstream'.sent = upstream.sent,
         end'.how \notin {"open", "stopped"}
  PROVE  CallsStand'
<1>1. /\ upstream \in Upstreams
      /\ BuffersStand(tools.calls, upstream) /\ KiroStands(tools.calls, tools.live, kiro, upstream)
  BY DEF AnswerInv, AnswerTypes, CallsStand
<1>2. \A c \in DOMAIN kiro.calls :
        /\ kiro.calls[c] = PiecesSent(c, Len(kiro.calls[c]))
        /\ c \in kiro.ended => Len(kiro.calls[c]) = upstream.sent[c]
  BY <1>1, StandsWhole
<1>3. CallsReachKiroWhole'
  BY <1>2 DEF CallsReachKiroWhole
<1> QED
  BY <1>3 DEF CallsStand, Open

\* Text, or the model's thinking.
LEMMA DeltaKeeps ==
  ASSUME AnswerInv, Delta
  PROVE  AnswerInv'
<1>1. /\ Open /\ UNCHANGED <<tools, kiro, end>> /\ upstream \in Upstreams /\ heard \in Heards
      /\ upstream' = [upstream EXCEPT !.said = @ + 1]
      /\ heard' = [heard EXCEPT !.output = TRUE, !.units = @ + 1]
  BY DEF Delta, AnswerInv, AnswerTypes
<1>2. /\ upstream' \in Upstreams /\ upstream'.sent = upstream.sent
      /\ upstream'.begun = upstream.begun /\ upstream'.dialect = upstream.dialect
      /\ upstream'.restated = upstream.restated
  BY <1>1 DEF Upstreams
<1>3. heard' \in Heards /\ heard'.output /\ heard'.usage = heard.usage /\ heard'.input = heard.input
  <2>1. heard.units + 1 \in Nat
    BY <1>1 DEF Heards
  <2>2. heard' \in Heards
    BY <1>1, <2>1 DEF Heards
  <2>3. heard'.output /\ heard'.usage = heard.usage /\ heard'.input = heard.input
    BY <1>1 DEF Heards
  <2> QED
    BY <2>2, <2>3
<1>4. Open' /\ end'.bill = {}
  BY <1>1 DEF Open, AnswerInv, BillStands
<1>5. BillStands'
  BY <1>2, <1>3, <1>4 DEF AnswerInv, BillStands, HeardStands, BillFollowsUpstream
<1>6. CallsStand'
  BY <1>1, <1>2, <1>3, <1>4, CallsKeep
<1>7. AnswerTypes'
  BY <1>1, <1>2, <1>3 DEF AnswerInv, AnswerTypes
<1> QED
  BY <1>5, <1>6, <1>7 DEF AnswerInv

\* A report of usage.
LEMMA UsageKeeps ==
  ASSUME AnswerInv, NEW report \in Reported(upstream.dialect), Usage(report)
  PROVE  AnswerInv'
<1> DEFINE m == MergeUsage(heard.usage, report)
           restated == IF report.restated THEN {report} ELSE upstream.restated
<1>1. /\ Open /\ UNCHANGED <<tools, kiro, end>> /\ upstream \in Upstreams /\ heard \in Heards
      /\ upstream' = [upstream EXCEPT !.reports = @ + 1, !.restated = restated]
      /\ heard' = [heard EXCEPT !.frame = TRUE, !.input = @ \/ ReportsInput(report), !.usage = m]
  BY DEF Usage, AnswerInv, AnswerTypes
<1>2. report \in TokenCounts /\ (report.restated => ReportsInput(report))
  BY ReportedFacts
<1>3. heard.usage \in TokenCounts /\ restated \in SUBSET TokenCounts /\ ReportsInput(report) \in BOOLEAN
  BY <1>1, <1>2 DEF Heards, Upstreams, ReportsInput
<1>4. /\ m \in TokenCounts
      /\ report.restated => m.restated /\ m.uncached = report.uncached /\ m.cached = report.cached
      /\ ~report.restated /\ heard.usage.restated =>
           m.restated /\ m.uncached = heard.usage.uncached /\ m.cached = heard.usage.cached
  BY <1>2, <1>3, MergeFacts
<1>5. HeardStands(heard, upstream)
  BY DEF AnswerInv, BillStands
<1>6. \A x \in restated : m.restated /\ (heard.input \/ ReportsInput(report))
                          /\ m.uncached = x.uncached /\ m.cached = x.cached
  BY <1>2, <1>4, <1>5 DEF HeardStands
<1> HIDE DEF m, restated
<1>7. /\ upstream' \in Upstreams /\ upstream'.sent = upstream.sent
      /\ upstream'.begun = upstream.begun /\ upstream'.dialect = upstream.dialect
      /\ upstream'.restated = restated
  <2>1. upstream.reports + 1 \in Nat
    BY <1>1 DEF Upstreams
  <2>2. upstream' \in Upstreams
    BY <1>1, <1>3, <2>1 DEF Upstreams
  <2>3. /\ upstream'.sent = upstream.sent /\ upstream'.begun = upstream.begun
        /\ upstream'.dialect = upstream.dialect /\ upstream'.restated = restated
    BY <1>1 DEF Upstreams
  <2> QED
    BY <2>2, <2>3
<1>8. /\ heard' \in Heards /\ heard'.output = heard.output /\ heard'.usage = m
      /\ heard'.units = heard.units /\ heard'.input = (heard.input \/ ReportsInput(report))
  BY <1>1, <1>3, <1>4 DEF Heards
<1>9. Open' /\ end'.bill = {}
  BY <1>1 DEF Open, AnswerInv, BillStands
<1>10. BillStands'
  BY <1>5, <1>6, <1>7, <1>8, <1>9 DEF BillStands, HeardStands, BillFollowsUpstream
<1>11. CallsStand'
  BY <1>1, <1>7, <1>8, <1>9, CallsKeep
<1>12. AnswerTypes'
  BY <1>1, <1>7, <1>8 DEF AnswerInv, AnswerTypes
<1> QED
  BY <1>10, <1>11, <1>12 DEF AnswerInv

\* The stop reason.
LEMMA StopReasonKeeps ==
  ASSUME AnswerInv, NEW reason \in StopReasons, StopReason(reason)
  PROVE  AnswerInv'
<1>1. /\ Open /\ UNCHANGED <<tools, kiro, end>> /\ upstream \in Upstreams /\ heard \in Heards
      /\ upstream' = [upstream EXCEPT !.stopped = TRUE]
      /\ heard' = [heard EXCEPT !.stop = reason]
  BY DEF StopReason, AnswerInv, AnswerTypes
<1>2. /\ upstream' \in Upstreams /\ upstream'.sent = upstream.sent
      /\ upstream'.begun = upstream.begun /\ upstream'.dialect = upstream.dialect
      /\ upstream'.restated = upstream.restated
  BY <1>1 DEF Upstreams
<1>3. /\ heard' \in Heards /\ heard'.output = heard.output /\ heard'.usage = heard.usage
      /\ heard'.units = heard.units /\ heard'.input = heard.input
  BY <1>1 DEF Heards
<1>4. Open' /\ end'.bill = {}
  BY <1>1 DEF Open, AnswerInv, BillStands
<1>5. BillStands'
  BY <1>2, <1>3, <1>4 DEF AnswerInv, BillStands, HeardStands, BillFollowsUpstream
<1>6. CallsStand'
  BY <1>1, <1>2, <1>3, <1>4, CallsKeep
<1>7. AnswerTypes'
  BY <1>1, <1>2, <1>3 DEF AnswerInv, AnswerTypes
<1> QED
  BY <1>5, <1>6, <1>7 DEF AnswerInv

\* The stream breaks off, or Kiro goes.
LEMMA BreaksOffKeeps ==
  ASSUME AnswerInv, BreaksOff \/ KiroLeaves
  PROVE  AnswerInv'
<1>1. PICK how \in {"failed", "left"} :
        Open /\ Finish(heard, how, FALSE, FALSE) /\ UNCHANGED <<upstream, tools, heard, kiro>>
  BY DEF BreaksOff, KiroLeaves
<1>2. /\ heard' \in Heards /\ upstream' \in Upstreams /\ HeardStands(heard', upstream')
      /\ AnswerTypes'
  BY <1>1 DEF AnswerInv, AnswerTypes, BillStands
<1>3. end'.how = how /\ BillStands'
  BY <1>1, <1>2, FinishBills
<1>4. CallsStand'
  BY <1>1, <1>3, EndKeeps
<1> QED
  BY <1>2, <1>3, <1>4 DEF AnswerInv

\* A line that does not parse.
LEMMA NoiseKeeps ==
  ASSUME AnswerInv, NEW garbled \in BOOLEAN, Noise(garbled)
  PROVE  AnswerInv'
<1>1. /\ Open /\ UNCHANGED <<tools, heard, kiro>> /\ upstream \in Upstreams /\ heard \in Heards
      /\ upstream' = [upstream EXCEPT !.noise = @ + 1, !.garbled = @ + (IF garbled THEN 1 ELSE 0)]
  BY DEF Noise, AnswerInv, AnswerTypes
<1>2. /\ upstream' \in Upstreams /\ upstream'.sent = upstream.sent
      /\ upstream'.begun = upstream.begun /\ upstream'.dialect = upstream.dialect
      /\ upstream'.restated = upstream.restated
  <2>1. /\ upstream.noise + 1 \in Nat
        /\ upstream.garbled + (IF garbled THEN 1 ELSE 0) \in Nat
    BY <1>1 DEF Upstreams
  <2>2. upstream' \in Upstreams
    BY <1>1, <2>1 DEF Upstreams
  <2>3. /\ upstream'.sent = upstream.sent /\ upstream'.begun = upstream.begun
        /\ upstream'.dialect = upstream.dialect /\ upstream'.restated = upstream.restated
    BY <1>1 DEF Upstreams
  <2> QED
    BY <2>2, <2>3
<1>3. HeardStands(heard', upstream') /\ AnswerTypes'
  BY <1>1, <1>2 DEF AnswerInv, AnswerTypes, BillStands, HeardStands
<1>4. CASE Finish(heard, "failed", FALSE, FALSE)
  <2>1. end'.how = "failed" /\ BillStands'
    BY <1>1, <1>2, <1>3, <1>4, FinishBills
  <2>2. CallsStand'
    BY <1>1, <1>2, <2>1, EndKeeps
  <2> QED
    BY <1>3, <2>1, <2>2 DEF AnswerInv
<1>5. CASE UNCHANGED end
  <2>1. Open' /\ end'.bill = {}
    BY <1>1, <1>5 DEF Open, AnswerInv, BillStands
  <2>2. BillStands'
    BY <1>3, <2>1 DEF BillStands, BillFollowsUpstream
  <2>3. CallsStand'
    BY <1>1, <1>2, <2>1, CallsKeep
  <2> QED
    BY <1>3, <2>2, <2>3 DEF AnswerInv
<1> QED
  BY <1>4, <1>5 DEF Noise

\* The explicit end: the calls still waiting go, ended and whole.
LEMMA DoneKeeps ==
  ASSUME AnswerInv, Done
  PROVE  AnswerInv'
<1>1. /\ Open /\ UNCHANGED <<upstream, tools, heard>> /\ AnswerTypes
      /\ HeardStands(heard', upstream') /\ heard' \in Heards /\ upstream' \in Upstreams
      /\ BuffersStand(tools.calls, upstream)
      /\ KiroStands(tools.calls, tools.live, kiro, upstream)
      /\ Caught(tools.calls, tools.live, upstream) /\ (upstream.begun # {} => heard.output)
  BY DEF Done, AnswerInv, AnswerTypes, BillStands, CallsStand
<1>2. CASE ~heard.output
  <2>1. PICK how \in {"stopped", "failed"}, completed, emptied \in BOOLEAN :
          Finish(heard, how, completed, emptied) /\ UNCHANGED kiro
    BY <1>2 DEF Done
  <2>2. end'.how = how /\ BillStands'
    BY <1>1, <2>1, FinishBills
  <2>3. \A c \in DOMAIN kiro.calls :
          /\ kiro.calls[c] = PiecesSent(c, Len(kiro.calls[c]))
          /\ c \in kiro.ended => Len(kiro.calls[c]) = upstream.sent[c]
    BY <1>1, StandsWhole DEF AnswerTypes
  <2>4. kiro.ended = upstream.begun
    <3>1. upstream.begun = {} /\ upstream.begun = 1..Len(tools.calls)
      BY <1>1, <1>2 DEF BuffersStand
    <3>2. kiro.ended \subseteq 1..Len(tools.calls)
      BY <1>1 DEF KiroStands
    <3> QED
      BY <3>1, <3>2
  <2>5. CallsReachKiroWhole'
    BY <1>1, <2>1, <2>3, <2>4 DEF CallsReachKiroWhole
  <2>6. AnswerTypes'
    BY <1>1, <2>1 DEF AnswerTypes
  <2> QED
    BY <2>2, <2>5, <2>6 DEF AnswerInv, CallsStand, Open
<1>3. CASE heard.output
  <2> DEFINE n == Len(tools.calls)
  <2>1. kiro' = HearsAll(kiro, FinishCalls) /\ Finish(heard, "stopped", TRUE, FALSE)
    BY <1>3 DEF Done
  <2>2. end'.how = "stopped" /\ BillStands'
    BY <1>1, <2>1, FinishBills
  <2>3. EndedUpTo(kiro', tools.calls, upstream, n)
    BY <1>1, <2>1, FinishTellsAll DEF AnswerTypes
  <2>4. /\ kiro' \in KiroStates /\ kiro'.ended = DOMAIN kiro'.calls
        /\ DOMAIN kiro'.calls = {c \in 1..n : tools.calls[c].announced \/ c <= n}
        /\ \A c \in DOMAIN kiro'.calls : kiro'.calls[c] = PiecesSent(c, upstream.sent[c])
    BY <2>3 DEF EndedUpTo
  <2>5. DOMAIN kiro'.calls = upstream.begun
    <3>1. n \in Nat /\ upstream.begun = 1..n
      BY <1>1 DEF BuffersStand
    <3> HIDE DEF n
    <3>2. \A c \in 1..n : c <= n
      BY <3>1
    <3> QED
      BY <2>4, <3>1, <3>2
  <2>6. ASSUME NEW c \in DOMAIN kiro'.calls
        PROVE  /\ kiro'.calls[c] = PiecesSent(c, Len(kiro'.calls[c]))
               /\ Len(kiro'.calls[c]) = upstream.sent[c]
    <3>1. c \in ToolUses /\ upstream.sent[c] \in Nat
      BY <1>1, <2>5 DEF AnswerTypes, Upstreams
    <3>2. SentFacts(c, upstream.sent[c])
      BY <3>1, PiecesFacts
    <3> QED
      BY <2>4, <3>2 DEF SentFacts
  <2>7. CallsReachKiroWhole'
    BY <1>1, <2>4, <2>5, <2>6 DEF CallsReachKiroWhole
  <2>8. AnswerTypes'
    BY <1>1, <2>4 DEF AnswerTypes
  <2> QED
    BY <2>2, <2>7, <2>8 DEF AnswerInv, CallsStand, Open
<1> QED
  BY <1>2, <1>3

Counted(c, size) == [heard EXCEPT !.output = TRUE, !.units = @ + Len(Piece(c, size))]

SpokenOn(c, size, again) == Advance(Opened(c, size, again), tools.live, c)

\* What a piece of call c may come to.
Spoken(c, size, again) ==
  /\ upstream' = SpokenUpstream(c, size)
  /\ \/ c \in upstream.begun /\ size = 0 /\ UNCHANGED <<tools, heard, kiro, end>>
     \/ /\ heard' = Counted(c, size)
        /\ UNCHANGED <<tools, kiro>> /\ Finish(heard', "oversized", FALSE, FALSE)
     \/ /\ heard' = Counted(c, size)
        /\ tools' = [calls |-> SpokenOn(c, size, again).calls, live |-> SpokenOn(c, size, again).live]
        /\ kiro' = HearsAll(kiro, SpokenOn(c, size, again).frames)
        /\ Finish(heard', "failed", FALSE, FALSE) \/ UNCHANGED end

\* A piece is put to its call and told, or is one too many.
LEMMA FragmentSpeaks ==
  ASSUME AnswerInv, NEW c \in ToolUses, Fragment(c)
  PROVE  \E size \in {0, 1}, again \in BOOLEAN : Speaks(c, size, again) /\ Spoken(c, size, again)
<1>1. PICK size \in {0, 1}, again \in BOOLEAN :
        /\ Speaks(c, size, again)
        /\ ToolCallChunk(c, IndexOf(c, upstream), IdOf(c, again), c \notin upstream.begun \/ again,
                         Piece(c, size))
  BY DEF Fragment, Speaks, IndexOf, IdOf, Piece
<1> DEFINE index == IndexOf(c, upstream)  id == IdOf(c, again)  position == Find(index, id)
           named == c \notin upstream.begun \/ again
           nothing == AddsNothing(position, id, named, Piece(c, size))
<1>2. Open /\ BuffersStand(tools.calls, upstream) /\ upstream \in Upstreams
  BY DEF Fragment, AnswerInv, AnswerTypes, CallsStand
<1>3. Finds(c, again)
  BY <1>1, <1>2, FindsCall
<1>4. (IF position = 0 THEN Len(tools.calls) + 1 ELSE position) = c
  BY <1>3 DEF Finds
<1>5. /\ upstream' = SpokenUpstream(c, size)
      /\ IF nothing THEN UNCHANGED <<tools, heard, kiro, end>>
         ELSE /\ heard' = Counted(c, size)
              /\ \/ /\ Finish(Counted(c, size), "oversized", FALSE, FALSE)
                    /\ UNCHANGED <<tools, kiro>>
                 \/ /\ tools' = [calls |-> SpokenOn(c, size, again).calls,
                                 live |-> SpokenOn(c, size, again).live]
                    /\ kiro' = HearsAll(kiro, SpokenOn(c, size, again).frames)
                    /\ Finish(Counted(c, size), "failed", FALSE, FALSE) \/ UNCHANGED end
  <2> DEFINE at == IF position = 0 THEN Len(tools.calls) + 1 ELSE position
             opened == Opened(c, size, again)
             a == Advance(opened, tools.live, at)
             oversized == \/ position = 0 /\ Len(tools.calls) >= MaxToolCalls
                          \/ FoldLeft(LAMBDA n, x : n + Len(x.pieces), 0, opened) > MaxToolPieces
  <2>1. ToolCallChunk(c, index, id, named, Piece(c, size))
    BY <1>1
  <2>2. /\ upstream' = SpokenUpstream(c, size)
        /\ IF nothing THEN UNCHANGED <<tools, heard, kiro, end>>
           ELSE /\ heard' = Counted(c, size)
                /\ IF oversized
                   THEN Finish(Counted(c, size), "oversized", FALSE, FALSE) /\ UNCHANGED <<tools, kiro>>
                   ELSE /\ tools' = [calls |-> a.calls, live |-> a.live]
                        /\ kiro' = HearsAll(kiro, a.frames)
                        /\ IF a.loop = "continued" THEN Finish(Counted(c, size), "failed", FALSE, FALSE)
                           ELSE UNCHANGED end
    BY <2>1, Zenon DEF ToolCallChunk, SpokenUpstream, Counted, Opened
  <2>3. a = SpokenOn(c, size, again)
    BY <1>4 DEF SpokenOn
  <2> HIDE DEF oversized, a, nothing
  <2> QED
    BY <2>2, <2>3
<1>6. nothing => c \in upstream.begun /\ size = 0
  <2> SUFFICES ASSUME nothing PROVE c \in upstream.begun /\ size = 0
    OBVIOUS
  <2>1. Piece(c, size) = <<>>
    BY DEF AddsNothing
  <2>2. size = 0
    <3>1. Len(Piece(c, size)) = 0
      BY <2>1
    <3>2. Len(Piece(c, size)) = size
      BY <1>2, SpokenFacts DEF Updated
    <3> QED
      BY <3>1, <3>2
  <2>3. c \in upstream.begun
    <3> SUFFICES ASSUME c \notin upstream.begun PROVE FALSE
      OBVIOUS
    <3>1. position = 0 /\ id = c /\ c # 0
      BY <1>3 DEF Finds, IdOf
    <3> HIDE DEF position, id
    <3> QED
      BY <3>1 DEF AddsNothing
  <2> QED
    BY <2>2, <2>3
<1> HIDE DEF nothing
<1>7. CASE nothing
  BY <1>1, <1>5, <1>6, <1>7 DEF Spoken
<1>8. CASE ~nothing
  BY <1>1, <1>5, <1>8 DEF Spoken
<1> QED
  BY <1>7, <1>8

\* What Kiro is told of a piece is what it is promised.
LEMMA FragmentKeeps ==
  ASSUME AnswerInv, NEW c \in ToolUses, Fragment(c)
  PROVE  AnswerInv'
<1>1. PICK size \in {0, 1}, again \in BOOLEAN : Speaks(c, size, again) /\ Spoken(c, size, again)
  BY FragmentSpeaks
<1> DEFINE u == SpokenUpstream(c, size)  h == Counted(c, size)  s == SpokenOn(c, size, again)
           opened == Opened(c, size, again)  b == Starting(opened, tools.live)
<1>2. /\ Open /\ AnswerTypes /\ AllStand /\ BillStands
  BY DEF Fragment, AnswerInv, AnswerTypes, CallsStand, AllStand
<1>3. Updated(c, size)
  BY <1>2, SpokenFacts DEF AnswerTypes
<1>4. RoundStands(b, c, kiro, u)
  <2>1. CASE c \in upstream.begun
    BY <1>1, <1>2, <2>1, AddsToBuffer
  <2>2. CASE c \notin upstream.begun
    BY <1>1, <1>2, <2>2, OpensBuffer
  <2> QED
    BY <2>1, <2>2
<1>5. u \in Upstreams /\ kiro \in KiroStates /\ upstream' = u
  BY <1>1, <1>2, <1>3 DEF Updated, AnswerTypes, Spoken
<1>6. RoundEnds(s, c, kiro, u)
  BY <1>4, <1>5, AdvanceKeeps DEF SpokenOn
<1>7. h \in Heards /\ h.output /\ h.usage = heard.usage /\ h.input = heard.input
  <2>1. Len(Piece(c, size)) \in Nat
    BY <1>3 DEF Updated
  <2>2. heard \in Heards /\ heard.units + Len(Piece(c, size)) \in Nat
    BY <1>2, <2>1 DEF AnswerTypes, Heards
  <2>3. h \in Heards
    BY <2>2 DEF Counted, Heards
  <2>4. h.output /\ h.usage = heard.usage /\ h.input = heard.input
    BY <2>2 DEF Counted, Heards
  <2> QED
    BY <2>3, <2>4
<1>8. HeardStands(h, u)
  BY <1>2, <1>3, <1>7 DEF BillStands, HeardStands, Updated
<1> HIDE DEF u, h, s, opened
<1>9. CASE c \in upstream.begun /\ size = 0 /\ UNCHANGED <<tools, heard, kiro, end>>
  <2>1. upstream'.begun = upstream.begun /\ upstream'.dialect = upstream.dialect
        /\ upstream'.restated = upstream.restated
    BY <1>3, <1>5, <1>9 DEF Updated, u
  <2>2. upstream'.sent = upstream.sent
    <3>1. upstream.sent \in [ToolUses -> Nat]
      BY <1>2 DEF AnswerTypes, Upstreams
    <3>2. upstream'.sent = [upstream.sent EXCEPT ![c] = @ + 0]
      BY <1>3, <1>5, <1>9 DEF Updated, u
    <3> QED
      BY <3>1, <3>2
  <2>3. Open' /\ heard' = heard
    BY <1>2, <1>9 DEF Open
  <2>4. CallsStand'
    BY <1>2, <1>9, <2>1, <2>2, <2>3, CallsKeep
  <2>5. BillStands'
    BY <1>2, <1>9, <2>1 DEF BillStands, HeardStands, BillFollowsUpstream, Open
  <2>6. AnswerTypes'
    BY <1>2, <1>5, <1>9 DEF AnswerTypes
  <2> QED
    BY <2>4, <2>5, <2>6 DEF AnswerInv
<1>10. CASE /\ heard' = h
            /\ UNCHANGED <<tools, kiro>> /\ Finish(heard', "oversized", FALSE, FALSE)
  <2>1. end'.how = "oversized" /\ BillStands'
    BY <1>5, <1>7, <1>8, <1>10, FinishBills
  <2>2. BuffersStand(opened, u) /\ KiroStands(opened, tools.live, kiro, u)
    <3>1. b.calls = opened /\ b.live = tools.live /\ b.frames = <<>>
      BY DEF Starting
    <3>2. HearsAll(kiro, <<>>) = kiro
      BY <1>5, HearsAllFacts DEF HearsOneMore
    <3> HIDE DEF b
    <3> QED
      BY <1>4, <3>1, <3>2 DEF RoundStands
  <2>3. \A d \in DOMAIN kiro.calls :
          /\ kiro.calls[d] = PiecesSent(d, Len(kiro.calls[d]))
          /\ d \in kiro.ended => Len(kiro.calls[d]) = u.sent[d]
    BY <1>5, <2>2, StandsWhole
  <2>4. CallsReachKiroWhole'
    BY <1>5, <1>10, <2>1, <2>3 DEF CallsReachKiroWhole
  <2>5. AnswerTypes'
    BY <1>2, <1>5, <1>7, <1>10 DEF AnswerTypes
  <2> QED
    BY <2>1, <2>4, <2>5 DEF AnswerInv, CallsStand, Open
<1>11. CASE /\ heard' = h
            /\ tools' = [calls |-> s.calls, live |-> s.live]
            /\ kiro' = HearsAll(kiro, s.frames)
            /\ Finish(heard', "failed", FALSE, FALSE) \/ UNCHANGED end
  <2>1. /\ s \in Rounds /\ BuffersStand(s.calls, u)
        /\ KiroStands(s.calls, s.live, kiro', u) /\ Caught(s.calls, s.live, u)
    BY <1>6, <1>11 DEF RoundEnds, RoundStands
  <2>2. /\ tools'.calls = s.calls /\ tools'.live = s.live
        /\ tools' \in [calls : Seq(Buffers), live : Nat]
    BY <1>11, <2>1 DEF Rounds
  <2>3. kiro' \in KiroStates
    BY <1>5, <1>11, <2>1, HearsAllFacts DEF HearsOneMore, Rounds
  <2>4. AnswerTypes'
    BY <1>5, <1>7, <1>11, <2>2, <2>3 DEF AnswerTypes
  <2>5. CASE Finish(heard', "failed", FALSE, FALSE)
    <3>1. end'.how = "failed" /\ BillStands'
      BY <1>5, <1>7, <1>8, <1>11, <2>5, FinishBills
    <3>2. \A d \in DOMAIN kiro'.calls :
            /\ kiro'.calls[d] = PiecesSent(d, Len(kiro'.calls[d]))
            /\ d \in kiro'.ended => Len(kiro'.calls[d]) = u.sent[d]
      BY <1>5, <2>1, StandsWhole
    <3>3. CallsReachKiroWhole'
      BY <1>5, <3>1, <3>2 DEF CallsReachKiroWhole
    <3> QED
      BY <2>4, <3>1, <3>3 DEF AnswerInv, CallsStand, Open
  <2>6. CASE UNCHANGED end
    <3>1. Open' /\ end'.bill = {}
      BY <1>2, <2>6 DEF Open, BillStands
    <3>2. BillStands'
      BY <1>5, <1>8, <1>11, <3>1 DEF BillStands, BillFollowsUpstream
    <3>3. CallsStand'
      BY <1>5, <1>7, <1>11, <2>1, <2>2, <3>1 DEF CallsStand
    <3> QED
      BY <2>4, <3>2, <3>3 DEF AnswerInv
  <2> QED
    BY <1>11, <2>5, <2>6
<1> QED
  BY <1>1, <1>9, <1>10, <1>11 DEF Spoken, h, s

\* An answer that begins has nothing to stand on.
LEMMA AnswerStarts ==
  AnswerInit => AnswerInv
<1> SUFFICES ASSUME AnswerInit PROVE AnswerInv
  OBVIOUS
<1> DEFINE zero == [c \in ToolUses |-> 0]  none == [c \in {} |-> <<>>]
<1>1. PICK d \in Dialects :
        upstream = [dialect |-> d, said |-> 0, sent |-> zero, begun |-> {}, stopped |-> FALSE,
                    reports |-> 0, restated |-> {}, noise |-> 0, garbled |-> 0]
  BY DEF AnswerInit
<1>2. zero \in [ToolUses -> Nat] /\ \A c \in ToolUses : zero[c] = 0
  OBVIOUS
<1>3. none \in [{} -> Seq(Pieces)] /\ DOMAIN none = {} /\ {} \in SUBSET Nat
  OBVIOUS
<1>4. /\ tools = [calls |-> <<>>, live |-> 0]
      /\ heard = [output |-> FALSE, units |-> 0, usage |-> NoTokens,
                  frame |-> FALSE, input |-> FALSE, stop |-> "none"]
      /\ kiro = [last |-> 0, calls |-> none, ended |-> {}]
      /\ end = [how |-> "open", completed |-> FALSE, emptied |-> FALSE, bill |-> {}]
  BY DEF AnswerInit
<1> HIDE DEF zero, none
<1>5. upstream \in Upstreams
  BY <1>1, <1>2 DEF Upstreams
<1>6. kiro \in KiroStates /\ DOMAIN kiro.calls = {} /\ kiro.ended = {}
  <2>1. none \in UNION {[C -> Seq(Pieces)] : C \in SUBSET Nat}
    BY <1>3
  <2> QED
    BY <1>3, <1>4, <2>1 DEF KiroStates
<1>7. heard \in Heards
  <2>1. NoTokens \in TokenCounts
    BY DEF NoTokens, TokenCounts
  <2> QED
    BY <1>4, <2>1 DEF Heards
<1>8. tools \in [calls : Seq(Buffers), live : Nat] /\ tools.calls = <<>> /\ tools.live = 0
  <2>1. <<>> \in Seq(Buffers)
    OBVIOUS
  <2> QED
    BY <1>4, <2>1
<1>9. BuffersStand(tools.calls, upstream)
  <2>1. <<>> \in Seq(Buffers) /\ Len(<<>>) = 0 /\ 1..0 = {}
    OBVIOUS
  <2> QED
    BY <1>1, <1>2, <1>8, <2>1 DEF BuffersStand
<1>10. KiroStands(tools.calls, tools.live, kiro, upstream) /\ Caught(tools.calls, tools.live, upstream)
  <2>1. Len(<<>>) = 0 /\ 1..0 = {} /\ 0 \in 0..0
    OBVIOUS
  <2> QED
    BY <1>6, <1>8, <2>1 DEF KiroStands, Caught
<1>11. BillStands
  BY <1>1, <1>4 DEF BillStands, HeardStands, BillFollowsUpstream
<1>12. CallsStand
  BY <1>1, <1>4, <1>9, <1>10 DEF CallsStand, Open
<1> QED
  BY <1>5, <1>6, <1>7, <1>8, <1>11, <1>12 DEF AnswerInv, AnswerTypes

\* Every reachable state of an answer stands (create_stream_guard, ToolCalls::advance).
THEOREM AnswerInvariance == AnswerSpec => []AnswerInv
<1>1. ASSUME AnswerInv, [AnswerNext]_answerVars PROVE AnswerInv'
  <2>1. CASE Delta
    BY <1>1, <2>1, DeltaKeeps
  <2>2. CASE \E c \in ToolUses : Fragment(c)
    BY <1>1, <2>2, FragmentKeeps
  <2>3. CASE \E report \in Reported(upstream.dialect) : Usage(report)
    BY <1>1, <2>3, UsageKeeps
  <2>4. CASE \E reason \in StopReasons : StopReason(reason)
    BY <1>1, <2>4, StopReasonKeeps
  <2>5. CASE Done
    BY <1>1, <2>5, DoneKeeps
  <2>6. CASE BreaksOff \/ KiroLeaves
    BY <1>1, <2>6, BreaksOffKeeps
  <2>7. CASE \E garbled \in BOOLEAN : Noise(garbled)
    BY <1>1, <2>7, NoiseKeeps
  <2>8. CASE UNCHANGED answerVars
    BY <1>1, <2>8 DEF answerVars, AnswerInv, AnswerTypes, BillStands, CallsStand, Open,
       CallsReachKiroWhole, BillFollowsUpstream
  <2> QED
    BY <1>1, <2>1, <2>2, <2>3, <2>4, <2>5, <2>6, <2>7, <2>8 DEF AnswerNext
<1> QED
  BY <1>1, AnswerStarts, PTL DEF AnswerSpec

\* However an upstream interleaves its calls and tells them apart, Kiro puts each together
\* from its own pieces in their order, is told of the end of none before it is whole, and
\* has every call of an answer told as whole (ToolCalls::advance, ToolCalls::finish): for any
\* number of calls, of pieces and of interleavings.
THEOREM CallsAlwaysReachKiroWhole == AnswerSpec => []CallsReachKiroWhole
<1>1. AnswerInv => CallsReachKiroWhole
  <2> SUFFICES ASSUME AnswerInv, Open PROVE CallsReachKiroWhole
    BY DEF AnswerInv, CallsStand
  <2>1. /\ upstream \in Upstreams
        /\ BuffersStand(tools.calls, upstream)
        /\ KiroStands(tools.calls, tools.live, kiro, upstream)
    BY DEF AnswerInv, AnswerTypes, CallsStand
  <2> QED
    BY <2>1, StandsWhole DEF CallsReachKiroWhole, Open
<1> QED
  BY <1>1, AnswerInvariance, PTL

\* A bill has the prompt as the upstream restated it last, and output between half of what
\* was streamed and what was streamed or reported (resolve_settlement_tokens,
\* TokenUsage::merge): for any counts, in any order.
THEOREM BillAlwaysFollowsUpstream == AnswerSpec => []BillFollowsUpstream
<1>1. AnswerInv => BillFollowsUpstream
  BY DEF AnswerInv, BillStands
<1> QED
  BY <1>1, AnswerInvariance, PTL
=============================================================================
