-------------------------------- MODULE Sessions --------------------------------
(* How a customer stays signed in: one card, the devices it is used on, the    *)
(* tokens the gateway issues for it, and what ends them.                       *)
(*                                                                             *)
(* The card counts its revocations (token_version) and its refresh tokens      *)
(* (refresh_version). Every change to a card is one step under the engine's    *)
(* state lock; a refresh is not: it reads the card, rotates under the lock,    *)
(* reads the card again, and its answer may never arrive. On a device all      *)
(* windows of Kiro and the desktop client share one token file, each reading   *)
(* it before its refresh and writing it after.                                 *)
EXTENDS Integers

CONSTANTS
  Devices, NoDevice,  \* devices the card is used on, and none
  Windows, Device,    \* what refreshes tokens: windows of Kiro and the desktop client
  Desktop,            \* the windows that are desktop clients, one on a device at most
  CopiedTo,           \* devices another one's token file comes to
  MaxSignIns,         \* bound on sign-ins and activations
  MaxRevocations,     \* bound on what ends the card's tokens
  MaxRotations        \* bound on rotations

ASSUME SeatsAreDevices ==
  /\ NoDevice \notin Devices
  /\ Device \in [Windows -> Devices]
  /\ Desktop \subseteq Windows
  /\ CopiedTo \subseteq Devices

VARIABLES
  card,      \* the card as committed
  rotated,   \* its refresh_rotated_at: "never", within "grace", or "long" ago
  login,     \* the token a device's sign-in was answered with, until it is saved
  file,      \* each device's token file
  fresh,     \* devices whose access token is good for another minute
  signedIn,  \* windows that were not told their tokens are worth nothing
  refresh,   \* each window's refresh: how far it is, and the token it presented
  owed,      \* windows whose refresh went unanswered and is to be repeated
  issued,    \* history: access tokens given out that could still be valid
  spoilt     \* history: since the last sign-in a refresh of it met an ended card, or
             \* its token was copied to another device

vars == <<card, rotated, login, file, fresh, signedIn, refresh, owed, issued, spoilt>>

NoToken == [signIn |-> 0]
Idle == [stage |-> "idle", live |-> FALSE, token |-> NoToken, got |-> NoToken]

--------------------------------------------------------------------------------
(* The card.                                                                   *)

CheckActive == card.status = "Active" /\ ~card.lapsed

BindDevice(d) == card.bound \in {NoDevice, d}

\* Whether the card may be activated: an active one must not have lapsed.
Activatable == card.status = "Unactivated" \/ CheckActive

\* A sign-in or activation. A new family of refresh tokens starts.
Activated(d) ==
  [card EXCEPT !.status = "Active",
               !.bound = IF d = NoDevice THEN @ ELSE d,
               !.refresh = @ + 1, !.signIn = @ + 1]

\* Mutant: the grace of the last rotation outlives the sign-in.
ActivateWithinGrace(d) ==
  /\ card.signIn < MaxSignIns
  /\ Activatable
  /\ d = NoDevice \/ BindDevice(d)
  /\ card' = Activated(d)
  /\ UNCHANGED rotated
  /\ spoilt' = FALSE

ActivateCardWithDevice(d) ==
  /\ card.signIn < MaxSignIns
  /\ Activatable
  /\ d = NoDevice \/ BindDevice(d)
  /\ card' = Activated(d)
  /\ rotated' = "never"
  /\ spoilt' = FALSE

\* Everything that ends the card's tokens counts its token_version up.
Revoked(c) == [c EXCEPT !.version = @ + 1]

\* Tokens of an older version never verify again.
EndTokens(c) ==
  /\ card' = c
  /\ issued' = {t \in issued : t.version = c.version}

MayRevoke == card.version < MaxRevocations

UnbindDevice == [Revoked(card) EXCEPT !.bound = NoDevice]

\* Mutant: the freed device keeps its tokens.
AdminUnbindOnly == [card EXCEPT !.bound = NoDevice]

AdminUnbindDevice == [Revoked(card) EXCEPT !.bound = NoDevice]

--------------------------------------------------------------------------------
(* Signing in on a device.                                                     *)

Busy(d) == \E w \in Desktop : Device[w] = d /\ refresh[w].live

\* The tokens a step of the gateway hands out name the card it read or wrote; which
\* sign-in they go back to, and of which device, is kept for the properties.
Token(c, d) ==
  [signIn |-> c.signIn, device |-> d, version |-> c.version, refresh |-> c.refresh]

Access(t) == [device |-> t.device, version |-> t.version]

\* The desktop client asks while Kiro still runs, but never beside its own refresh:
\* both hold its session lock.
SignIn(d) ==
  /\ login[d] = NoToken /\ ~Busy(d)
  /\ ActivateCardWithDevice(d)
  /\ login' = [login EXCEPT ![d] = Token(card', d)]
  /\ issued' = issued \cup {Access(Token(card', d))}
  /\ UNCHANGED <<file, fresh, signedIn, refresh, owed>>

\* The gateway goes on with a refresh whose client is gone, until it would answer.
Abandoned(w) == IF refresh[w].stage \in {"asked", "verified", "rotated"}
                THEN [refresh[w] EXCEPT !.live = FALSE] ELSE Idle

\* Kiro is closed before the token is written: what it was waiting for is lost.
SaveSignIn(d) ==
  LET here == {w \in Windows : Device[w] = d}
  IN  /\ login[d] # NoToken
      /\ file' = [file EXCEPT ![d] = login[d]]
      /\ login' = [login EXCEPT ![d] = NoToken]
      /\ fresh' = fresh \cup {d}
      /\ signedIn' = signedIn \cup here
      /\ owed' = owed \ here
      /\ refresh' = [w \in Windows |->
                       IF w \in here THEN Abandoned(w) ELSE refresh[w]]
      /\ UNCHANGED <<card, rotated, issued, spoilt>>

\* No answer arrives, or the client is stopped before it wrote the token.
LoseSignIn(d) ==
  /\ login[d] # NoToken
  /\ login' = [login EXCEPT ![d] = NoToken]
  /\ UNCHANGED <<card, rotated, file, fresh, signedIn, refresh, owed, issued, spoilt>>

--------------------------------------------------------------------------------
(* A refresh.                                                                  *)

At(w, stage) == refresh[w].stage = stage

\* The presented token is read from the file.
Ask(w) ==
  LET d == Device[w]
  IN  /\ At(w, "idle") /\ w \in signedIn
      /\ w \in Desktop => login[d] = NoToken
      /\ file[d] # NoToken /\ d \notin fresh
      /\ refresh' = [refresh EXCEPT ![w] =
                       [Idle EXCEPT !.stage = "asked", !.live = TRUE, !.token = file[d]]]
      /\ UNCHANGED <<card, rotated, login, file, fresh, signedIn, owed, issued, spoilt>>

Latest(t) == t.signIn = card.signIn

\* The refresh comes to a stage; an answer nobody waits for is gone.
Tell(w, stage, got) ==
  [refresh EXCEPT ![w] =
     IF stage \in {"answered", "used", "ended"} /\ ~@.live
     THEN Idle ELSE [@ EXCEPT !.stage = stage, !.got = got]]

VerifyTokenForCard(t) == CheckActive /\ card.version = t.version

\* The refresh goes on if the card still stands for the token, or is refused.
Judge(w, t, next) ==
  /\ refresh' = Tell(w, IF VerifyTokenForCard(t) THEN next ELSE "ended", refresh[w].got)
  /\ spoilt' = (spoilt \/ (Latest(t) /\ ~VerifyTokenForCard(t)))

\* The token's version and group are held against the card before it is rotated.
Verify(w) ==
  /\ At(w, "asked")
  /\ Judge(w, refresh[w].token, "verified")
  /\ UNCHANGED <<card, rotated, login, file, fresh, signedIn, owed, issued>>

\* Mutant: a retry rotates as the refresh it repeats did.
RotatesRetries(t) ==
  t.refresh = card.refresh \/ (t.refresh + 1 = card.refresh /\ rotated = "grace")

Rotates(t) == t.refresh = card.refresh

\* The token one behind is a retry for as long as its replacement is young.
Reissues(t) == t.refresh + 1 = card.refresh /\ rotated = "grace"

\* The new pair keeps the claims that were verified.
Got(t, c) == [Token(c, t.device) EXCEPT !.version = t.version]

RotateRefresh(w) ==
  LET t == refresh[w].token
  IN  /\ At(w, "verified")
      /\ \/ /\ Rotates(t)
            /\ card.refresh < card.signIn + MaxRotations
            /\ card' = [card EXCEPT !.refresh = @ + 1]
            /\ rotated' = "grace"
         \/ ~Rotates(t) /\ UNCHANGED <<card, rotated>>
      /\ refresh' = IF Rotates(t) \/ Reissues(t)
                    THEN Tell(w, "rotated", Got(t, card'))
                    ELSE Tell(w, "used", NoToken)
      /\ UNCHANGED <<login, file, fresh, signedIn, owed, issued, spoilt>>

\* The card is read once more before the answer.
Answer(w) ==
  LET t == refresh[w].got
  IN  /\ At(w, "rotated")
      /\ Judge(w, t, "answered")
      /\ issued' = IF VerifyTokenForCard(t) THEN issued \cup {Access(t)} ELSE issued
      /\ UNCHANGED <<card, rotated, login, file, fresh, signedIn, owed>>

\* The windows of a device find the new token in its file.
Save(w) ==
  /\ At(w, "answered") /\ refresh[w].live
  /\ file' = [file EXCEPT ![Device[w]] = refresh[w].got]
  /\ fresh' = fresh \cup {Device[w]}
  /\ owed' = {v \in owed : Device[v] # Device[w]}
  /\ refresh' = [refresh EXCEPT ![w] = Idle]
  /\ UNCHANGED <<card, rotated, login, signedIn, issued, spoilt>>

\* A refused window asks no more until the next sign-in.
Refused(w) ==
  /\ refresh[w].stage \in {"used", "ended"} /\ refresh[w].live
  /\ signedIn' = signedIn \ {w}
  /\ owed' = owed \ {w}
  /\ refresh' = [refresh EXCEPT ![w] = Idle]
  /\ UNCHANGED <<card, rotated, login, file, fresh, issued, spoilt>>

\* The window gets no answer, or one that asks it to come back (a full budget, a
\* failed write, of which nothing stays). What it asked for may still be done.
Unanswered(w) ==
  /\ refresh[w].live
  /\ owed' = owed \cup {w}
  /\ \/ refresh[w].stage # "rotated" /\ refresh' = [refresh EXCEPT ![w] = Idle]
     \/ refresh' = [refresh EXCEPT ![w] = Abandoned(w)]
  /\ UNCHANGED <<card, rotated, login, file, fresh, signedIn, issued, spoilt>>

\* A device's token file comes to another device: with a backup, or taken off it.
CopyFile(d, e) ==
  /\ file[d] # NoToken /\ file[e] # file[d]
  /\ \A w \in Windows : Device[w] = e => ~refresh[w].live
  /\ file' = [file EXCEPT ![e] = file[d]]
  /\ fresh' = fresh \ {e}
  /\ signedIn' = signedIn \cup {w \in Windows : Device[w] = e}
  /\ spoilt' = (spoilt \/ Latest(file[d]))
  /\ UNCHANGED <<card, rotated, login, refresh, owed, issued>>

Exchange(w) == \/ Ask(w)
               \/ Verify(w)
               \/ RotateRefresh(w)
               \/ Answer(w)
               \/ Save(w)
               \/ Refused(w)
               \/ Unanswered(w)

--------------------------------------------------------------------------------
(* The portal and the operator.                                                *)

\* The portal activates a card without signing in on a device, or binds one.
PortalActivate ==
  /\ \/ /\ card.status = "Unactivated"
        /\ \E d \in Devices \cup {NoDevice} : ActivateCardWithDevice(d)
     \/ /\ CheckActive
        /\ \E d \in Devices : BindDevice(d) /\ card' = [card EXCEPT !.bound = d]
        /\ UNCHANGED <<rotated, spoilt>>
  /\ UNCHANGED <<login, file, fresh, signedIn, refresh, owed, issued>>

\* The customer unbinds on the portal. How often they may is not modelled: an
\* unbinding past the allowance changes nothing.
PortalUnbind ==
  /\ card.bound # NoDevice /\ MayRevoke
  /\ EndTokens(UnbindDevice)
  /\ UNCHANGED <<rotated, login, file, fresh, signedIn, refresh, owed, spoilt>>

\* The operator frees the seat, or ends the sessions: by revoking them, moving the
\* card to another group or giving it a new code.
OperatorRevokes ==
  /\ MayRevoke
  /\ \/ card.bound # NoDevice /\ EndTokens(AdminUnbindDevice)
     \/ EndTokens(Revoked(card))
  /\ UNCHANGED <<rotated, login, file, fresh, signedIn, refresh, owed, spoilt>>

\* Freezing a card, or banning it, ends its sessions; lifting that brings none back.
FreezeOrUnfreeze ==
  /\ \/ /\ card.status # "Frozen" /\ MayRevoke
        /\ EndTokens([Revoked(card) EXCEPT !.status = "Frozen", !.from = card.status])
     \/ /\ card.status = "Frozen"
        /\ card' = [card EXCEPT !.status = card.from, !.from = "Unactivated"]
        /\ UNCHANGED issued
  /\ UNCHANGED <<rotated, login, file, fresh, signedIn, refresh, owed, spoilt>>

\* The card's validity ends, or is extended (by the operator, a code, another card).
Validity ==
  /\ card.status # "Unactivated"
  /\ card' = [card EXCEPT !.lapsed = ~@]
  /\ UNCHANGED <<rotated, login, file, fresh, signedIn, refresh, owed, issued, spoilt>>

--------------------------------------------------------------------------------
(* The clock.                                                                  *)

\* Two minutes are longer than any exchange a window waits for, and an unanswered
\* window asks again within them.
Settled == owed = {} /\ \A w \in Windows : ~refresh[w].live

GraceEnds ==
  /\ rotated = "grace" /\ Settled
  /\ rotated' = "long"
  /\ UNCHANGED <<card, login, file, fresh, signedIn, refresh, owed, issued, spoilt>>

\* An hour later the access tokens are due; the gateway answered everything by then.
HourPasses ==
  /\ fresh # {} /\ Settled
  /\ \A w \in Windows : At(w, "idle")
  /\ fresh' = {}
  /\ rotated' = IF rotated = "grace" THEN "long" ELSE rotated
  /\ UNCHANGED <<card, login, file, signedIn, refresh, owed, issued, spoilt>>

--------------------------------------------------------------------------------
SessionsInit ==
  /\ card = [status |-> "Unactivated", from |-> "Unactivated", lapsed |-> FALSE,
             version |-> 0, refresh |-> 0, signIn |-> 0,
             bound |-> NoDevice]
  /\ rotated = "never"
  /\ login = [d \in Devices |-> NoToken]
  /\ file = [d \in Devices |-> NoToken]
  /\ fresh = {} /\ signedIn = {} /\ owed = {} /\ issued = {} /\ spoilt = FALSE
  /\ refresh = [w \in Windows |-> Idle]

SessionsNext ==
  \/ \E d \in Devices : SignIn(d) \/ SaveSignIn(d) \/ LoseSignIn(d)
  \/ \E w \in Windows : Exchange(w)
  \/ \E d \in Devices, e \in CopiedTo : CopyFile(d, e)
  \/ PortalActivate
  \/ PortalUnbind
  \/ OperatorRevokes
  \/ FreezeOrUnfreeze
  \/ Validity
  \/ GraceEnds
  \/ HourPasses

SessionsSpec == SessionsInit /\ [][SessionsNext]_vars

--------------------------------------------------------------------------------
(* Properties.                                                                 *)

\* The devices of issued tokens, and what a refresh may be.
SessionsTypeOK ==
  /\ card.status \in {"Unactivated", "Active", "Frozen"}
  /\ card.bound \in Devices \cup {NoDevice}
  /\ rotated \in {"never", "grace", "long"}
  /\ issued \subseteq [device : Devices, version : 0 .. MaxRevocations]
  /\ fresh \subseteq Devices
  /\ owed \cup signedIn \subseteq Windows

OneDeviceServed == \A t \in issued : VerifyTokenForCard(t) => t.device = card.bound

SignInSupersedes ==
  \A w \in Windows : refresh[w].got # NoToken => refresh[w].got.signIn = refresh[w].token.signIn

\* A card serves one device and one sign-in: whatever access token still verifies goes
\* back to a sign-in on the device that is bound, however refreshes, sign-ins and
\* unbindings interleave; and no refresh carries a token over into a later sign-in, not
\* as a retry within the grace window, and not from a copy on another device.
OneSignInServed == OneDeviceServed /\ SignInSupersedes

\* Lost answers, retries and windows that refresh side by side sign nobody out: a
\* waiting window is only told its token was used once a later sign-in replaced it, or
\* if a refresh of the same sign-in was refused because the card had ended, or its token
\* was copied: who refreshes first then keeps the session.
RefreshesKeepSession ==
  \A w \in Windows :
    At(w, "used") /\ refresh[w].live =>
      \/ refresh[w].token.signIn < card.signIn
      \/ spoilt
=============================================================================
