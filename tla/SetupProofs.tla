------------------------------ MODULE SetupProofs ------------------------------
(***************************************************************************)
(* Theorems about setting the program up, for every number of `init`s and  *)
(* logins, of process ids and of names for a temporary file.  The files    *)
(* are the business of the `init`s alone and the codes that of the logins: *)
(* there is an inductive invariant for each.                               *)
(***************************************************************************)
EXTENDS Setup, TLAPS

USE SetupAssumption, DistinctAssumption

-----------------------------------------------------------------------------
(* The config                                                              *)

Writing(p) == pc[p] \in {"write", "rename"}

\* The file under the name an `init` has opened is its own, and complete when it
\* is to be renamed; no two live ones share an id.
OwnTemp ==
  /\ \A p, q \in Inits : p \in Live /\ q \in Live /\ p # q => pid[p] # pid[q]
  /\ \A p \in Inits : At(p, "rename") => temps[Name(p)] = Entered(p)

\* What an `init` has answered stays as it is once it is in the config.
AuthorIsDone ==
  \A p \in Inits : config # NoConfig /\ config.by = p => At(p, "ended")

InitInv == TypeOK /\ OwnTemp /\ ConfigIsWhole /\ AuthorIsDone

InitAction(p) == Check(p) \/ Prompt(p) \/ InitStep(p) \/ KillInit(p)

LoginAction(p) ==
  \/ Load(p) \/ LoginStep(p) \/ KillLogin(p) \/ Approve(p)
  \/ Connect(p) \/ Stray(p)
  \/ \E r \in Logins \cup {Junk} : Paste(p, r)
  \/ \E c \in Logins : Follow(c, p)

LEMMA NextSplits ==
  ASSUME Next
  PROVE  \/ \E p \in Inits : InitAction(p)
         \/ \E p \in Logins : LoginAction(p)
BY DEF Next, InitAction, LoginAction

\* What the logins do is nothing to the `init`s.
LoginFrame(p) ==
  /\ UNCHANGED <<files, init>>
  /\ redirect' \in [Logins -> Uris]
  /\ url' \in [Logins -> Uris \cup Logins \cup {NoUrl}]
  /\ request' \in [Logins -> Logins \cup {Junk, NoRequest, Silent}]
  /\ code' \in [Logins -> Logins]
  /\ approved' \subseteq Logins /\ spent' \subseteq Logins
  /\ token' \in Token \cup {NoToken}
  /\ pc' \in [Procs -> {"idle", "ended"} \cup InitPlaces \cup LoginPlaces]
  /\ \A q \in Inits : pc'[q] = pc[q]

LEMMA LoginFrames ==
  ASSUME TypeOK, NEW p \in Logins, LoginAction(p)
  PROVE  LoginFrame(p)
<1> USE DEF TypeOK, LoginFrame, At, Goto, EndLogin, Procs, LoginPlaces,
            files, login, init, world
<1>1. CASE Load(p)
  BY <1>1 DEF Load, Show, Advertised, Config, Uris
<1>2. CASE Bind(p)
  BY <1>2 DEF Bind, Show, Advertised, Uris
<1>3. ASSUME NEW r \in Logins \cup {Junk}, Take(p, r), UNCHANGED <<files, init, url, token, world>>
      PROVE  LoginFrame(p)
  BY <1>3, r = p => r \in Logins DEF Take, Keep, Uris
<1>4. ASSUME NEW r \in Logins \cup {Junk}, Accept(p, r) PROVE LoginFrame(p)
  <2>1. CASE Take(p, r)
    BY <1>4, <1>3, <2>1 DEF Accept
  <2>2. CASE EndLogin(p)
    BY <1>4, <2>2 DEF Accept, Uris
  <2> QED BY <1>4, <2>1, <2>2 DEF Accept
<1>5. ASSUME NEW r \in Logins \cup {Junk}, Paste(p, r) PROVE LoginFrame(p)
  BY <1>5, <1>3 DEF Paste
<1>6. CASE Exchange(p)
  BY <1>6 DEF Exchange, Spend, Received, Uris
<1>7. CASE StoreToken(p)
  <2>1. [login |-> p, code |-> code[p]] \in Token
    BY DEF Token
  <2> QED BY <1>7, <2>1 DEF StoreToken, Uris
<1>8. CASE KillLogin(p)
  BY <1>8 DEF KillLogin, Uris
<1>9. CASE Approve(p)
  BY <1>9 DEF Approve
<1>10. ASSUME NEW r \in Logins \cup {Junk}, Arrive(p, r) PROVE LoginFrame(p)
  BY <1>10 DEF Arrive
<1>11. CASE Connect(p)
  BY <1>11 DEF Connect
<1> QED
  BY <1>1, <1>2, <1>4, <1>5, <1>6, <1>7, <1>8, <1>9, <1>10, <1>11
  DEF LoginAction, LoginStep, Stray, Follow

LEMMA NameIsOne ==
  ASSUME TypeOK, NEW p \in Inits
  PROVE  Name(p) \in Names
BY DEF TypeOK, Name, Names

LEMMA EnteredIsConfig ==
  ASSUME TypeOK, NEW p \in Inits
  PROVE  /\ Entered(p) \in Config
         /\ Entered(p).by = p
BY DEF TypeOK, Entered, Config

\* What a step of an `init` may do: to begin, if no live one has its id; to change
\* the file under its name; to have it complete; to make it the config, and end.
InitFrame(p) ==
  /\ UNCHANGED <<force, pid, login, world>>
  /\ pc[p] # "ended"
  /\ \A q \in Procs \ {p} : pc'[q] = pc[q]
  /\ \A q \in Inits \ {p} : entered'[q] = entered[q] /\ attempt'[q] = attempt[q]
  /\ p \in Live \/ \A q \in Live \cap Inits : pid[q] # pid[p]
  /\ temps' = temps \/ p \in Live
  /\ \A n \in Names \ {Name(p)} : temps'[n] = temps[n]
  /\ At(p, "rename")' => /\ UNCHANGED <<entered, attempt>>
                         /\ temps'[Name(p)] = Entered(p)
  /\ \/ config' = config
     \/ At(p, "rename") /\ At(p, "ended")' /\ entered' = entered
        /\ config' = temps[Name(p)]

LEMMA InitFrames ==
  ASSUME TypeOK, OwnTemp, NEW p \in Inits, InitAction(p)
  PROVE  TypeOK' /\ InitFrame(p)
<1>1. Name(p) \in Names /\ Entered(p) \in Config
  BY NameIsOne, EnteredIsConfig
<1> USE <1>1 DEF TypeOK, InitFrame, At, Goto, EndInit, Live, Procs, InitPlaces,
            files, login, init, world
<1>2. CASE Check(p)
  BY <1>2 DEF Check
<1>3. CASE Prompt(p)
  BY <1>3 DEF Prompt
<1>4. CASE StartSave(p)
  BY <1>4 DEF StartSave
<1>5. CASE OpenTemp(p)
  BY <1>5, SMTT(30) DEF OpenTemp
<1>6. ASSUME AbandonTemp(p), p \in Live PROVE TypeOK' /\ InitFrame(p)
  BY <1>6 DEF AbandonTemp
<1>7. CASE Write(p)
  BY <1>6, <1>7 DEF Write
<1>8. CASE Rename(p)
  BY <1>6, <1>8, SMTT(30) DEF Rename, OwnTemp
<1>9. CASE KillInit(p)
  BY <1>9 DEF KillInit
<1> QED
  BY <1>2, <1>3, <1>4, <1>5, <1>7, <1>8, <1>9 DEF InitAction, InitStep

LEMMA InitHoldsFirst == Init => InitInv
<1> SUFFICES ASSUME Init PROVE InitInv
  OBVIOUS
<1>1. TypeOK
  BY DEF Init, TypeOK, Config, Uris, Procs, InitPlaces, LoginPlaces
<1>2. \A p \in Inits : ~(config # NoConfig /\ config.by = p)
  BY DEF Init
<1>3. \A p \in Inits : pc[p] = "idle"
  BY DEF Init, Procs
<1>4. OwnTemp
  BY <1>3 DEF OwnTemp, Live, At
<1>5. config # Torn
  BY <1>1 DEF TypeOK
<1> QED
  BY <1>1, <1>2, <1>4, <1>5 DEF InitInv, ConfigIsWhole, AuthorIsDone

LEMMA StepKeepsInitInv == InitInv /\ [Next]_vars => InitInv'
<1> SUFFICES ASSUME InitInv, [Next]_vars PROVE InitInv'
  OBVIOUS
<1> USE DEF InitInv
<1>1. CASE UNCHANGED vars
  BY <1>1 DEF vars, files, init, login, world, TypeOK, OwnTemp, ConfigIsWhole,
     AuthorIsDone, Live, At, Name, Entered
<1>2. ASSUME NEW p \in Logins, LoginAction(p) PROVE InitInv'
  <2>1. LoginFrame(p)
    BY <1>2, LoginFrames
  <2>2. TypeOK'
    BY <2>1 DEF LoginFrame, TypeOK, files, init
  <2> QED
    BY <2>1, <2>2 DEF LoginFrame, files, init, OwnTemp, ConfigIsWhole,
       AuthorIsDone, Live, At, Name, Entered, Procs
<1>3. ASSUME NEW p \in Inits, InitAction(p) PROVE InitInv'
  <2>1. TypeOK' /\ InitFrame(p)
    BY <1>3, InitFrames
  <2>2. \A q, r \in Inits : q \in Live' /\ r \in Live' /\ q # r => pid'[q] # pid'[r]
    BY <2>1 DEF InitFrame, OwnTemp, Live, Procs
  <2>3. ASSUME NEW q \in Inits, At(q, "rename")'
        PROVE  temps'[Name(q)'] = Entered(q)'
    <3>1. CASE q = p
      BY <2>1, <2>3, <3>1 DEF InitFrame, Name, Entered
    <3>2. CASE q # p
      <4>1. At(q, "rename") /\ q \in Live /\ q \in Procs
        BY <2>1, <2>3, <3>2 DEF InitFrame, At, Live, Procs
      <4>2. Name(q)' = Name(q) /\ Entered(q)' = Entered(q)
        BY <2>1, <3>2 DEF InitFrame, Name, Entered
      <4>3. temps = temps' \/ Name(q) # Name(p)
        BY <2>1, <3>2, <4>1 DEF InitFrame, OwnTemp, Name
      <4>4. temps'[Name(q)] = temps[Name(q)]
        BY <2>1, <4>3, NameIsOne DEF InitFrame
      <4> QED
        BY <4>1, <4>2, <4>4 DEF OwnTemp
    <3> QED BY <3>1, <3>2
  <2>4. ASSUME NEW q \in Inits, config' # NoConfig, config'.by = q
        PROVE  At(q, "ended")' /\ config' = Entered(q)'
    <3>1. CASE config' = config
      BY <2>1, <2>4, <3>1 DEF InitFrame, AuthorIsDone, ConfigIsWhole, At, Entered, Procs
    <3>2. CASE At(p, "rename") /\ At(p, "ended")' /\ entered' = entered /\ config' = temps[Name(p)]
      <4>1. config' = Entered(p)
        BY <3>2 DEF OwnTemp
      <4>2. q = p
        BY <2>4, <4>1, EnteredIsConfig
      <4> QED
        BY <3>2, <4>1, <4>2 DEF Entered
    <3> QED BY <2>1, <3>1, <3>2 DEF InitFrame
  <2>5. config' # Torn
    BY <2>1 DEF TypeOK
  <2> QED
    BY <2>1, <2>2, <2>3, <2>4, <2>5 DEF OwnTemp, ConfigIsWhole, AuthorIsDone
<1> QED
  BY <1>1, <1>2, <1>3, NextSplits

LEMMA InitInvHolds == Spec => []InitInv
BY InitHoldsFirst, StepKeepsInitInv, PTL DEF Spec

\* Every variable has its type.
THEOREM Typing == Spec => []TypeOK
<1>1. InitInv => TypeOK
  BY DEF InitInv
<1> QED BY <1>1, InitInvHolds, PTL

\* The config is never a part of what a user has entered, whatever other `init`s
\* run, are killed, or have left behind (config_persistence.rs).
THEOREM ConfigIsAlwaysWhole == Spec => []ConfigIsWhole
<1>1. InitInv => ConfigIsWhole
  BY DEF InitInv
<1> QED BY <1>1, InitInvHolds, PTL

\* An `init` that goes on unforced has found no config.
FoundNone == \A p \in Inits : p \in Live /\ ~force[p] => found[p] = NoConfig

LEMMA StepKeepsFoundNone ==
  ASSUME InitInv, FoundNone, [Next]_vars
  PROVE  FoundNone'
<1> USE DEF FoundNone, Live, At, Goto, EndInit, Procs, files, login, init, world
<1>1. CASE UNCHANGED vars
  BY <1>1 DEF vars
<1>2. ASSUME NEW p \in Logins, LoginAction(p) PROVE FoundNone'
  BY <1>2, LoginFrames DEF LoginFrame, InitInv
<1>3. ASSUME NEW p \in Inits, InitAction(p) PROVE FoundNone'
  <2> USE DEF InitInv, TypeOK
  <2>1. CASE Check(p)
    BY <2>1 DEF Check
  <2>2. CASE Prompt(p)
    BY <2>2 DEF Prompt
  <2>3. CASE StartSave(p)
    BY <2>3 DEF StartSave
  <2>4. CASE OpenTemp(p)
    BY <2>4 DEF OpenTemp
  <2>5. CASE Write(p)
    BY <2>5 DEF Write, AbandonTemp
  <2>6. CASE Rename(p)
    BY <2>6 DEF Rename, AbandonTemp
  <2>7. CASE KillInit(p)
    BY <2>7 DEF KillInit
  <2> QED
    BY <1>3, <2>1, <2>2, <2>3, <2>4, <2>5, <2>6, <2>7 DEF InitAction, InitStep
<1> QED
  BY <1>1, <1>2, <1>3, NextSplits

\* An unforced `init` replaces the config only if it found none when it looked:
\* one that was there before is safe (init.rs).
THEOREM OverwritesAlwaysNeedARace == Spec => OverwriteNeedsARace
<1>1. Init => FoundNone
  BY DEF Init, FoundNone, Live, Procs
<1>2. ASSUME InitInv, FoundNone, [Next]_vars, NEW p \in Inits,
             config' # config, config'.by = p, ~force[p]
      PROVE  found[p] = NoConfig
  <2>1. PICK q \in Inits : InitAction(q)
    BY <1>2, NextSplits, LoginFrames DEF vars, files, LoginFrame, InitInv
  <2>2. At(q, "rename") /\ config' = temps[Name(q)]
    BY <1>2, <2>1, InitFrames DEF InitFrame, InitInv
  <2>3. config' = Entered(q)
    BY <1>2, <2>2 DEF InitInv, OwnTemp
  <2>4. q = p
    BY <1>2, <2>3, EnteredIsConfig DEF InitInv
  <2> QED
    BY <1>2, <2>2, <2>4 DEF FoundNone, Live, At, Procs
<1>3. InitInv /\ FoundNone /\ [Next]_vars
        => [\A p \in Inits : config' # config /\ config'.by = p /\ ~force[p]
              => found[p] = NoConfig]_vars
  BY <1>2
<1> QED
  BY <1>1, <1>3, StepKeepsFoundNone, InitInvHolds, PTL DEF Spec, OverwriteNeedsARace

-----------------------------------------------------------------------------
(* The codes                                                               *)

\* A login has in its URL what it will present; the code it keeps is its own, of
\* an approved URL, and it is the only one to spend it, once.
LoginInv ==
  /\ TypeOK
  /\ \A p \in Logins :
       /\ pc[p] \in {"listen", "paste", "exchange", "store"} => url[p] = Presented(p)
       /\ request[p] \in Logins => request[p] \in approved
       /\ pc[p] \in {"exchange", "store"} => code[p] = p /\ p \in approved
       /\ p \in spent => pc[p] \in {"store", "ended"}
  /\ TokenIsApproved

LEMMA LoginHoldsFirst == Init => LoginInv
<1> SUFFICES ASSUME Init PROVE LoginInv
  OBVIOUS
<1>1. TypeOK
  BY InitHoldsFirst DEF InitInv
<1>2. \A p \in Logins : pc[p] = "idle" /\ request[p] = NoRequest
  BY DEF Init, Procs
<1>3. approved = {} /\ spent = {} /\ token = NoToken
  BY DEF Init
<1> QED
  BY <1>1, <1>2, <1>3 DEF LoginInv, TokenIsApproved

LEMMA LoginsKeepInv ==
  ASSUME LoginInv, TypeOK', NEW p \in Logins, LoginAction(p)
  PROVE  LoginInv'
<1> USE DEF LoginInv, TypeOK, TokenIsApproved, At, Goto, EndLogin, Procs, Presented,
            Advertised, Listening, files, login, init, world
<1>1. CASE Load(p)
  BY <1>1 DEF Load, Show
<1>2. CASE Bind(p)
  BY <1>2 DEF Bind, Show
<1>3. ASSUME NEW r \in Logins \cup {Junk}, Take(p, r), r \in approved \cup {Junk},
             pc[p] \in {"listen", "paste"},
             UNCHANGED <<files, init, url, token, world>>
      PROVE  LoginInv'
  BY <1>3 DEF Take, Keep
<1>4. ASSUME EndLogin(p), UNCHANGED <<files, init, url, token, world>>
      PROVE  LoginInv'
  BY <1>4
<1>5. ASSUME NEW r \in Logins \cup {Junk}, Accept(p, r) PROVE LoginInv'
  BY <1>3, <1>4, <1>5 DEF Accept
<1>6. ASSUME NEW r \in Logins \cup {Junk}, Paste(p, r) PROVE LoginInv'
  BY <1>3, <1>6 DEF Paste
<1>7. CASE Exchange(p)
  BY <1>7 DEF Exchange, Spend, Received
<1>8. CASE StoreToken(p)
  BY <1>8 DEF StoreToken
<1>9. CASE KillLogin(p)
  BY <1>4, <1>9 DEF KillLogin
<1>10. CASE Approve(p)
  BY <1>10 DEF Approve
<1>11. ASSUME NEW r \in Logins \cup {Junk}, Arrive(p, r), r \in approved \cup {Junk}
       PROVE  LoginInv'
  BY <1>11 DEF Arrive
<1>12. CASE Stray(p)
  BY <1>11, <1>12 DEF Stray
<1>13. ASSUME NEW c \in Logins, Follow(c, p) PROVE LoginInv'
  BY <1>11, <1>13 DEF Follow
<1>14. CASE Connect(p)
  BY <1>14 DEF Connect
<1> QED
  BY <1>1, <1>2, <1>5, <1>6, <1>7, <1>8, <1>9, <1>10, <1>12, <1>13, <1>14
  DEF LoginAction, LoginStep

LEMMA LoginInvHolds == Spec => []LoginInv
<1>1. InitInv /\ InitInv' /\ LoginInv /\ [Next]_vars => LoginInv'
  <2> SUFFICES ASSUME InitInv, InitInv', LoginInv, [Next]_vars PROVE LoginInv'
    OBVIOUS
  <2>1. TypeOK'
    BY DEF InitInv
  <2>2. CASE UNCHANGED vars
    BY <2>1, <2>2 DEF vars, login, world, LoginInv, TokenIsApproved, Presented, Advertised
  <2>3. ASSUME NEW p \in Inits, InitAction(p) PROVE LoginInv'
    <3>1. InitFrame(p)
      BY <2>3, InitFrames DEF InitInv
    <3>2. \A q \in Logins : pc'[q] = pc[q]
      BY <3>1 DEF InitFrame, Procs
    <3> QED
      BY <2>1, <3>1, <3>2 DEF InitFrame, login, world, LoginInv, TokenIsApproved,
         Presented, Advertised
  <2>4. ASSUME NEW p \in Logins, LoginAction(p) PROVE LoginInv'
    BY <2>1, <2>4, LoginsKeepInv
  <2> QED
    BY <2>2, <2>3, <2>4, NextSplits
<1> QED
  BY <1>1, LoginHoldsFirst, InitInvHolds, PTL DEF Spec

\* The token in the store comes of an approval of the login that stored it,
\* whoever else's redirect or whatever else met its listener (auth.rs).
THEOREM TokenIsAlwaysApproved == Spec => []TokenIsApproved
<1>1. LoginInv => TokenIsApproved
  BY DEF LoginInv
<1> QED BY <1>1, LoginInvHolds, PTL

\* An exchange sends a code that is still good, with the redirect URI it was asked
\* for, whatever has become of the config.
THEOREM ExchangesAreAlwaysGood == Spec => []ExchangesAreGood
<1>1. LoginInv => ExchangesAreGood
  BY DEF LoginInv, ExchangesAreGood, At
<1> QED BY <1>1, LoginInvHolds, PTL

-----------------------------------------------------------------------------
(* How long a command can go on                                            *)

\* The most steps a process at `place` still has ahead of it, when `attempts`
\* names for its temporary file were in use.
Ahead(place, attempts) ==
  CASE place = "prompt" -> MaxAttempts + 4
    [] place = "save"   -> MaxAttempts + 3
    [] place = "temp"   -> (MaxAttempts - attempts) + 2
    [] place = "bind"   -> 4
    [] place \in {"listen", "paste"}   -> 3
    [] place \in {"write", "exchange"} -> 2
    [] place \in {"rename", "store"}   -> 1
    [] OTHER -> 0

Tried(p) == IF p \in Inits THEN attempt[p] ELSE 0

StepsAhead(p) == Ahead(pc[p], Tried(p))

SetupsFit == \A p \in Procs : StepsAhead(p) \in 0 .. MaxAttempts + 4

\* The steps of a command that has begun, its user's answers among them.
GoesOn(p) ==
  \/ p \in Inits /\ (Prompt(p) \/ InitStep(p))
  \/ p \in Logins /\ (LoginStep(p) \/ \E r \in Logins \cup {Junk} : Paste(p, r))

LEMMA AheadAt ==
  ASSUME NEW n
  PROVE  /\ Ahead("prompt", n) = MaxAttempts + 4
         /\ Ahead("save", n) = MaxAttempts + 3
         /\ Ahead("temp", n) = (MaxAttempts - n) + 2
         /\ Ahead("write", n) = 2
         /\ Ahead("rename", n) = 1
         /\ Ahead("bind", n) = 4
         /\ Ahead("listen", n) = 3
         /\ Ahead("paste", n) = 3
         /\ Ahead("exchange", n) = 2
         /\ Ahead("store", n) = 1
         /\ Ahead("idle", n) = 0
         /\ Ahead("ended", n) = 0
  BY DEF Ahead

LEMMA StepsCount ==
  ASSUME TypeOK, NEW p \in Procs
  PROVE  StepsAhead(p) \in 0 .. MaxAttempts + 4
<1>1. /\ pc[p] \in {"idle", "ended"} \cup InitPlaces \cup LoginPlaces
      /\ Tried(p) \in 0 .. MaxAttempts - 1
  BY DEF TypeOK, Tried
<1>2. CASE pc[p] = "temp"
  <2>1. StepsAhead(p) = (MaxAttempts - Tried(p)) + 2
    BY <1>2, AheadAt DEF StepsAhead
  <2>2. QED
    BY <1>1, <2>1
<1>3. CASE pc[p] \in {"prompt", "save"}
  <2>1. StepsAhead(p) \in {MaxAttempts + 4, MaxAttempts + 3}
    BY <1>3, AheadAt DEF StepsAhead
  <2>2. QED
    BY <2>1
<1>4. CASE pc[p] \notin {"prompt", "save", "temp"}
  <2>1. StepsAhead(p) \in {0, 1, 2, 3, 4}
    BY <1>1, <1>4, AheadAt DEF StepsAhead, InitPlaces, LoginPlaces
  <2>2. QED
    BY <2>1
<1>5. QED
  BY <1>2, <1>3, <1>4

\* An `init` tries each name once, and then writes, or ends.
LEMMA InitDescends ==
  ASSUME TypeOK, NEW p \in Inits, Prompt(p) \/ InitStep(p)
  PROVE  StepsAhead(p)' < StepsAhead(p)
<1>1. /\ pc[p] \in {"idle", "ended"} \cup InitPlaces \cup LoginPlaces
      /\ attempt[p] \in 0 .. MaxAttempts - 1
      /\ DOMAIN pc = Procs /\ DOMAIN attempt = Inits /\ p \in Procs
  BY DEF TypeOK, Procs
<1>2. CASE pc[p] \in InitPlaces /\ pc'[p] = "ended"
  <2>1. StepsAhead(p)' = 0
    BY <1>2, AheadAt DEF StepsAhead
  <2>2. CASE pc[p] = "temp"
    <3>1. StepsAhead(p) = (MaxAttempts - attempt[p]) + 2
      BY <2>2, AheadAt DEF StepsAhead, Tried
    <3>2. QED
      BY <1>1, <2>1, <3>1
  <2>3. CASE pc[p] \in {"prompt", "save", "write", "rename"}
    <3>1. StepsAhead(p) \in {MaxAttempts + 4, MaxAttempts + 3, 2, 1}
      BY <2>3, AheadAt DEF StepsAhead
    <3>2. QED
      BY <2>1, <3>1
  <2>4. QED
    BY <1>2, <2>2, <2>3 DEF InitPlaces
<1>3. CASE pc[p] = "prompt" /\ pc'[p] = "save"
  BY <1>3, AheadAt DEF StepsAhead
<1>4. CASE pc[p] = "save" /\ pc'[p] = "temp" /\ attempt'[p] = attempt[p]
  BY <1>1, <1>4, AheadAt DEF StepsAhead, Tried
<1>5. CASE /\ pc[p] = "temp" /\ pc'[p] = "temp"
           /\ attempt'[p] = attempt[p] + 1
  BY <1>1, <1>5, AheadAt DEF StepsAhead, Tried
<1>6. CASE pc[p] = "temp" /\ pc'[p] = "write"
  BY <1>1, <1>6, AheadAt DEF StepsAhead, Tried
<1>7. CASE pc[p] = "write" /\ pc'[p] = "rename"
  BY <1>7, AheadAt DEF StepsAhead
<1>8. CASE Prompt(p)
  BY <1>1, <1>3, <1>8 DEF Prompt, At, Goto
<1>9. CASE StartSave(p)
  BY <1>1, <1>2, <1>4, <1>9 DEF StartSave, EndInit, At, Goto, InitPlaces
<1>10. CASE OpenTemp(p)
  BY <1>1, <1>2, <1>5, <1>6, <1>10 DEF OpenTemp, EndInit, At, Goto, InitPlaces
<1>11. CASE Write(p)
  BY <1>1, <1>2, <1>7, <1>11 DEF Write, AbandonTemp, EndInit, At, Goto, InitPlaces
<1>12. CASE Rename(p)
  BY <1>1, <1>2, <1>12 DEF Rename, AbandonTemp, EndInit, At, Goto, InitPlaces
<1>13. QED
  BY <1>8, <1>9, <1>10, <1>11, <1>12 DEF InitStep

\* A login goes from place to place.
LEMMA LoginDescends ==
  ASSUME TypeOK, NEW p \in Logins, LoginStep(p) \/ \E r \in Logins \cup {Junk} : Paste(p, r)
  PROVE  StepsAhead(p)' < StepsAhead(p)
<1>1. DOMAIN pc = Procs /\ p \in Procs
  BY DEF TypeOK, Procs
<1>2. CASE pc[p] \in LoginPlaces /\ pc'[p] = "ended"
  BY <1>2, AheadAt DEF StepsAhead, LoginPlaces
<1>3. CASE pc[p] = "bind" /\ pc'[p] = "listen"
  BY <1>3, AheadAt DEF StepsAhead
<1>4. CASE pc[p] \in {"listen", "paste"} /\ pc'[p] = "exchange"
  BY <1>4, AheadAt DEF StepsAhead
<1>5. CASE pc[p] = "exchange" /\ pc'[p] = "store"
  BY <1>5, AheadAt DEF StepsAhead
<1>6. CASE Bind(p)
  BY <1>1, <1>2, <1>3, <1>6 DEF Bind, EndLogin, At, Goto, LoginPlaces
<1>7. ASSUME NEW r, Accept(p, r) \/ Paste(p, r)
      PROVE  StepsAhead(p)' < StepsAhead(p)
  BY <1>1, <1>2, <1>4, <1>7
     DEF Accept, Paste, Take, Keep, EndLogin, Listening, At, Goto, LoginPlaces
<1>8. CASE Exchange(p)
  BY <1>1, <1>2, <1>5, <1>8 DEF Exchange, Received, EndLogin, At, Goto, LoginPlaces
<1>9. CASE StoreToken(p)
  BY <1>1, <1>2, <1>9 DEF StoreToken, EndLogin, At, Goto, LoginPlaces
<1>10. QED
  BY <1>6, <1>7, <1>8, <1>9 DEF LoginStep

\* Nothing else adds to what a command that has begun has ahead of it: not the
\* others, the browser or the user, and not a kill.
LEMMA OthersDoNotLengthen ==
  ASSUME TypeOK, OwnTemp, [Next]_vars, NEW p \in Procs, pc[p] # "idle", ~GoesOn(p)
  PROVE  StepsAhead(p)' = StepsAhead(p) \/ StepsAhead(p)' = 0
<1>1. CASE pc'[p] = pc[p] /\ Tried(p)' = Tried(p)
  BY <1>1 DEF StepsAhead
<1>2. CASE pc'[p] = "ended"
  BY <1>2, AheadAt DEF StepsAhead
<1>3. CASE UNCHANGED vars
  BY <1>1, <1>3 DEF vars, init, Tried
<1>4. ASSUME NEW q \in Inits, InitAction(q), p # q
      PROVE  pc'[p] = pc[p] /\ Tried(p)' = Tried(p)
  BY <1>4, InitFrames DEF InitFrame, Tried
<1>5. ASSUME NEW q \in Logins, LoginAction(q), p # q
      PROVE  pc'[p] = pc[p] /\ Tried(p)' = Tried(p)
  <2>1. attempt' = attempt
    BY <1>5, LoginFrames DEF LoginFrame, init
  <2>2. pc'[p] = pc[p]
    BY <1>5 DEF LoginAction, LoginStep, Load, Bind, Accept, Take, Keep, Exchange, Received,
       StoreToken, KillLogin, EndLogin, Approve, Connect, Stray, Follow, Arrive, Paste,
       Goto, TypeOK
  <2>3. QED
    BY <2>1, <2>2 DEF Tried
<1>6. CASE p \in Inits /\ InitAction(p)
  <2>1. KillInit(p)
    BY <1>6 DEF InitAction, GoesOn, Check, At
  <2>2. QED
    BY <1>2, <2>1 DEF KillInit, EndInit, Goto, TypeOK
<1>7. CASE p \in Logins /\ LoginAction(p)
  <2>1. CASE KillLogin(p)
    BY <1>2, <2>1 DEF KillLogin, EndLogin, Goto, TypeOK
  <2>2. CASE UNCHANGED <<pc, attempt>>
    BY <1>1, <2>2 DEF Tried
  <2>3. KillLogin(p) \/ Approve(p) \/ Connect(p) \/ Stray(p) \/ \E c \in Logins : Follow(c, p)
    BY <1>7 DEF LoginAction, GoesOn, Load, At
  <2>4. QED
    BY <2>1, <2>2, <2>3 DEF Approve, Connect, Stray, Follow, Arrive, init
<1>8. QED
  BY <1>1, <1>3, <1>4, <1>5, <1>6, <1>7, NextSplits

\* A command that has begun takes a bounded number of steps, an `init` one for each
\* name it may try and four more (config_persistence.rs), whatever runs beside it:
\* each brings its end nearer, and nothing else puts it off.
THEOREM SetupsAreShort ==
  Spec => /\ []SetupsFit
          /\ [][\A p \in Procs :
                  /\ GoesOn(p) => StepsAhead(p)' < StepsAhead(p)
                  /\ pc[p] # "idle" => StepsAhead(p)' <= StepsAhead(p)]_vars
<1>1. InitInv => SetupsFit
  BY StepsCount DEF InitInv, SetupsFit
<1>2. InitInv /\ SetupsFit /\ SetupsFit' /\ [Next]_vars =>
        [\A p \in Procs :
            /\ GoesOn(p) => StepsAhead(p)' < StepsAhead(p)
            /\ pc[p] # "idle" => StepsAhead(p)' <= StepsAhead(p)]_vars
  <2> SUFFICES ASSUME InitInv, SetupsFit, SetupsFit', [Next]_vars, NEW p \in Procs
               PROVE  /\ GoesOn(p) => StepsAhead(p)' < StepsAhead(p)
                      /\ pc[p] # "idle" => StepsAhead(p)' <= StepsAhead(p)
    OBVIOUS
  <2>1. StepsAhead(p) \in Nat /\ StepsAhead(p)' \in Nat
    BY DEF SetupsFit
  <2>2. GoesOn(p) => StepsAhead(p)' < StepsAhead(p)
    BY InitDescends, LoginDescends DEF GoesOn, InitInv
  <2>3. StepsAhead(p)' < StepsAhead(p) => StepsAhead(p)' <= StepsAhead(p)
    BY <2>1
  <2>4. pc[p] # "idle" /\ ~GoesOn(p) => StepsAhead(p)' = StepsAhead(p) \/ StepsAhead(p)' = 0
    BY OthersDoNotLengthen DEF InitInv
  <2>5. StepsAhead(p)' = StepsAhead(p) \/ StepsAhead(p)' = 0 => StepsAhead(p)' <= StepsAhead(p)
    BY <2>1
  <2>6. QED
    BY <2>2, <2>3, <2>4, <2>5
<1>3. QED
  BY <1>1, <1>2, InitInvHolds, PTL DEF Spec

=============================================================================
