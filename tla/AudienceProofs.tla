----------------------------- MODULE AudienceProofs -----------------------------
(***************************************************************************)
(* Theorems about the commands around the stored token, for every number   *)
(* of logins, logouts, refreshes and purges, of accounts, breakdowns and   *)
(* pages.  A step changes the memory of one process; the invariant says of *)
(* each place what a process that is there has in memory (Sound), and what *)
(* a logout that may still be quiet has cleared so far (Cleared).          *)
(***************************************************************************)
EXTENDS Audience, FiniteSetTheorems, TLAPS

USE TokenStoreAssumption, AudienceAssumption

Observing == {"count", "demographics", "snapshot", "mentions", "finish"}

\* The token that is about to be saved: one a login obtained, bound to nobody
\* else than who approved it, or one a refresh bound to the account it has read.
Rightful(p) ==
  LET l == local[p]
  IN  \/ p \in Logins /\ l.token.account \in {None, owner[l.token.login]}
      \/ p \in Refreshes /\ l.token.account = owner[l.session]

Sound(p) ==
  LET l == local[p]
  IN  /\ l.pc \in {"replace", "copy"} => l.token \in Token /\ Rightful(p)
      /\ l.pc = "replace" => temp[p] = l.token
      /\ l.pc \in {"open", "me"} \cup Observing
           => p \in Refreshes /\ l.token \in Token
      /\ l.pc \in Observing
           => l.account = owner[l.session] /\ l.token.account \in {None, l.account}
      /\ l.pc \in {"start", "open", "me", "count"} => l.asked = 0
      /\ l.pc = "demographics" => l.large /\ l.asked < Dimensions
      /\ l.pc = "snapshot" => l.asked = (IF l.large THEN Dimensions ELSE 0)

\* The copy goes first, then the file; a save since then ends the quiet.
Cleared(q) ==
  /\ local[q].pc \in {"remove", "removeAnyway", "done"}
  /\ local[q].pc \in {"remove", "done"} => keyring = NoToken
  /\ local[q].pc = "done" => file = NoToken

AudienceInv ==
  /\ TypeOK
  /\ \A p \in Procs : Sound(p)
  /\ SnapshotsAreWhole
  /\ \A q \in quiet : Cleared(q)

-----------------------------------------------------------------------------
(* Types, and what a process has in memory                                 *)

LEMMA LocalFields ==
  ASSUME TypeOK, NEW p \in Procs
  PROVE  /\ local[p] \in Local
         /\ local[p].pc \in Places
         /\ local[p].token \in Token \cup {NoToken}
         /\ local[p].session \in Logins \cup {Old}
         /\ local[p].account \in Accounts \cup {None}
         /\ local[p].large \in BOOLEAN
         /\ local[p].asked \in 0 .. Dimensions
         /\ local[p].at \in 0 .. MaxTime
         /\ local[p].cursors \subseteq Cursors
         /\ owner[local[p].session] \in Accounts
BY DEF TypeOK, Local

\* A step of one process, seen by the others.
Alone(p) ==
  /\ owner' = owner
  /\ \A q \in Procs \ {p} : local'[q] = local[q] /\ temp'[q] = temp[q]

\* What a step of p does to memory: the others keep theirs, and p's is sound.
Stepped(p) == TypeOK' /\ Alone(p) /\ Sound(p)'

LEMMA EmptyIsLocal ==
  ASSUME NEW place \in Places
  PROVE  [Empty EXCEPT !.pc = place] \in Local
<1>1. 0 \in 0 .. Dimensions /\ 0 \in 0 .. MaxTime /\ "start" \in Places
  BY DEF Places
<1>2. Empty \in Local
  BY <1>1 DEF Empty, Local
<1> QED BY <1>2 DEF Local

LEMMA LoadsTyped ==
  ASSUME TypeOK, NEW t \in Loads
  PROVE  t \in Token \cup {NoToken}
BY DEF TypeOK, Loads

\* A process that ends has nothing in memory.
LEMMA EndStepped ==
  ASSUME TypeOK, NEW p \in Procs, End(p), UNCHANGED service,
         file' \in {file, NoToken}, UNCHANGED keyring \/ keyring' = local[p].token,
         temp' = temp \/ temp' = [temp EXCEPT ![p] = NoToken],
         snapshots' \subseteq snapshots, quiet' \subseteq quiet
  PROVE  Stepped(p)
<1>1. local'[p] = [Empty EXCEPT !.pc = IF p \in Refreshes THEN "start" ELSE "done"]
  BY DEF TypeOK, End
<1>2. Sound(p)'
  BY <1>1 DEF Sound, Empty, Observing
<1>3. local' \in [Procs -> Local]
  BY EmptyIsLocal DEF TypeOK, End, Places
<1>4. TypeOK' /\ Alone(p)
  BY <1>3, LocalFields DEF TypeOK, End, service, Alone
<1> QED BY <1>2, <1>4 DEF Stepped

\* A process that goes on changes its own record only.
LEMMA GoOnStepped ==
  ASSUME TypeOK, NEW p \in Procs, NEW l \in Local,
         local' = [local EXCEPT ![p] = l], Sound(p)',
         UNCHANGED <<kept, service, snapshots, quiet>>
  PROVE  Stepped(p)
BY DEF TypeOK, Stepped, Alone, kept, service

\* The writing of the temporary file, with what leads to it.
LEMMA StartSaveStepped ==
  ASSUME TypeOK, NEW p \in Procs, NEW token \in Token, StartSave(p, token),
         \/ p \in Logins /\ token.account \in {None, owner[token.login]}
         \/ p \in Refreshes /\ token.account = owner[local[p].session],
         UNCHANGED <<service, snapshots, quiet>>
  PROVE  Stepped(p)
<1> DEFINE l == [local[p] EXCEPT !.token = token, !.pc = "replace"]
<1>1. l \in Local
  <2>1. local[p] \in Local /\ "replace" \in Places
    BY LocalFields DEF Places
  <2> QED BY <2>1 DEF Local
<1>2. /\ temp' = [temp EXCEPT ![p] = token]
      /\ local' = [local EXCEPT ![p] = l]
      /\ UNCHANGED <<file, keyring>>
  BY DEF StartSave, WriteTemp
<1>3. /\ l.pc = "replace" /\ l.token = token
      /\ l.session = local[p].session
  BY LocalFields DEF Local
<1> HIDE DEF l
<1>4. local'[p] = l /\ temp'[p] = token
  BY <1>2 DEF TypeOK
<1>5. Sound(p)'
  BY <1>3, <1>4 DEF Sound, Rightful, Observing, service
<1> QED
  BY <1>1, <1>2, <1>5 DEF TypeOK, Stepped, Alone, service

-----------------------------------------------------------------------------
(* The actions                                                             *)

LEMMA SavesStepped ==
  ASSUME TypeOK, NEW p \in Procs, Sound(p), SaveFails(p) \/ SaveFile(p) \/ SaveKeyring(p)
  PROVE  Stepped(p)
<1>1. CASE SaveFails(p)
  BY <1>1, EndStepped DEF SaveFails, Discard
<1>2. CASE SaveFile(p)
  <2> DEFINE l == [local[p] EXCEPT !.pc = "copy"]
  <2>1. l \in Local
    BY LocalFields DEF Local, Places
  <2>2. /\ local' = [local EXCEPT ![p] = l]
        /\ file' = temp[p]
        /\ temp' = [temp EXCEPT ![p] = NoToken]
        /\ UNCHANGED <<keyring, service, snapshots>>
        /\ quiet' = {}
    BY <1>2 DEF SaveFile, Replace, Goto
  <2>3. temp[p] \in Token
    BY <1>2 DEF SaveFile, At, Sound
  <2>4. /\ l.pc = "copy" /\ l.token = local[p].token
        /\ l.session = local[p].session
    BY LocalFields DEF Local
  <2> HIDE DEF l
  <2>5. local'[p] = l
    BY <2>2 DEF TypeOK
  <2>6. Sound(p)'
    BY <1>2, <2>2, <2>4, <2>5 DEF SaveFile, At, Sound, Rightful, Observing, service
  <2> QED
    BY <2>1, <2>2, <2>3, <2>6 DEF TypeOK, Stepped, Alone, service
<1>3. CASE SaveKeyring(p)
  <2>1. quiet' = {} /\ keyring' \in {keyring, local[p].token}
    BY <1>3 DEF SaveKeyring, SaveCopy
  <2> QED
    BY <1>3, <2>1, EndStepped DEF SaveKeyring, SaveCopy
<1> QED
  BY <1>1, <1>2, <1>3

LEMMA LoginStepped ==
  ASSUME TypeOK, NEW p \in Procs, Login(p)
  PROVE  Stepped(p)
<1>1. PICK t \in Granted(p) : StartSave(p, t)
  BY DEF Login
<1>2. /\ t \in Token
      /\ t.login = p /\ t.account \in {None, owner[p]}
  BY <1>1 DEF Login, Granted, Named, TypeOK, Token
<1> QED
  BY <1>1, <1>2, StartSaveStepped DEF Login

LEMMA LogoutStepped ==
  ASSUME TypeOK, NEW p \in Procs, LogoutKeyring(p) \/ LogoutFile(p)
  PROVE  Stepped(p)
<1>1. CASE LogoutKeyring(p)
  <2>1. PICK success \in BOOLEAN :
          /\ ClearCopy(success)
          /\ Goto(p, IF success THEN "remove" ELSE "removeAnyway")
    BY <1>1 DEF LogoutKeyring
  <2> DEFINE l == [local[p] EXCEPT !.pc = IF success THEN "remove" ELSE "removeAnyway"]
  <2>2. l \in Local
    BY LocalFields DEF Local, Places
  <2>3. local' = [local EXCEPT ![p] = l]
    BY <2>1 DEF Goto
  <2>4. l.pc \in {"remove", "removeAnyway"}
    BY LocalFields DEF Local
  <2> HIDE DEF l
  <2>5. Sound(p)'
    BY <2>3, <2>4 DEF TypeOK, Sound, Observing
  <2> QED
    BY <1>1, <2>1, <2>2, <2>3, <2>5
       DEF LogoutKeyring, ClearCopy, TypeOK, Stepped, Alone, service
<1>2. CASE LogoutFile(p)
  <2>1. PICK success \in BOOLEAN : RemoveFile(success)
    BY <1>2 DEF LogoutFile
  <2>2. quiet' \subseteq quiet
    BY <1>2 DEF LogoutFile
  <2> QED
    BY <1>2, <2>1, <2>2, EndStepped DEF LogoutFile, RemoveFile
<1> QED
  BY <1>1, <1>2

LEMMA LoadsStepped ==
  ASSUME TypeOK, NEW p \in Procs, Sound(p), LoadToken(p) \/ OpenProvider(p)
  PROVE  Stepped(p)
<1>1. CASE LoadToken(p)
  <2>1. PICK t \in Loads :
          \/ End(p)
          \/ t # NoToken /\ local' = [local EXCEPT ![p].token = t, ![p].pc = "open"]
    BY <1>1 DEF LoadToken
  <2>2. UNCHANGED <<kept, service, snapshots, quiet>> /\ p \in Refreshes
    BY <1>1 DEF LoadToken
  <2>3. CASE End(p)
    BY <2>2, <2>3, EndStepped DEF kept
  <2>4. CASE t # NoToken /\ local' = [local EXCEPT ![p].token = t, ![p].pc = "open"]
    <3> DEFINE l == [local[p] EXCEPT !.token = t, !.pc = "open"]
    <3>1. t \in Token
      BY <2>4, LoadsTyped
    <3>2. local[p] \in Local /\ "open" \in Places
      BY LocalFields DEF Places
    <3>3. l \in Local
      BY <3>1, <3>2 DEF Local
    <3>4. l.pc = "open" /\ l.token = t /\ l.asked = local[p].asked
      BY <3>2 DEF Local
    <3>5. local' = [local EXCEPT ![p] = l]
      BY <2>4
    <3> HIDE DEF l
    <3>6. Sound(p)'
      BY <1>1, <2>2, <3>1, <3>4, <3>5 DEF TypeOK, LoadToken, At, Sound, Observing
    <3> QED
      BY <2>2, <3>3, <3>5, <3>6, GoOnStepped
  <2> QED
    BY <2>1, <2>3, <2>4
<1>2. CASE OpenProvider(p)
  <2>1. PICK t \in Loads :
          \/ End(p)
          \/ /\ t # NoToken
             /\ local' = [local EXCEPT ![p].session = t.login, ![p].pc = "me"]
    BY <1>2 DEF OpenProvider
  <2>2. UNCHANGED <<kept, service, snapshots, quiet>>
    BY <1>2 DEF OpenProvider
  <2>3. CASE End(p)
    BY <2>2, <2>3, EndStepped DEF kept
  <2>4. CASE /\ t # NoToken
             /\ local' = [local EXCEPT ![p].session = t.login, ![p].pc = "me"]
    <3> DEFINE l == [local[p] EXCEPT !.session = t.login, !.pc = "me"]
    <3>1. t.login \in Logins \cup {Old}
      BY <2>4, LoadsTyped DEF Token
    <3>2. local[p] \in Local /\ "me" \in Places
      BY LocalFields DEF Places
    <3>3. l \in Local
      BY <3>1, <3>2 DEF Local
    <3>4. l.pc = "me" /\ l.token = local[p].token /\ l.asked = local[p].asked
      BY <3>2 DEF Local
    <3>5. local' = [local EXCEPT ![p] = l]
      BY <2>4
    <3> HIDE DEF l
    <3>6. Sound(p)'
      BY <1>2, <3>4, <3>5 DEF TypeOK, OpenProvider, At, Sound, Observing
    <3> QED
      BY <2>2, <3>3, <3>5, <3>6, GoOnStepped
  <2> QED
    BY <2>1, <2>3, <2>4
<1> QED
  BY <1>1, <1>2

\* From here on the account is the one the token in use authenticates.
LEMMA FetchMeStepped ==
  ASSUME TypeOK, NEW p \in Procs, Sound(p), FetchMe(p)
  PROVE  Stepped(p)
<1> DEFINE me == owner[local[p].session]
           l == [local[p] EXCEPT !.account = me, !.pc = "count"]
<1>1. UNCHANGED <<kept, service, snapshots, quiet>> /\ local[p].pc = "me"
  BY DEF FetchMe, At
<1>2. CASE End(p)
  BY <1>1, <1>2, EndStepped DEF kept
<1>3. CASE /\ local[p].token.account \in {None, me}
           /\ local' = [local EXCEPT ![p].account = me, ![p].pc = "count"]
  <2>1. local[p] \in Local /\ "count" \in Places /\ me \in Accounts
    BY LocalFields DEF Places
  <2>2. l \in Local
    BY <2>1 DEF Local
  <2>3. /\ l.pc = "count" /\ l.token = local[p].token /\ l.asked = local[p].asked
        /\ l.account = me /\ l.session = local[p].session
    BY <2>1 DEF Local
  <2>4. local' = [local EXCEPT ![p] = l]
    BY <1>3
  <2> HIDE DEF l
  <2>5. Sound(p)'
    BY <1>1, <1>3, <2>3, <2>4 DEF TypeOK, Sound, Observing, service
  <2> QED
    BY <1>1, <2>2, <2>4, <2>5, GoOnStepped
<1> QED
  BY <1>2, <1>3 DEF FetchMe

\* The insights: as many breakdowns as there are, once 100 followers are counted.
LEMMA InsightsStepped ==
  ASSUME TypeOK, NEW p \in Procs, Sound(p), FetchCount(p) \/ FetchDemographics(p)
  PROVE  Stepped(p)
<1>1. CASE FetchCount(p)
  <2>1. PICK large \in BOOLEAN :
          local' = [local EXCEPT
            ![p].large = large,
            ![p].at = now,
            ![p].pc = IF large /\ Dimensions > 0 THEN "demographics" ELSE "snapshot"]
    BY <1>1 DEF FetchCount
  <2> DEFINE place == IF large /\ Dimensions > 0 THEN "demographics" ELSE "snapshot"
             l == [local[p] EXCEPT !.large = large, !.at = now, !.pc = place]
  <2>2. local[p] \in Local /\ place \in Places /\ now \in 0 .. MaxTime
    BY LocalFields DEF Places, TypeOK
  <2>3. l \in Local
    BY <2>2 DEF Local
  <2>4. /\ l.pc = place /\ l.token = local[p].token /\ l.asked = local[p].asked
        /\ l.account = local[p].account /\ l.session = local[p].session
        /\ l.large <=> large
    BY <2>2 DEF Local
  <2>5. local' = [local EXCEPT ![p] = l]
    BY <2>1
  <2>6. local[p].asked = 0 /\ local[p].pc = "count"
    BY <1>1 DEF FetchCount, At, Sound
  <2> HIDE DEF l
  <2>7. local'[p] = l /\ temp' = temp /\ owner' = owner
    BY <1>1, <2>5 DEF TypeOK, FetchCount, kept, service
  <2>8. Sound(p)'
    BY <2>4, <2>6, <2>7 DEF Sound, Observing
  <2> QED
    BY <1>1, <2>3, <2>5, <2>8, GoOnStepped DEF FetchCount
<1>2. CASE FetchDemographics(p)
  <2> DEFINE n == local[p].asked + 1
             place == IF n < Dimensions THEN local[p].pc ELSE "snapshot"
             l == [local[p] EXCEPT !.asked = n, !.at = now, !.pc = place]
  <2>1. /\ local[p].pc = "demographics"
        /\ local[p].large /\ local[p].asked < Dimensions
    BY <1>2 DEF FetchDemographics, At, Sound
  <2>2. /\ local[p] \in Local /\ place \in Places /\ now \in 0 .. MaxTime
        /\ n \in 0 .. Dimensions
    BY <2>1, LocalFields DEF Places, TypeOK
  <2>3. l \in Local
    BY <2>2 DEF Local
  <2>4. /\ l.pc = place /\ l.token = local[p].token /\ l.asked = n
        /\ l.account = local[p].account /\ l.session = local[p].session
        /\ l.large <=> local[p].large
    BY <2>2 DEF Local
  <2>5. local' = [local EXCEPT ![p] = l]
    BY <1>2 DEF FetchDemographics
  <2> HIDE DEF l
  <2>6. local'[p] = l /\ temp' = temp /\ owner' = owner
    BY <1>2, <2>5 DEF TypeOK, FetchDemographics, kept, service
  <2>7. Sound(p)'
    BY <2>1, <2>2, <2>4, <2>6 DEF Sound, Observing
  <2> QED
    BY <1>2, <2>3, <2>5, <2>7, GoOnStepped DEF FetchDemographics
<1> QED
  BY <1>1, <1>2

\* The row a refresh is about to write.
RowOf(p) == [account |-> local[p].account, at |-> local[p].at, by |-> p,
             large |-> local[p].large, buckets |-> (1 .. local[p].asked) \X {p}]

LEMMA RowIsSnapshot ==
  ASSUME TypeOK, NEW p \in Procs, Sound(p), At(p, "snapshot")
  PROVE  /\ RowOf(p) \in Snapshot
         /\ RowOf(p).by = p /\ RowOf(p).account = local[p].account
         /\ RowOf(p).large <=> local[p].large
         /\ RowOf(p).buckets = (IF local[p].large THEN 1 .. Dimensions ELSE {}) \X {p}
<1>1. /\ p \in Refreshes
      /\ local[p].account \in Accounts
      /\ local[p].asked = (IF local[p].large THEN Dimensions ELSE 0)
  BY LocalFields DEF At, Sound, Observing
<1>2. 1 .. local[p].asked = IF local[p].large THEN 1 .. Dimensions ELSE {}
  BY <1>1
<1>3. (1 .. local[p].asked) \X {p} \subseteq (1 .. Dimensions) \X Refreshes
  BY <1>1, <1>2
<1>4. local[p].at \in 0 .. MaxTime /\ local[p].large \in BOOLEAN
  BY LocalFields
<1>5. RowOf(p) \in Snapshot
  BY <1>1, <1>3, <1>4 DEF RowOf, Snapshot
<1> QED
  BY <1>2, <1>5 DEF RowOf

LEMMA SnapshotStepped ==
  ASSUME TypeOK, NEW p \in Procs, Sound(p), WriteSnapshot(p)
  PROVE  /\ Stepped(p)
         /\ snapshots' \subseteq snapshots \cup {RowOf(p)}
<1> DEFINE l == [local[p] EXCEPT !.pc = "mentions", !.large = FALSE, !.asked = 0, !.at = 0]
<1>1. /\ local' = [local EXCEPT ![p] = l]
      /\ UNCHANGED <<kept, service, quiet>>
      /\ local[p].pc = "snapshot"
  BY DEF WriteSnapshot, At
<1>2. local[p] \in Local /\ "mentions" \in Places /\ 0 \in 0 .. Dimensions /\ 0 \in 0 .. MaxTime
  BY LocalFields DEF Places
<1>3. l \in Local
  BY <1>2 DEF Local
<1>4. /\ l.pc = "mentions" /\ l.token = local[p].token
      /\ l.account = local[p].account /\ l.session = local[p].session
  BY <1>2 DEF Local
<1> HIDE DEF l
<1>5. snapshots' \subseteq snapshots \cup {RowOf(p)}
  BY DEF WriteSnapshot, UpsertSnapshot, RowOf
<1>6. snapshots' \subseteq Snapshot
  BY <1>1, <1>5, RowIsSnapshot DEF TypeOK, At
<1>7. Sound(p)'
  BY <1>1, <1>4 DEF TypeOK, Sound, Observing, service
<1> QED
  BY <1>1, <1>3, <1>5, <1>6, <1>7 DEF TypeOK, Stepped, Alone, kept, service

LEMMA MentionsStepped ==
  ASSUME TypeOK, NEW p \in Procs, Sound(p), FetchMentions(p)
  PROVE  Stepped(p)
<1>1. UNCHANGED <<kept, service, snapshots, quiet>> /\ local[p].pc = "mentions"
  BY DEF FetchMentions, At
<1>2. PICK l \in Local :
        /\ local' = [local EXCEPT ![p] = l]
        /\ l.pc \in {"mentions", "finish"} /\ l.token = local[p].token
        /\ l.account = local[p].account /\ l.session = local[p].session
  <2>1. local[p] \in Local /\ "finish" \in Places
    BY LocalFields DEF Places
  <2>2. CASE Goto(p, "finish")
    <3> DEFINE l == [local[p] EXCEPT !.pc = "finish"]
    <3>1. /\ l \in Local
          /\ l.pc \in {"mentions", "finish"} /\ l.token = local[p].token
          /\ l.account = local[p].account /\ l.session = local[p].session
      BY <2>1 DEF Local
    <3>2. local' = [local EXCEPT ![p] = l]
      BY <2>2 DEF Goto
    <3> QED BY <3>1, <3>2
  <2>3. ASSUME NEW next \in Cursors,
               local' = [local EXCEPT ![p].cursors = Remember(p, next)]
        PROVE  \E l \in Local :
                 /\ local' = [local EXCEPT ![p] = l]
                 /\ l.pc \in {"mentions", "finish"} /\ l.token = local[p].token
                 /\ l.account = local[p].account /\ l.session = local[p].session
    <3> DEFINE l == [local[p] EXCEPT !.cursors = Remember(p, next)]
    <3>1. Remember(p, next) \subseteq Cursors
      BY LocalFields DEF Remember
    <3>2. /\ l \in Local
          /\ l.pc \in {"mentions", "finish"} /\ l.token = local[p].token
          /\ l.account = local[p].account /\ l.session = local[p].session
      BY <1>1, <2>1, <3>1 DEF Local
    <3>3. local' = [local EXCEPT ![p] = l]
      BY <2>3
    <3> QED BY <3>2, <3>3
  <2> QED
    BY <2>2, <2>3 DEF FetchMentions
<1>3. Sound(p)'
  BY <1>1, <1>2 DEF TypeOK, Sound, Observing, service
<1> QED
  BY <1>1, <1>2, <1>3, GoOnStepped

\* The token is saved bound to the account that was read.
LEMMA FinishStepped ==
  ASSUME TypeOK, NEW p \in Procs, Sound(p), Finish(p)
  PROVE  Stepped(p)
<1> DEFINE t == WithUserId(local[p].token, local[p].account)
<1>1. /\ p \in Refreshes
      /\ local[p].token \in Token
      /\ local[p].account = owner[local[p].session]
      /\ local[p].account \in Accounts
  BY LocalFields DEF Finish, At, Sound, Observing
<1>2. t \in Token /\ t.account = owner[local[p].session]
  BY <1>1 DEF WithUserId, Token
<1>3. CASE StartSave(p, t)
  BY <1>1, <1>2, <1>3, StartSaveStepped DEF Finish
<1>4. CASE End(p) /\ UNCHANGED kept
  BY <1>4, EndStepped DEF Finish, kept
<1> QED
  BY <1>3, <1>4 DEF Finish

LEMMA EndsStepped ==
  ASSUME TypeOK, NEW p \in Procs, InsightFails(p) \/ Fail(p) \/ Purge(p) \/ Kill(p)
  PROVE  Stepped(p)
<1>1. CASE InsightFails(p) \/ Fail(p)
  BY <1>1, EndStepped DEF InsightFails, Fail, kept
<1>2. CASE Purge(p)
  BY <1>2, EndStepped DEF Purge, kept
<1>3. CASE Kill(p)
  BY <1>3, EndStepped DEF Kill, Discard
<1> QED
  BY <1>1, <1>2, <1>3

LEMMA PurgeStepped ==
  ASSUME TypeOK, NEW p \in Procs, StartPurge(p)
  PROVE  Stepped(p)
<1>1. UNCHANGED <<kept, service, snapshots, quiet>>
  BY DEF StartPurge
<1>2. CASE End(p)
  BY <1>1, <1>2, EndStepped DEF kept
<1>3. ASSUME NEW t \in Loads,
             local' = [local EXCEPT ![p].token = t, ![p].at = now, ![p].pc = "purge"]
      PROVE  Stepped(p)
  <2> DEFINE l == [local[p] EXCEPT !.token = t, !.at = now, !.pc = "purge"]
  <2>1. /\ local[p] \in Local /\ "purge" \in Places /\ now \in 0 .. MaxTime
        /\ t \in Token \cup {NoToken}
    BY LocalFields, LoadsTyped DEF Places, TypeOK
  <2>2. l \in Local
    BY <2>1 DEF Local
  <2>3. l.pc = "purge"
    BY <2>1 DEF Local
  <2>4. local' = [local EXCEPT ![p] = l]
    BY <1>3
  <2> HIDE DEF l
  <2>5. Sound(p)'
    BY <2>3, <2>4 DEF TypeOK, Sound, Observing
  <2> QED
    BY <1>1, <2>2, <2>4, <2>5, GoOnStepped
<1> QED
  BY <1>2, <1>3 DEF StartPurge

-----------------------------------------------------------------------------
(* The invariant                                                           *)

\* The steps that touch neither the stored token nor a quiet logout.
Elsewhere(p) ==
  \/ Login(p) \/ LoadToken(p) \/ OpenProvider(p) \/ FetchMe(p) \/ FetchCount(p)
  \/ FetchDemographics(p) \/ WriteSnapshot(p) \/ FetchMentions(p) \/ Finish(p)
  \/ InsightFails(p) \/ Fail(p) \/ StartPurge(p) \/ Purge(p) \/ SaveFails(p)
  \/ Kill(p)

Action(p) ==
  SaveFile(p) \/ SaveKeyring(p) \/ LogoutKeyring(p) \/ LogoutFile(p) \/ Elsewhere(p)

LEMMA NextSplits ==
  ASSUME Next
  PROVE  (\E p \in Procs : Action(p)) \/ Tick
BY DEF Next, Step, Action, Elsewhere

LEMMA ActionStepped ==
  ASSUME TypeOK, NEW p \in Procs, Sound(p), Action(p)
  PROVE  Stepped(p)
BY SavesStepped, LoginStepped, LogoutStepped, LoadsStepped, FetchMeStepped,
   InsightsStepped, SnapshotStepped, MentionsStepped, FinishStepped, EndsStepped,
   PurgeStepped DEF Action, Elsewhere

\* Memory stays sound: a process that is passed over has nothing to notice.
LEMMA OthersSound ==
  ASSUME NEW p \in Procs, Stepped(p), NEW q \in Procs, Sound(q)
  PROVE  Sound(q)'
BY DEF Stepped, Alone, Sound, Rightful

\* A snapshot is only ever written whole; the rest of the steps write none.
LEMMA SnapshotsStayWhole ==
  ASSUME AudienceInv, NEW p \in Procs, Action(p)
  PROVE  /\ SnapshotsAreWhole'
         /\ \/ snapshots' \subseteq snapshots
            \/ WriteSnapshot(p) /\ snapshots' \subseteq snapshots \cup {RowOf(p)}
<1>1. CASE WriteSnapshot(p)
  <2>1. Sound(p) /\ TypeOK /\ At(p, "snapshot")
    BY <1>1 DEF AudienceInv, WriteSnapshot
  <2>2. snapshots' \subseteq snapshots \cup {RowOf(p)}
    BY <1>1, <2>1, SnapshotStepped
  <2>3. RowOf(p).buckets = (IF RowOf(p).large THEN 1 .. Dimensions ELSE {}) \X {RowOf(p).by}
    BY <2>1, RowIsSnapshot
  <2> QED
    BY <1>1, <2>2, <2>3 DEF AudienceInv, SnapshotsAreWhole
<1>2. CASE ~WriteSnapshot(p)
  <2>1. snapshots' \subseteq snapshots
    BY <1>2 DEF Action, Elsewhere, SaveFile, SaveKeyring, LogoutKeyring, LogoutFile, Login,
       LoadToken, OpenProvider, FetchMe, FetchCount, FetchDemographics,
       FetchMentions, Finish, InsightFails, Fail, StartPurge, Purge, SaveFails, Kill
  <2> QED
    BY <2>1 DEF AudienceInv, SnapshotsAreWhole
<1> QED
  BY <1>1, <1>2

LEMMA ElsewhereKeeps ==
  ASSUME AudienceInv, NEW p \in Procs, Elsewhere(p)
  PROVE  /\ UNCHANGED <<file, keyring>>
         /\ quiet' \subseteq quiet \ {p}
<1>1. local[p].pc \notin {"remove", "removeAnyway", "done"} => p \notin quiet
  BY DEF AudienceInv, Cleared
<1>2. CASE Kill(p)
  BY <1>2 DEF Kill, Discard
<1>3. CASE Login(p) \/ Finish(p) \/ SaveFails(p)
  BY <1>1, <1>3 DEF Login, Finish, SaveFails, StartSave, WriteTemp, Discard, At, kept
<1>4. CASE \/ LoadToken(p) \/ OpenProvider(p) \/ FetchMe(p) \/ FetchCount(p)
           \/ FetchDemographics(p) \/ WriteSnapshot(p) \/ FetchMentions(p)
           \/ InsightFails(p) \/ Fail(p) \/ StartPurge(p) \/ Purge(p)
  BY <1>1, <1>4 DEF LoadToken, OpenProvider, FetchMe, FetchCount, FetchDemographics,
     WriteSnapshot, FetchMentions, InsightFails, Fail, StartPurge, Purge, At, kept
<1> QED
  BY <1>2, <1>3, <1>4 DEF Elsewhere

\* What a quiet logout has cleared stays clear: nothing but a save fills it, and
\* a save ends the quiet.
LEMMA QuietStaysClear ==
  ASSUME AudienceInv, NEW p \in Procs, Action(p), NEW q \in quiet'
  PROVE  Cleared(q)'
<1> USE DEF Cleared
<1>1. CASE SaveFile(p) \/ SaveKeyring(p)
  BY <1>1 DEF SaveFile, SaveKeyring
<1>2. CASE LogoutKeyring(p)
  <2>1. PICK success \in BOOLEAN :
          /\ ClearCopy(success)
          /\ Goto(p, IF success THEN "remove" ELSE "removeAnyway")
    BY <1>2 DEF LogoutKeyring
  <2>2. quiet' = quiet \cup {p}
    BY <1>2 DEF LogoutKeyring
  <2>3. local'[p].pc = IF success THEN "remove" ELSE "removeAnyway"
    BY <2>1, LocalFields DEF Goto, AudienceInv, TypeOK, Local
  <2>4. \A r \in Procs \ {p} : local'[r] = local[r]
    BY <2>1 DEF Goto, AudienceInv, TypeOK
  <2>5. CASE q = p
    BY <2>1, <2>3, <2>5 DEF ClearCopy
  <2>6. CASE q # p
    BY <2>1, <2>2, <2>4, <2>6 DEF ClearCopy, AudienceInv, TypeOK, Procs
  <2> QED BY <2>5, <2>6
<1>3. CASE LogoutFile(p)
  <2>1. PICK success \in BOOLEAN :
          /\ RemoveFile(success)
          /\ quiet' = IF success /\ At(p, "remove") THEN quiet ELSE quiet \ {p}
    BY <1>3 DEF LogoutFile
  <2>2. q \in quiet /\ q \in Logouts /\ q \in Procs /\ q \notin Refreshes
    BY <2>1 DEF AudienceInv, TypeOK, Procs
  <2>3. CASE q = p
    <3>1. local'[p].pc = "done"
      BY <1>3, <2>2, <2>3 DEF LogoutFile, End, Empty, AudienceInv, TypeOK
    <3>2. success /\ local[p].pc = "remove"
      BY <2>1, <2>3 DEF At
    <3> QED
      BY <2>1, <2>2, <2>3, <3>1, <3>2 DEF RemoveFile, AudienceInv
  <2>4. CASE q # p
    <3>1. local'[q] = local[q]
      BY <1>3, <2>2, <2>4 DEF LogoutFile, End, AudienceInv, TypeOK
    <3> QED
      BY <2>1, <2>2, <3>1 DEF RemoveFile, AudienceInv
  <2> QED BY <2>3, <2>4
<1>4. CASE Elsewhere(p)
  <2>1. UNCHANGED <<file, keyring>> /\ q \in quiet \ {p}
    BY <1>4, ElsewhereKeeps
  <2>2. local'[q] = local[q]
    BY <2>1, ActionStepped DEF AudienceInv, TypeOK, Stepped, Alone, Procs
  <2> QED
    BY <2>1, <2>2 DEF AudienceInv
<1> QED
  BY <1>1, <1>2, <1>3, <1>4 DEF Action

LEMMA InitAudienceInv == Init => AudienceInv
<1> SUFFICES ASSUME Init PROVE AudienceInv
  OBVIOUS
<1>1. Empty \in Local
  <2>1. "start" \in Places /\ 0 \in 0 .. Dimensions /\ 0 \in 0 .. MaxTime
    BY DEF Places
  <2> QED BY <2>1 DEF Empty, Local
<1>2. \A a \in Accounts \cup {None} : [login |-> Old, account |-> a] \in Token
  BY DEF Token
<1>3. TypeOK
  BY <1>1, <1>2 DEF Init, TypeOK
<1>4. \A p \in Procs : Sound(p)
  BY DEF Init, Sound, Observing, Empty
<1> QED
  BY <1>3, <1>4 DEF Init, AudienceInv, SnapshotsAreWhole

LEMMA NextKeepsAudienceInv == AudienceInv /\ [Next]_vars => AudienceInv'
<1> SUFFICES ASSUME AudienceInv, [Next]_vars PROVE AudienceInv'
  OBVIOUS
<1>1. ASSUME NEW p \in Procs, Action(p) PROVE AudienceInv'
  <2>1. Stepped(p)
    BY <1>1, ActionStepped DEF AudienceInv
  <2>2. \A q \in Procs : Sound(q)'
    BY <2>1, OthersSound DEF AudienceInv
  <2>3. SnapshotsAreWhole' /\ \A q \in quiet' : Cleared(q)'
    BY <1>1, SnapshotsStayWhole, QuietStaysClear
  <2> QED
    BY <2>1, <2>2, <2>3 DEF AudienceInv, Stepped
<1>2. CASE UNCHANGED vars \/ Tick
  <2>1. UNCHANGED <<kept, owner, snapshots, local, quiet>>
    BY <1>2 DEF vars, service, Tick
  <2>2. now' \in 0 .. MaxTime
    BY <1>2 DEF vars, service, Tick, AudienceInv, TypeOK
  <2> QED
    BY <2>1, <2>2 DEF AudienceInv, TypeOK, Sound, Rightful, SnapshotsAreWhole, Cleared, kept
<1> QED
  BY <1>1, <1>2, NextSplits

LEMMA AudienceInvariant == Spec => []AudienceInv
BY InitAudienceInv, NextKeepsAudienceInv, PTL DEF Spec

-----------------------------------------------------------------------------
(* Theorems                                                                *)

\* Every variable has its type; in particular the file never holds a torn token.
THEOREM AudienceTypeCorrect == Spec => []TypeOK
<1>1. AudienceInv => TypeOK
  BY DEF AudienceInv
<1> QED BY <1>1, AudienceInvariant, PTL

\* A stored snapshot is what one refresh has observed, with all the breakdowns or
\* none, whatever other refreshes write under its account and instant
\* (audience_refresh.rs, upsert_audience_snapshot).
THEOREM SnapshotsAreAlwaysWhole == Spec => []SnapshotsAreWhole
<1>1. AudienceInv => SnapshotsAreWhole
  BY DEF AudienceInv
<1> QED BY <1>1, AudienceInvariant, PTL

\* After a logout that reported success both places stay empty until a token is
\* saved again (token_store, auth.rs).
THEOREM LogoutsHold == Spec => []LogoutHolds
<1>1. AudienceInv => LogoutHolds
  BY DEF AudienceInv, Cleared, LogoutHolds, At, Loads
<1> QED BY <1>1, AudienceInvariant, PTL

\* A snapshot is filed under the account whose token was used to observe it, and
\* never under another than the token was bound to (audience_refresh.rs).
THEOREM SnapshotsAreAlwaysTheAccounts == Spec => SnapshotsAreTheAccounts
<1> DEFINE P == \A s \in snapshots' \ snapshots :
                  /\ s.account = owner[local[s.by].session]
                  /\ local[s.by].token.account \in {None, s.account}
<1>1. AudienceInv /\ [Next]_vars => [P]_vars
  <2> SUFFICES ASSUME AudienceInv, Next PROVE P
    OBVIOUS
  <2>1. CASE Tick
    BY <2>1 DEF Tick
  <2>2. ASSUME NEW p \in Procs, Action(p), NEW s \in snapshots' \ snapshots
        PROVE  /\ s.account = owner[local[s.by].session]
               /\ local[s.by].token.account \in {None, s.account}
    <3>1. WriteSnapshot(p) /\ s = RowOf(p)
      BY <2>2, SnapshotsStayWhole
    <3>2. local[p].pc = "snapshot" /\ Sound(p) /\ s.by = p /\ s.account = local[p].account
      BY <3>1, RowIsSnapshot DEF WriteSnapshot, At, AudienceInv
    <3> QED
      BY <3>2 DEF Sound, Observing
  <2> QED
    BY <2>1, <2>2, NextSplits
<1> QED
  BY <1>1, AudienceInvariant, PTL DEF Spec, SnapshotsAreTheAccounts

\* A token bound to an account it does not authenticate is stored by a refresh
\* whose provider was opened with another token than the one it bound, and in no
\* other way (auth.rs, audience.rs).
THEOREM MisbindingsNeedARace == Spec => MisbindingNeedsARace
<1> DEFINE P == \A t \in {file', keyring'} \ {file, keyring} :
                  Misbound(t) => \E p \in Refreshes :
                    local[p].token = t /\ local[p].session # t.login
<1>1. AudienceInv /\ [Next]_vars => [P]_vars
  <2> SUFFICES ASSUME AudienceInv, Next,
                      NEW t \in {file', keyring'} \ {file, keyring}, Misbound(t)
               PROVE  \E p \in Refreshes :
                        local[p].token = t /\ local[p].session # t.login
    OBVIOUS
  <2>1. ~Tick
    BY DEF Tick, kept
  <2>2. PICK p \in Procs : Action(p)
    BY <2>1, NextSplits
  <2>3. t # NoToken
    BY DEF Misbound
  <2>4. SaveFile(p) \/ SaveKeyring(p)
    <3>1. ~Elsewhere(p)
      BY ElsewhereKeeps
    <3>2. ~LogoutKeyring(p)
      BY <2>3 DEF LogoutKeyring, ClearCopy
    <3>3. ~LogoutFile(p)
      BY <2>3 DEF LogoutFile, RemoveFile
    <3> QED BY <2>2, <3>1, <3>2, <3>3 DEF Action
  <2>5. t = local[p].token /\ Rightful(p)
    BY <2>4 DEF SaveFile, SaveKeyring, Replace, SaveCopy, At, Sound, AudienceInv
  <2> QED
    BY <2>5 DEF Rightful, Misbound
<1> QED
  BY <1>1, AudienceInvariant, PTL DEF Spec, MisbindingNeedsARace

-----------------------------------------------------------------------------
(* How long a command can go on                                            *)

Pages == Cardinality(Cursors)
RefreshCost == Dimensions + Pages + 9

\* The most steps a process at `place` still has ahead of it, when it has asked
\* for `asked` breakdowns and has `unmet` cursors of the service to meet.
Ahead(place, asked, unmet) ==
  CASE place = "open"         -> RefreshCost
    [] place = "me"           -> Dimensions + Pages + 8
    [] place = "count"        -> Dimensions + Pages + 7
    [] place = "demographics" -> (Dimensions - asked) + Pages + 6
    [] place = "snapshot"     -> Pages + 5
    [] place = "mentions"     -> unmet + 4
    [] place = "finish"       -> 3
    [] place = "replace"      -> 2
    [] place \in {"copy", "remove", "removeAnyway", "purge"} -> 1
    [] OTHER                  -> 0

Unmet(p) == Cardinality(Cursors \ local[p].cursors)

StepsAhead(p) == Ahead(local[p].pc, local[p].asked, Unmet(p))

CommandsFit == \A p \in Procs : StepsAhead(p) \in 0 .. RefreshCost

LEMMA AheadAt ==
  ASSUME NEW n, NEW u
  PROVE  /\ Ahead("open", n, u) = RefreshCost
         /\ Ahead("me", n, u) = Dimensions + Pages + 8
         /\ Ahead("count", n, u) = Dimensions + Pages + 7
         /\ Ahead("demographics", n, u) = (Dimensions - n) + Pages + 6
         /\ Ahead("snapshot", n, u) = Pages + 5
         /\ Ahead("mentions", n, u) = u + 4
         /\ Ahead("finish", n, u) = 3
         /\ Ahead("replace", n, u) = 2
         /\ Ahead("copy", n, u) = 1
         /\ Ahead("remove", n, u) = 1
         /\ Ahead("removeAnyway", n, u) = 1
         /\ Ahead("purge", n, u) = 1
         /\ Ahead("start", n, u) = 0
         /\ Ahead("done", n, u) = 0
  BY DEF Ahead

LEMMA CursorsCount ==
  ASSUME IsFiniteSet(Cursors), TypeOK, NEW p \in Procs
  PROVE  /\ Pages \in Nat /\ RefreshCost \in Nat
         /\ RefreshCost = Dimensions + Pages + 9
         /\ Unmet(p) \in Nat /\ Unmet(p) <= Pages
         /\ local[p].asked \in Nat /\ local[p].asked <= Dimensions
<1>1. Pages \in Nat
  BY FS_CardinalityType DEF Pages
<1>2. Unmet(p) \in Nat /\ Unmet(p) <= Pages
  <2>1. Cursors \ local[p].cursors \subseteq Cursors
    OBVIOUS
  <2>2. QED
    BY <2>1, FS_Subset, FS_CardinalityType DEF Pages, Unmet
<1>3. local[p].asked \in Nat /\ local[p].asked <= Dimensions
  BY LocalFields
<1>4. QED
  BY <1>1, <1>2, <1>3 DEF RefreshCost

LEMMA CommandsCount ==
  ASSUME IsFiniteSet(Cursors), TypeOK, NEW p \in Procs
  PROVE  StepsAhead(p) \in 0 .. RefreshCost
<1>1. /\ Pages \in Nat /\ RefreshCost = Dimensions + Pages + 9
      /\ Unmet(p) \in Nat /\ Unmet(p) <= Pages
      /\ local[p].asked \in Nat /\ local[p].asked <= Dimensions
  BY CursorsCount
<1>2. local[p].pc \in Places
  BY LocalFields
<1> HIDE DEF Unmet
<1>3. CASE local[p].pc \in {"open", "me", "count", "demographics", "snapshot", "mentions"}
  BY <1>1, <1>3, AheadAt DEF StepsAhead
<1>4. CASE local[p].pc \in {"start", "replace", "copy", "remove", "removeAnyway",
                            "finish", "purge", "done"}
  BY <1>1, <1>4, AheadAt DEF StepsAhead
<1>5. QED
  BY <1>2, <1>3, <1>4 DEF Places

\* A process that ends has nothing ahead of it.
LEMMA EndingDescends ==
  ASSUME IsFiniteSet(Cursors), TypeOK, NEW p \in Procs,
         local[p].pc \notin {"start", "done"}, End(p)
  PROVE  StepsAhead(p)' < StepsAhead(p)
<1>1. local'[p] = [Empty EXCEPT !.pc = IF p \in Refreshes THEN "start" ELSE "done"]
  BY DEF TypeOK, End
<1>2. local'[p].pc \in {"start", "done"}
  BY <1>1 DEF Empty
<1>3. StepsAhead(p)' = 0
  BY <1>2, AheadAt DEF StepsAhead
<1>4. StepsAhead(p) > 0
  <2>1. /\ Pages \in Nat /\ RefreshCost = Dimensions + Pages + 9
        /\ Unmet(p) \in Nat /\ local[p].asked \in Nat /\ local[p].asked <= Dimensions
    BY CursorsCount
  <2>2. CASE local[p].pc \in {"open", "me", "count", "demographics", "snapshot", "mentions"}
    BY <2>1, <2>2, AheadAt DEF StepsAhead
  <2>3. CASE local[p].pc \in {"replace", "copy", "remove", "removeAnyway", "finish", "purge"}
    BY <2>3, AheadAt DEF StepsAhead
  <2>4. QED
    BY <2>2, <2>3, LocalFields DEF Places
<1>5. QED
  BY <1>3, <1>4

\* One that goes on comes to a later place, but for the two loops: a breakdown
\* is one less to ask for, a page one cursor less to meet.
LEMMA GoingOnDescends ==
  ASSUME IsFiniteSet(Cursors), TypeOK, NEW p \in Procs, Step(p), ~End(p)
  PROVE  StepsAhead(p)' < StepsAhead(p)
<1> DEFINE before == local[p].pc
           after == local'[p].pc
<1>1. local[p] \in Local /\ DOMAIN local = Procs
  BY LocalFields DEF TypeOK
<1>2. /\ Pages \in Nat /\ RefreshCost = Dimensions + Pages + 9
      /\ Unmet(p) \in Nat /\ Unmet(p) <= Pages
      /\ local[p].asked \in Nat /\ local[p].asked <= Dimensions
  BY CursorsCount
<1>3. CASE SaveFile(p)
  <2>1. before = "replace" /\ after = "copy"
    BY <1>1, <1>3 DEF SaveFile, At, Goto, Local
  <2>2. QED
    BY <2>1, AheadAt DEF StepsAhead
<1>4. CASE OpenProvider(p)
  <2>1. before = "open" /\ after = "me"
    BY <1>1, <1>4 DEF OpenProvider, At, Local
  <2>2. QED
    BY <1>2, <2>1, AheadAt DEF StepsAhead
<1>5. CASE FetchMe(p)
  <2>1. before = "me" /\ after = "count"
    BY <1>1, <1>5 DEF FetchMe, At, Local
  <2>2. QED
    BY <1>2, <2>1, AheadAt DEF StepsAhead
<1>6. CASE FetchCount(p)
  <2>1. before = "count" /\ after \in {"demographics", "snapshot"}
        /\ local'[p].asked = local[p].asked
    BY <1>1, <1>6 DEF FetchCount, At, Local
  <2>2. QED
    BY <1>2, <2>1, AheadAt DEF StepsAhead
<1>7. CASE FetchDemographics(p)
  <2>1. /\ before = "demographics"
        /\ local'[p].asked = local[p].asked + 1
        /\ after = IF local[p].asked + 1 < Dimensions THEN "demographics" ELSE "snapshot"
    BY <1>1, <1>7 DEF FetchDemographics, At, Local
  <2>2. QED
    BY <1>2, <2>1, AheadAt DEF StepsAhead
<1>8. CASE WriteSnapshot(p)
  <2>1. before = "snapshot" /\ after = "mentions" /\ Unmet(p)' = Unmet(p)
    BY <1>1, <1>8 DEF WriteSnapshot, At, Local, Unmet
  <2>2. QED
    BY <1>2, <2>1, AheadAt DEF StepsAhead
<1>9. CASE FetchMentions(p)
  <2>1. before = "mentions" /\ StepsAhead(p) = Unmet(p) + 4
    BY <1>9, AheadAt DEF FetchMentions, At, StepsAhead
  <2>2. CASE Goto(p, "finish")
    <3>1. after = "finish"
      BY <1>1, <2>2 DEF Goto, Local
    <3>2. QED
      BY <1>2, <2>1, <3>1, AheadAt DEF StepsAhead
  <2>3. ASSUME NEW next \in Cursors, next \notin local[p].cursors,
               local' = [local EXCEPT ![p].cursors = Remember(p, next)]
        PROVE  StepsAhead(p)' < StepsAhead(p)
    <3>1. after = "mentions" /\ local'[p].cursors = local[p].cursors \cup {next}
      BY <1>1, <2>1, <2>3 DEF Local, Remember
    <3>2. Unmet(p)' = Unmet(p) - 1
      <4>1. /\ Cursors \ local'[p].cursors = (Cursors \ local[p].cursors) \ {next}
            /\ next \in Cursors \ local[p].cursors
            /\ IsFiniteSet(Cursors \ local[p].cursors)
        BY <2>3, <3>1, FS_Difference
      <4>2. QED
        BY <4>1, FS_RemoveElement DEF Unmet
    <3>3. StepsAhead(p)' = Unmet(p)' + 4
      BY <3>1, AheadAt DEF StepsAhead
    <3>4. QED
      BY <1>2, <2>1, <3>2, <3>3
  <2>4. QED
    BY <1>9, <2>2, <2>3 DEF FetchMentions
<1>10. CASE Finish(p)
  <2>1. before = "finish" /\ after = "replace"
    BY <1>1, <1>10 DEF Finish, StartSave, At, Local
  <2>2. QED
    BY <2>1, AheadAt DEF StepsAhead
<1>11. QED
  BY <1>3, <1>4, <1>5, <1>6, <1>7, <1>8, <1>9, <1>10
     DEF Step, SaveFails, SaveKeyring, LogoutFile, InsightFails, Fail, Purge

LEMMA CommandDescends ==
  ASSUME IsFiniteSet(Cursors), TypeOK, NEW p \in Procs, Step(p)
  PROVE  StepsAhead(p)' < StepsAhead(p)
<1>1. local[p].pc \notin {"start", "done"}
  BY DEF Step, SaveFails, SaveFile, SaveKeyring, LogoutFile, OpenProvider, FetchMe,
         FetchCount, FetchDemographics, WriteSnapshot, FetchMentions, Finish,
         InsightFails, Fail, Purge, At
<1>2. QED
  BY <1>1, EndingDescends, GoingOnDescends

\* Nothing else adds to what a command that has begun has ahead of it.
LEMMA OthersDoNotLengthen ==
  ASSUME TypeOK, \A q \in Procs : Sound(q), [Next]_vars,
         NEW p \in Procs, ~At(p, "start"), ~Step(p)
  PROVE  StepsAhead(p)' = StepsAhead(p) \/ StepsAhead(p)' = 0
<1>1. CASE local'[p] = local[p]
  BY <1>1 DEF StepsAhead, Unmet
<1>2. ASSUME NEW q \in Procs \ {p}, Action(q)
      PROVE  local'[p] = local[p]
  <2>1. Stepped(q)
    BY <1>2, ActionStepped
  <2>2. QED
    BY <2>1 DEF Stepped, Alone
<1>3. CASE Kill(p)
  <2>1. local'[p] = [Empty EXCEPT !.pc = IF p \in Refreshes THEN "start" ELSE "done"]
    BY <1>3 DEF TypeOK, Kill, End
  <2>2. local'[p].pc \in {"start", "done"}
    BY <2>1 DEF Empty
  <2>3. QED
    BY <2>2, AheadAt DEF StepsAhead
<1>4. ~(Login(p) \/ LogoutKeyring(p) \/ LoadToken(p) \/ StartPurge(p))
  BY DEF Login, LogoutKeyring, LoadToken, StartPurge
<1>5. CASE Action(p)
  BY <1>3, <1>4, <1>5 DEF Action, Elsewhere, Step
<1>6. CASE Tick \/ UNCHANGED vars
  BY <1>1, <1>6 DEF Tick, vars
<1>7. QED
  BY <1>1, <1>2, <1>5, <1>6, NextSplits

\* If the service has finitely many cursors to hand out, which it may do in a
\* circle, every command takes a bounded number of steps, a refresh one for each
\* breakdown and cursor and nine more: each brings its end nearer, and nothing
\* that others do puts it off.
THEOREM AudienceCommandsAreShort ==
  ASSUME IsFiniteSet(Cursors)
  PROVE  Spec => /\ []CommandsFit
                 /\ [][\A p \in Procs :
                         /\ Step(p) => StepsAhead(p)' < StepsAhead(p)
                         /\ ~At(p, "start") => StepsAhead(p)' <= StepsAhead(p)]_vars
<1>1. AudienceInv => CommandsFit
  BY CommandsCount DEF AudienceInv, CommandsFit
<1>2. AudienceInv /\ CommandsFit /\ CommandsFit' /\ [Next]_vars =>
        [\A p \in Procs :
            /\ Step(p) => StepsAhead(p)' < StepsAhead(p)
            /\ ~At(p, "start") => StepsAhead(p)' <= StepsAhead(p)]_vars
  <2> SUFFICES ASSUME AudienceInv, CommandsFit, CommandsFit', [Next]_vars,
                      NEW p \in Procs
               PROVE  /\ Step(p) => StepsAhead(p)' < StepsAhead(p)
                      /\ ~At(p, "start") => StepsAhead(p)' <= StepsAhead(p)
    OBVIOUS
  <2>1. StepsAhead(p) \in Nat /\ StepsAhead(p)' \in Nat
    <3>1. RefreshCost \in Nat
      BY CursorsCount DEF AudienceInv
    <3>2. QED
      BY <3>1 DEF CommandsFit
  <2>2. Step(p) => StepsAhead(p)' < StepsAhead(p)
    BY CommandDescends DEF AudienceInv
  <2>3. StepsAhead(p)' < StepsAhead(p) => StepsAhead(p)' <= StepsAhead(p)
    BY <2>1
  <2>4. ~At(p, "start") /\ ~Step(p) => StepsAhead(p)' = StepsAhead(p) \/ StepsAhead(p)' = 0
    BY OthersDoNotLengthen DEF AudienceInv
  <2>5. StepsAhead(p)' = StepsAhead(p) \/ StepsAhead(p)' = 0 => StepsAhead(p)' <= StepsAhead(p)
    BY <2>1
  <2>6. QED
    BY <2>2, <2>3, <2>4, <2>5
<1>3. QED
  BY <1>1, <1>2, AudienceInvariant, PTL DEF Spec

=============================================================================
