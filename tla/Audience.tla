-------------------------------- MODULE Audience --------------------------------
(***************************************************************************)
(* The commands that write or depend on the stored token and the account   *)
(* it is bound to: `auth login`, `auth logout`, `audience refresh` and     *)
(* `audience purge` (crates/threads-cli/src/commands/auth.rs, audience.rs, *)
(* crates/threads-ingest/src/orchestrator/audience_refresh.rs).            *)
(*                                                                         *)
(* Any number of them run at once.  A refresh loads the token, and opening *)
(* the provider loads it again; it asks the service for insights, writes   *)
(* one snapshot, reads the mentions page by page and, when the token was   *)
(* not bound to an account, saves it back bound.  (PostStore!FetchMention  *)
(* has what a page of mentions writes.)                                    *)
(***************************************************************************)
EXTENDS TokenStore

CONSTANTS Logouts, Refreshes, Purges,  \* invocations of the other commands
          Dimensions,  \* 4 demographic breakdowns, one request each
          Cursors,     \* of the pages of mentions
          MaxTime      \* bound on the clock, for TLC

Procs == Logins \cup Logouts \cup Refreshes \cup Purges

ASSUME AudienceAssumption ==
  /\ Logins \cap (Logouts \cup Refreshes \cup Purges) = {}
  /\ Logouts \cap (Refreshes \cup Purges) = {}
  /\ Refreshes \cap Purges = {}
  /\ Dimensions \in Nat /\ MaxTime \in Nat

VARIABLES
  owner,      \* who approved each login: the account its token authenticates
  now,        \* the clock that stamps snapshots
  snapshots,  \* the tables of snapshots and their demographics
  local,      \* what each process has in memory, and where it is
  quiet       \* history: logouts since whose start no token was saved

service == <<owner, now>>
vars    == <<kept, service, snapshots, local, quiet>>

Places == {"start", "replace", "copy", "remove", "removeAnyway", "open",
           "me", "count", "demographics", "snapshot", "mentions", "finish",
           "purge", "done"}

\* The token it has loaded, or is to save; the login whose token its provider
\* sends; what the service calls its account; whether it counted at least 100
\* followers; how many breakdowns it has read; the time of its snapshot, or its
\* cutoff; the cursors it has met.
Local == [pc : Places, token : Token \cup {NoToken}, session : Logins \cup {Old},
          account : Accounts \cup {None}, large : BOOLEAN,
          asked : 0 .. Dimensions, at : 0 .. MaxTime, cursors : SUBSET Cursors]

Empty == [pc |-> "start", token |-> NoToken, session |-> Old, account |-> None,
          large |-> FALSE, asked |-> 0, at |-> 0, cursors |-> {}]

\* Counts and buckets are told from others by the refresh that observed them.
Snapshot == [account : Accounts, at : 0 .. MaxTime, by : Refreshes,
             large : BOOLEAN, buckets : SUBSET ((1 .. Dimensions) \X Refreshes)]

At(p, place) == local[p].pc = place

Goto(p, place) == local' = [local EXCEPT ![p].pc = place]

\* A process that ends, one way or another, takes its memory with it.  A refresh
\* may be run again; each of the other commands runs once, a bound for TLC.
End(p) ==
  local' = [local EXCEPT ![p] =
              [Empty EXCEPT !.pc = IF p \in Refreshes THEN "start" ELSE "done"]]

-----------------------------------------------------------------------------

\* A token from before account ids were recorded may be stored.
Init ==
  /\ owner \in [Logins \cup {Old} -> Accounts]
  /\ file \in {NoToken} \cup {[login |-> Old, account |-> a] : a \in {None, owner[Old]}}
  /\ keyring \in {NoToken, file}
  /\ temp = [p \in Procs |-> NoToken]
  /\ now = 0
  /\ snapshots = {}
  /\ local = [p \in Procs |-> Empty]
  /\ quiet = {}

-----------------------------------------------------------------------------
(* Saving a token: the last part of a login, and of some refreshes         *)

\* TokenStore::save: the temporary file is nobody else's, and so its writing is
\* one step with what leads to it.
StartSave(p, token) ==
  /\ WriteTemp(p, token)
  /\ local' = [local EXCEPT ![p].token = token, ![p].pc = "replace"]

SaveFails(p) ==
  /\ At(p, "replace")
  /\ Discard(p)
  /\ End(p)
  /\ UNCHANGED <<service, snapshots, quiet>>

SaveFile(p) ==
  /\ At(p, "replace")
  /\ Replace(p)
  /\ Goto(p, "copy")
  /\ quiet' = {}
  /\ UNCHANGED <<service, snapshots>>

SaveKeyring(p) ==
  /\ At(p, "copy")
  /\ SaveCopy(local[p].token)
  /\ End(p)
  /\ quiet' = {}
  /\ UNCHANGED <<service, snapshots>>

-----------------------------------------------------------------------------
(* auth login, auth logout                                                 *)

\* What the answers to the two token requests say of the account: user_id is
\* optional.
Named(p) == {None, owner[p]}

\* A slip for the mutation runs.
GrantedKeepingUserId(p) ==
  {[login |-> p, account |-> id] :
     id \in Named(p) \cup {t.account : t \in Loads \ {NoToken}}}

\* finish_login: the code becomes a token, and that a long-lived one.
Granted(p) == {[login |-> p, account |-> id] : id \in Named(p)}

\* The user approves, and the callback or the pasted URL carries the code and the
\* state of this login.  Until the token is saved nothing is shared.
Login(p) ==
  /\ p \in Logins
  /\ At(p, "start")
  /\ \E t \in Granted(p) : StartSave(p, t)
  /\ UNCHANGED <<service, snapshots, quiet>>

LogoutKeyring(p) ==
  /\ p \in Logouts
  /\ At(p, "start")
  /\ \E success \in BOOLEAN :
       /\ ClearCopy(success)
       /\ Goto(p, IF success THEN "remove" ELSE "removeAnyway")
  /\ quiet' = quiet \cup {p}
  /\ UNCHANGED <<service, snapshots>>

\* A slip for the mutation runs.
LogoutFileIgnoringKeyring(p) ==
  /\ At(p, "remove") \/ At(p, "removeAnyway")
  /\ \E success \in BOOLEAN :
       /\ RemoveFile(success)
       /\ quiet' = IF success THEN quiet ELSE quiet \ {p}
  /\ End(p)
  /\ UNCHANGED <<service, snapshots>>

\* The file goes even if the keyring's copy did not; either error is reported.
LogoutFile(p) ==
  /\ At(p, "remove") \/ At(p, "removeAnyway")
  /\ \E success \in BOOLEAN :
       /\ RemoveFile(success)
       /\ quiet' = IF success /\ At(p, "remove") THEN quiet ELSE quiet \ {p}
  /\ End(p)
  /\ UNCHANGED <<service, snapshots>>

-----------------------------------------------------------------------------
(* audience refresh                                                        *)

\* load_token
LoadToken(p) ==
  /\ p \in Refreshes
  /\ At(p, "start")
  /\ \E t \in Loads :
       IF t = NoToken
       THEN End(p)
       ELSE local' = [local EXCEPT ![p].token = t, ![p].pc = "open"]
  /\ UNCHANGED <<kept, service, snapshots, quiet>>

\* open_provider: loads the token once more.
OpenProvider(p) ==
  /\ At(p, "open")
  /\ \E t \in Loads :
       IF t = NoToken
       THEN End(p)
       ELSE local' = [local EXCEPT ![p].session = t.login, ![p].pc = "me"]
  /\ UNCHANGED <<kept, service, snapshots, quiet>>

\* A slip for the mutation runs.
FetchMeUnchecked(p) ==
  /\ At(p, "me")
  /\ local' = [local EXCEPT ![p].account = owner[local[p].session],
                            ![p].pc = "count"]
  /\ UNCHANGED <<kept, service, snapshots, quiet>>

\* fetch_me: a token bound to another account than the service names is refused.
FetchMe(p) ==
  /\ At(p, "me")
  /\ LET me == owner[local[p].session]
     IN  IF local[p].token.account \in {None, me}
         THEN local' = [local EXCEPT ![p].account = me, ![p].pc = "count"]
         ELSE End(p)
  /\ UNCHANGED <<kept, service, snapshots, quiet>>

\* fetch_followers_count: no demographics below 100 followers.  The snapshot is
\* stamped as soon as the last insight is there.
FetchCount(p) ==
  /\ At(p, "count")
  /\ \E large \in BOOLEAN :
       local' = [local EXCEPT
         ![p].large = large,
         ![p].at = now,
         ![p].pc = IF large /\ Dimensions > 0 THEN "demographics" ELSE "snapshot"]
  /\ UNCHANGED <<kept, service, snapshots, quiet>>

FetchDemographics(p) ==
  /\ At(p, "demographics")
  /\ local' = [local EXCEPT
       ![p].asked = @ + 1,
       ![p].at = now,
       ![p].pc = IF local[p].asked + 1 < Dimensions THEN @ ELSE "snapshot"]
  /\ UNCHANGED <<kept, service, snapshots, quiet>>

SameKey(s, t) == s.account = t.account /\ s.at = t.at

\* A slip for the mutation runs.
UpsertKeepingBuckets(row) ==
  {s \in snapshots : ~SameKey(s, row)}
    \cup {[row EXCEPT !.buckets = @ \cup UNION {s.buckets : s \in
             {t \in snapshots : SameKey(t, row)}}]}

\* upsert_audience_snapshot: one row for an account and an instant; its
\* demographics are replaced.
UpsertSnapshot(row) == {s \in snapshots : ~SameKey(s, row)} \cup {row}

\* What is not needed any longer is forgotten.
WriteSnapshot(p) ==
  /\ At(p, "snapshot")
  /\ snapshots' = UpsertSnapshot(
       [account |-> local[p].account, at |-> local[p].at, by |-> p,
        large |-> local[p].large, buckets |-> (1 .. local[p].asked) \X {p}])
  /\ local' = [local EXCEPT
       ![p] = [@ EXCEPT !.pc = "mentions", !.large = FALSE, !.asked = 0, !.at = 0]]
  /\ UNCHANGED <<kept, service, quiet>>

\* A slip for the mutation runs.
RememberLast(p, next) == {next}

\* seen_cursors
Remember(p, next) == local[p].cursors \cup {next}

\* ingest_mentions: the account has no username, or the permission is missing (a
\* warning), or this was the last page, or there is a next one, which is followed
\* unless its cursor was met before.
FetchMentions(p) ==
  /\ At(p, "mentions")
  /\ \/ Goto(p, "finish")
     \/ \E next \in Cursors :
          IF next \in local[p].cursors
          THEN Goto(p, "finish")
          ELSE local' = [local EXCEPT ![p].cursors = Remember(p, next)]
  /\ UNCHANGED <<kept, service, snapshots, quiet>>

\* finish_refresh: the token that was loaded first is saved with the account.
Finish(p) ==
  /\ At(p, "finish")
  /\ IF local[p].token.account = None
     THEN StartSave(p, WithUserId(local[p].token, local[p].account))
     ELSE End(p) /\ UNCHANGED kept
  /\ UNCHANGED <<service, snapshots, quiet>>

\* An insight is refused, or is not the one asked for, or has no value: nothing
\* of what was read before is written.
InsightFails(p) ==
  /\ At(p, "count") \/ At(p, "demographics")
  /\ End(p)
  /\ UNCHANGED <<kept, service, snapshots, quiet>>

\* Another request or a transaction fails.
Fail(p) ==
  /\ local[p].pc \in {"open", "me", "snapshot", "mentions"}
  /\ End(p)
  /\ UNCHANGED <<kept, service, snapshots, quiet>>

-----------------------------------------------------------------------------
(* audience purge --apply                                                  *)

\* validated_before, load_token, bound_account.  A cutoff in the future is
\* refused; the latest, which removes the most, stands for all the others.
StartPurge(p) ==
  /\ p \in Purges
  /\ At(p, "start")
  /\ \E t \in Loads :
       IF t = NoToken \/ (t # NoToken /\ t.account = None)
       THEN End(p)
       ELSE local' = [local EXCEPT ![p].token = t, ![p].at = now,
                                   ![p].pc = "purge"]
  /\ UNCHANGED <<kept, service, snapshots, quiet>>

Purge(p) ==
  /\ At(p, "purge")
  /\ snapshots' = {s \in snapshots : \/ s.account # local[p].token.account
                                    \/ s.at >= local[p].at}
  /\ End(p)
  /\ UNCHANGED <<kept, service, quiet>>

-----------------------------------------------------------------------------

Kill(p) ==
  /\ local[p].pc \notin {"start", "done"}
  /\ Discard(p)
  /\ End(p)
  /\ quiet' = quiet \ {p}
  /\ UNCHANGED <<service, snapshots>>

Tick ==
  /\ now < MaxTime
  /\ now' = now + 1
  /\ UNCHANGED <<kept, owner, snapshots, local, quiet>>

\* The steps of a command that has begun.
Step(p) ==
  \/ SaveFails(p) \/ SaveFile(p) \/ SaveKeyring(p)
  \/ LogoutFile(p)
  \/ OpenProvider(p) \/ FetchMe(p) \/ FetchCount(p) \/ FetchDemographics(p)
  \/ WriteSnapshot(p) \/ FetchMentions(p) \/ Finish(p)
  \/ InsightFails(p) \/ Fail(p)
  \/ Purge(p)

Next ==
  \/ \E p \in Procs :
       \/ Login(p) \/ LogoutKeyring(p) \/ LoadToken(p) \/ StartPurge(p)
       \/ Step(p)
       \/ Kill(p)
  \/ Tick

\* Requests time out and transactions return, and so a refresh goes on.  Nobody
\* has to start a command, and a user need not approve a login.
Spec == Init /\ [][Next]_vars /\ \A p \in Refreshes : WF_vars(Step(p))

-----------------------------------------------------------------------------
(* Properties *)

\* In particular, the file always holds a whole token, whatever is killed.
TypeOK ==
  /\ owner \in [Logins \cup {Old} -> Accounts]
  /\ file \in Token \cup {NoToken}
  /\ keyring \in Token \cup {NoToken}
  /\ temp \in [Procs -> Token \cup {NoToken, Torn}]
  /\ now \in 0 .. MaxTime
  /\ snapshots \subseteq Snapshot
  /\ local \in [Procs -> Local]
  /\ quiet \subseteq Logouts

\* A snapshot is what one refresh observed: all the breakdowns when it counted
\* 100 followers, none when it did not, and none of another refresh that wrote
\* under the same account and instant.
SnapshotsAreWhole ==
  \A s \in snapshots :
    s.buckets = (IF s.large THEN 1 .. Dimensions ELSE {}) \X {s.by}

\* A snapshot is filed under the account it was observed for, and a refresh that
\* set out with a token bound to an account writes for no other, although the
\* token it uses is another one when a login comes between its two loads.
SnapshotsAreTheAccounts ==
  [][\A s \in snapshots' \ snapshots :
       /\ s.account = owner[local[s.by].session]
       /\ local[s.by].token.account \in {None, s.account}]_vars

\* A logout that reports success leaves no token in either place, unless one was
\* saved while it ran or since: nothing that was cleared comes back.
LogoutHolds == \A q \in quiet : At(q, "done") => Loads = {NoToken}

\* A token that is bound to an account it does not authenticate comes to be
\* stored by one race only: a refresh that used another token than the one it
\* bound.
Misbound(t) == t \in Token /\ t.account \notin {None, owner[t.login]}
MisbindingNeedsARace ==
  [][\A t \in {file', keyring'} \ {file, keyring} :
       Misbound(t) => \E p \in Refreshes :
         local[p].token = t /\ local[p].session # t.login]_vars

\* Every refresh ends, also when the service hands out its cursors in a circle.
RefreshEnds == \A p \in Refreshes : At(p, "open") ~> At(p, "start")

=============================================================================
