--------------------------------- MODULE Setup ---------------------------------
(***************************************************************************)
(* The commands that set the program up: `init`                            *)
(* (crates/threads-cli/src/commands/init.rs, config/config_persistence.rs) *)
(* and `auth login` (commands/auth.rs, crates/threads-provider-official/   *)
(* src/auth.rs).  Any number of them run at once.                          *)
(*                                                                         *)
(* An `init` looks whether there is a config, asks for the answers, and    *)
(* writes them to a temporary file that it renames.  A login reads the     *)
(* config, shows an authorize URL that carries a fresh state, and takes    *)
(* one code: from the one connection its local listener accepts, or from   *)
(* the URL the user pastes.  The browser, the user and the service are     *)
(* external: a redirect may reach the listener of a later login at the     *)
(* same address, come twice, or be preceded by any other request; a code   *)
(* is good for one exchange, with the redirect URI it was asked for.       *)
(*                                                                         *)
(* A login ends here with its token stored; Audience has how it is saved.  *)
(***************************************************************************)
EXTENDS Integers, FiniteSets

CONSTANTS Inits, Logins,  \* invocations of the two commands
          Pids,           \* the system gives the id of a dead process again
          MaxAttempts,    \* 16 names for a temporary file
          Fixed,          \* redirect URIs on a loopback port
          Portless,       \* one on loopback that names no port
          PortZero,       \* the default, which names port 0
          Pasted,         \* one elsewhere
          Answers,        \* the URIs users enter, a bound
          Old,            \* the hand or the `init` that left a config
          NoConfig, NoToken, NoFile, NoUrl, NoRequest, Silent, Torn, Junk

Uris  == Fixed \cup {Portless, PortZero, Pasted}
Procs == Inits \cup Logins

ASSUME SetupAssumption ==
  /\ Inits \cap Logins = {}
  /\ Uris \cap Logins = {}
  /\ Answers \subseteq Uris
  /\ MaxAttempts \in Nat \ {0}
  /\ NoUrl \notin Uris \cup Logins
  /\ Junk \notin Logins /\ NoRequest \notin Logins \cup {Junk}
  /\ Silent \notin Logins \cup {Junk, NoRequest}
  /\ Old \notin Inits

\* A config is told from others by whoever entered it.
Config == [by : Inits \cup {Old}, redirect : Uris, private : BOOLEAN]
Names  == Pids \X (0 .. MaxAttempts - 1)
Token  == [login : Logins, code : Logins]

ASSUME DistinctAssumption ==
  /\ NoConfig \notin Config /\ NoFile \notin Config /\ Torn \notin Config
  /\ NoConfig # Torn /\ NoToken \notin Token

VARIABLES
  config,   \* config.toml
  temps,    \* the temporary files beside it
  force,    \* --force
  entered,  \* what the user of each `init` answers
  found,    \* history: the config it found
  pid,      \* its process id
  attempt,  \* names it has tried
  redirect, \* the URI each login has loaded
  url,      \* the redirect URI in its authorize URL
  request,  \* the first request that has reached its listener, or its connection
  code,     \* the code it has received: that of some login's URL
  approved, \* logins whose URL the user has approved
  spent,    \* codes the service has exchanged
  token,    \* the token in the store
  pc

files == <<config, temps>>
init  == <<force, entered, found, pid, attempt>>
login == <<redirect, url, request, code, token>>
world == <<approved, spent>>
vars  == <<files, init, login, world, pc>>

Live == {p \in Procs : pc[p] \notin {"idle", "ended"}}

At(p, place) == pc[p] = place

Goto(p, place) == pc' = [pc EXCEPT ![p] = place]

\* A command that ends, one way or another, takes its memory with it.  What it
\* leaves are files and, for a while, its URL in a browser.
EndInit(p) ==
  /\ Goto(p, "ended")
  /\ found' = [found EXCEPT ![p] = NoConfig]
  /\ attempt' = [attempt EXCEPT ![p] = 0]

EndLogin(p) ==
  /\ Goto(p, "ended")
  /\ redirect' = [redirect EXCEPT ![p] = Pasted]
  /\ code' = [code EXCEPT ![p] = p]
  /\ request' = [request EXCEPT ![p] = NoRequest]

-----------------------------------------------------------------------------

Init ==
  /\ config \in {NoConfig} \cup [by : {Old}, redirect : Uris, private : BOOLEAN]
  /\ temps \in [Names -> {NoFile, Torn}]   \* left by earlier processes
  /\ force \in [Inits -> BOOLEAN]
  /\ entered = [p \in Inits |-> Pasted]
  /\ found = [p \in Inits |-> NoConfig]
  /\ pid \in [Inits -> Pids]
  /\ attempt = [p \in Inits |-> 0]
  /\ redirect = [p \in Logins |-> Pasted]
  /\ url = [p \in Logins |-> NoUrl]
  /\ request = [p \in Logins |-> NoRequest]
  /\ code = [p \in Logins |-> p]
  /\ approved = {}
  /\ spent = {}
  /\ token = NoToken
  /\ pc = [p \in Procs |-> "idle"]

-----------------------------------------------------------------------------
(* init                                                                    *)

\* A slip for the mutation runs.
CheckNothing(p) ==
  /\ At(p, "idle")
  /\ \A q \in Live \cap Inits : pid[q] # pid[p]
  /\ found' = [found EXCEPT ![p] = config]
  /\ Goto(p, "prompt")
  /\ UNCHANGED <<files, force, entered, pid, attempt, login, world>>

\* path.exists() && !args.force
Check(p) ==
  /\ At(p, "idle")
  /\ \A q \in Live \cap Inits : pid[q] # pid[p]
  /\ IF config # NoConfig /\ ~force[p]
     THEN EndInit(p)
     ELSE /\ found' = [found EXCEPT ![p] = config]
          /\ Goto(p, "prompt")
          /\ UNCHANGED attempt
  /\ UNCHANGED <<files, force, entered, pid, login, world>>

\* The loop ends with an answer that is not empty; a user who gives none, or
\* whose input has ended, stays in it.
Prompt(p) ==
  /\ At(p, "prompt")
  /\ \E u \in Answers : entered' = [entered EXCEPT ![p] = u]
  /\ Goto(p, "save")
  /\ UNCHANGED <<files, force, found, pid, attempt, login, world>>

Name(p) == <<pid[p], attempt[p]>>

\* create_private_dir, which may fail, and validate_existing_file.
StartSave(p) ==
  /\ At(p, "save")
  /\ \/ /\ config # NoConfig => config.private
        /\ Goto(p, "temp")
        /\ UNCHANGED <<found, attempt>>
     \/ EndInit(p)
  /\ UNCHANGED <<files, force, entered, pid, login, world>>

\* Slips for the mutation runs, here and below.
OpenTempAgain(p) ==
  /\ At(p, "temp")
  /\ temps[Name(p)] = NoFile
  /\ temps' = [temps EXCEPT ![Name(p)] = Torn]
  /\ Goto(p, "write")
  /\ UNCHANGED <<config, init, login, world>>

\* open_private_temporary_file, one name: it may be left over from a process that
\* had this id.  To fail in another way is to end as if killed.
OpenTemp(p) ==
  /\ At(p, "temp")
  /\ \/ /\ temps[Name(p)] = NoFile
        /\ temps' = [temps EXCEPT ![Name(p)] = Torn]
        /\ Goto(p, "write")
        /\ UNCHANGED <<found, attempt>>
     \/ /\ temps[Name(p)] # NoFile /\ attempt[p] + 1 < MaxAttempts
        /\ attempt' = [attempt EXCEPT ![p] = @ + 1]
        /\ UNCHANGED <<temps, pc, found>>
     \/ /\ temps[Name(p)] # NoFile /\ attempt[p] + 1 = MaxAttempts
        /\ EndInit(p)
        /\ UNCHANGED temps
  /\ UNCHANGED <<config, force, entered, pid, login, world>>

Entered(p) == [by |-> p, redirect |-> entered[p], private |-> TRUE]

\* Any error removes the temporary file.
AbandonTemp(p) ==
  /\ temps' = [temps EXCEPT ![Name(p)] = NoFile]
  /\ EndInit(p)
  /\ UNCHANGED <<config, force, entered, pid, login, world>>

\* write_all, then sync_all.
Write(p) ==
  /\ At(p, "write")
  /\ \/ /\ temps' = [temps EXCEPT ![Name(p)] = Entered(p)]
        /\ Goto(p, "rename")
        /\ UNCHANGED <<config, init, login, world>>
     \/ AbandonTemp(p)

RenameUnfinished(p) ==
  /\ pc[p] \in {"write", "rename"}
  /\ config' = temps[Name(p)]
  /\ temps' = [temps EXCEPT ![Name(p)] = NoFile]
  /\ EndInit(p)
  /\ UNCHANGED <<force, entered, pid, login, world>>

\* persist
Rename(p) ==
  /\ At(p, "rename")
  /\ \/ /\ config' = temps[Name(p)]
        /\ temps' = [temps EXCEPT ![Name(p)] = NoFile]
        /\ EndInit(p)
        /\ UNCHANGED <<force, entered, pid, login, world>>
     \/ AbandonTemp(p)

-----------------------------------------------------------------------------
(* auth login                                                              *)

\* What the redirect URI of a login is, and where it listens: without a port the
\* system chooses one, told apart by the login, and the URI is made to name it.
\* The default URI names a port, 0, for which the system chooses one too, but
\* the URI stays as it is: nothing the browser is redirected to arrives.
Advertised(p, u) == IF u = Portless THEN p ELSE u
Address(p, u)    == IF u \in Fixed THEN u ELSE p

Listening(p) == At(p, "listen")

\* authorize_url
Show(p, u) == url' = [url EXCEPT ![p] = Advertised(p, u)]

\* CliConfig::load, provider_config, random_state: what was read is in memory from
\* here on.  The environment, which may take the config's place, is left out.
\* Without a loopback URI the URL is shown at once.
Load(p) ==
  /\ At(p, "idle")
  /\ IF config # NoConfig /\ config.private
     THEN /\ redirect' = [redirect EXCEPT ![p] = config.redirect]
          /\ UNCHANGED <<request, code>>
          /\ IF config.redirect = Pasted
             THEN Goto(p, "paste") /\ Show(p, Pasted)
             ELSE Goto(p, "bind") /\ UNCHANGED url
     ELSE EndLogin(p) /\ UNCHANGED url
  /\ UNCHANGED <<files, init, token, world>>

\* bind_to_uri, bind: a port has one listener.
Bind(p) ==
  /\ At(p, "bind")
  /\ IF \E q \in Logins : Listening(q) /\ Address(q, redirect[q]) = Address(p, redirect[p])
     THEN EndLogin(p) /\ UNCHANGED url
     ELSE Goto(p, "listen") /\ Show(p, redirect[p]) /\ UNCHANGED <<redirect, request, code>>
  /\ UNCHANGED <<files, init, token, world>>

Keep(p, r) ==
  /\ code' = [code EXCEPT ![p] = r]
  /\ Goto(p, "exchange")
  /\ UNCHANGED redirect
  /\ request' = [request EXCEPT ![p] = NoRequest]

TakeAnyState(p, r) == IF r # Junk THEN Keep(p, r) ELSE EndLogin(p)

\* The code and the state of a redirect are those of one URL; another state, or
\* none, ends the login.
Take(p, r) == IF r = p THEN Keep(p, r) ELSE EndLogin(p)

\* accept_code: one connection, whoever makes it; the others are dropped with the
\* listener.  It is read until something comes, without a limit.  What was read
\* may be only a part of the request, and the page may fail to be written.
Accept(p, r) ==
  /\ Listening(p)
  /\ r = request[p]
  /\ Take(p, r) \/ EndLogin(p)
  /\ UNCHANGED <<files, init, url, token, world>>

\* parse_code_from_input: any URL the user has at hand.
Paste(p, r) ==
  /\ At(p, "paste")
  /\ r \in approved \cup {Junk}
  /\ Take(p, r)
  /\ UNCHANGED <<files, init, url, token, world>>

PresentedFromConfig(p) ==
  Advertised(p, IF config \in Config THEN config.redirect ELSE PortZero)

\* The redirect URI an exchange sends along.
Presented(p) == Advertised(p, redirect[p])

\* The service exchanges a code once.
Spend(p) ==
  /\ code[p] \notin spent /\ Presented(p) = url[code[p]]
  /\ spent' = spent \cup {code[p]}

Received(p) == Goto(p, "store") /\ UNCHANGED <<redirect, request, code>>

\* exchange_code: the service may refuse it, or its answer be lost; it is not
\* sent again.
Exchange(p) ==
  /\ At(p, "exchange")
  /\ \/ Spend(p) /\ (Received(p) \/ EndLogin(p))
     \/ EndLogin(p) /\ UNCHANGED spent
  /\ UNCHANGED <<files, init, url, token, approved>>

\* upgrade_to_long_lived, and save_token: either may fail.
StoreToken(p) ==
  /\ At(p, "store")
  /\ token' \in {token, [login |-> p, code |-> code[p]]}
  /\ EndLogin(p)
  /\ UNCHANGED <<files, init, url, world>>

-----------------------------------------------------------------------------
(* The others                                                              *)

\* The user approves a URL, whether or not its login still waits.
Approve(p) ==
  /\ url[p] # NoUrl
  /\ approved' = approved \cup {p}
  /\ UNCHANGED <<files, init, login, spent, pc>>

\* A browser connects ahead of its request, or somebody who never makes one.
Connect(p) ==
  /\ Listening(p) /\ request[p] = NoRequest
  /\ request' = [request EXCEPT ![p] = Silent]
  /\ UNCHANGED <<files, init, redirect, url, code, token, world, pc>>

\* Only the first connection to a listener is accepted: those behind it are
\* dropped with it.
Arrive(p, r) ==
  /\ Listening(p) /\ request[p] \in {NoRequest, Silent}
  /\ request' = [request EXCEPT ![p] = r]
  /\ UNCHANGED <<files, init, redirect, url, code, token, world, pc>>

\* The browser follows a redirect, again or for the first time: it reaches
\* whoever listens there now.
Follow(c, p) == c \in approved /\ url[c] = Address(p, redirect[p]) /\ Arrive(p, c)

\* Any other request: a refusal of the user, an icon, another program.
Stray(p) == Arrive(p, Junk)

\* The process is killed: an `init` leaves its temporary file.
KillInit(p) ==
  /\ p \in Live
  /\ EndInit(p)
  /\ UNCHANGED <<files, force, entered, pid, login, world>>

KillLogin(p) ==
  /\ p \in Live
  /\ EndLogin(p)
  /\ UNCHANGED <<files, init, url, token, world>>

InitStep(p) == StartSave(p) \/ OpenTemp(p) \/ Write(p) \/ Rename(p)

LoginStep(p) ==
  \/ Bind(p)
  \/ \E r \in Logins \cup {Junk} : Accept(p, r)
  \/ Exchange(p) \/ StoreToken(p)

Next ==
  \/ \E p \in Inits : Check(p) \/ Prompt(p) \/ InitStep(p) \/ KillInit(p)
  \/ \E p \in Logins :
       \/ Load(p) \/ LoginStep(p) \/ KillLogin(p) \/ Approve(p)
       \/ Connect(p) \/ Stray(p)
       \/ \E r \in Logins \cup {Junk} : Paste(p, r)
       \/ \E c \in Logins : Follow(c, p)

\* A command goes on by itself but for its user and the browser.
Spec ==
  /\ Init /\ [][Next]_vars
  /\ \A p \in Inits : WF_vars(InitStep(p))
  /\ \A p \in Logins : WF_vars(LoginStep(p))

-----------------------------------------------------------------------------
(* Properties                                                              *)

InitPlaces  == {"prompt", "save", "temp", "write", "rename"}
LoginPlaces == {"bind", "listen", "paste", "exchange", "store"}

TypeOK ==
  /\ config \in Config \cup {NoConfig}
  /\ temps \in [Names -> Config \cup {NoFile, Torn}]
  /\ force \in [Inits -> BOOLEAN]
  /\ entered \in [Inits -> Uris]
  /\ found \in [Inits -> Config \cup {NoConfig}]
  /\ pid \in [Inits -> Pids]
  /\ attempt \in [Inits -> 0 .. MaxAttempts - 1]
  /\ redirect \in [Logins -> Uris]
  /\ url \in [Logins -> Uris \cup Logins \cup {NoUrl}]
  /\ request \in [Logins -> Logins \cup {Junk, NoRequest, Silent}]
  /\ code \in [Logins -> Logins]
  /\ approved \subseteq Logins /\ spent \subseteq Logins
  /\ token \in Token \cup {NoToken}
  /\ pc \in [Procs -> {"idle", "ended"} \cup InitPlaces \cup LoginPlaces]

\* The config is what one user has entered, all of it, whoever was killed while
\* writing and whatever was left under the name of the temporary file.
ConfigIsWhole ==
  /\ config # Torn
  /\ \A p \in Inits : config # NoConfig /\ config.by = p => config = Entered(p)

\* Without --force a config is replaced only if there was none when the `init`
\* looked: what was there before is safe, what another one has written since is
\* not.
OverwriteNeedsARace ==
  [][\A p \in Inits : config' # config /\ config'.by = p /\ ~force[p]
       => found[p] = NoConfig]_vars

\* The token in the store comes from an approval of the very login that stored
\* it, whatever redirects of other logins met its listener or were pasted.
TokenIsApproved ==
  token # NoToken => token.code = token.login /\ token.login \in approved

\* An exchange sends a code that has not been exchanged, however often a redirect
\* comes or is pasted, with the redirect URI the code was asked for, also when the
\* config was replaced since.
ExchangesAreGood ==
  \A p \in Logins : At(p, "exchange") =>
    code[p] \notin spent /\ Presented(p) = url[code[p]]

\* An `init` that has its answers ends, and so does a login once a request has
\* reached its listener.
CommandsEnd ==
  /\ \A p \in Inits : At(p, "save") ~> At(p, "ended")
  /\ \A p \in Logins :
       (Listening(p) /\ request[p] \in Logins \cup {Junk}) \/ At(p, "exchange") ~> At(p, "ended")

=============================================================================
