------------------------------- MODULE TokenStore -------------------------------
(***************************************************************************)
(* Where the access token is kept                                          *)
(* (crates/threads-provider-official/src/token_store): a private file that *)
(* is replaced through a temporary file, and a copy in the keyring of the  *)
(* operating system, whose every operation may fail.  The two are written  *)
(* and cleared one after the other, and nothing locks them.                *)
(***************************************************************************)
EXTENDS Integers, FiniteSets

CONSTANTS Logins,    \* invocations of `auth login`
          Old,       \* the login before them all
          Accounts,  \* of the service
          NoToken,
          None,      \* a token without a recorded user_id
          Torn       \* a file that was only written in part

\* A token is told from others by the login that obtained it.  The account it
\* records need not be the one it authenticates.
Token == [login : Logins \cup {Old}, account : Accounts \cup {None}]

ASSUME TokenStoreAssumption ==
  /\ Old \notin Logins
  /\ None \notin Accounts
  /\ NoToken \notin Token /\ Torn \notin Token /\ NoToken # Torn

VARIABLES file,     \* token.json
          keyring,
          temp      \* the temporary file of each process

kept == <<file, keyring, temp>>

\* with_user_id
WithUserId(token, account) == [token EXCEPT !.account = account]

\* load: the file goes before the keyring; a keyring that cannot be read is
\* taken for an empty one.
Loads == IF file # NoToken THEN {file} ELSE {NoToken, keyring}

\* A slip for the mutation runs.
WriteInPlace(p, token) ==
  /\ file' = Torn
  /\ temp' = [temp EXCEPT ![p] = token]
  /\ UNCHANGED keyring

\* atomic_write_private_file, up to its rename: the temporary file is synced.
WriteTemp(p, token) ==
  /\ temp' = [temp EXCEPT ![p] = token]
  /\ UNCHANGED <<file, keyring>>

\* fs::rename
Replace(p) ==
  /\ file' = temp[p]
  /\ temp' = [temp EXCEPT ![p] = NoToken]
  /\ UNCHANGED keyring

\* Any error before that removes the temporary file; a process that dies leaves
\* it, whole or torn, under a name that nobody reads.
Discard(p) ==
  /\ temp' = [temp EXCEPT ![p] = NoToken]
  /\ UNCHANGED <<file, keyring>>

\* The keyring's copy: `let _ =`, its failure is ignored.
SaveCopy(token) ==
  /\ keyring' \in {keyring, token}
  /\ UNCHANGED <<file, temp>>

\* Its removal is not.
ClearCopy(success) ==
  /\ keyring' = IF success THEN NoToken ELSE keyring
  /\ UNCHANGED <<file, temp>>

\* remove_private_file
RemoveFile(success) ==
  /\ file' = IF success THEN NoToken ELSE file
  /\ UNCHANGED <<keyring, temp>>

=============================================================================
