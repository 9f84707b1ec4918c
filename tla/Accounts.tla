------------------------------- MODULE Accounts -------------------------------
(***************************************************************************)
(* The Mojang accounts: MojangAccount, the list that saves itself to       *)
(* accounts.json (MojangAccountList), the request that refreshes or makes  *)
(* a token (YggdrasilTask and its two flows), the dialog that adds an      *)
(* account, and MainWindow::doLaunch, which turns an account into a        *)
(* session a game is started with.                                         *)
(*                                                                         *)
(* An account object is known by its client token, which is made with the  *)
(* account and saved with it. Tokens are numbered in the order the server  *)
(* issues them; 0 is the empty token. An account has at most one profile,  *)
(* and m_currentProfile counts from 1, 0 for none.                         *)
(***************************************************************************)
EXTENDS Sublists, SequencesExt

CONSTANTS
  Names,      \* the user names
  NoName,     \* no name
  Clients,    \* the client tokens
  MaxTokens,  \* bound on the tokens the server issues
  MaxSignals, \* bound on the progress signals of one request
  MaxFaults   \* bound on the saves that fail

ASSUME AccountsAssumption ==
  /\ NoName \notin Names
  /\ Clients \subseteq Nat \ {0}
  /\ MaxTokens \in Nat /\ MaxSignals \in Nat /\ MaxFaults \in Nat

VARIABLES
  account,    \* the account objects
  accounts,   \* MojangAccountList::m_accounts
  active,     \* MojangAccountList::m_activeAccount, 0 for none
  disk,       \* accounts.json
  unsaved,    \* ghost: the last save has failed
  faults,     \* the saves that have failed so far
  login,      \* the request under way (MojangAccount::m_currentTask)
  dialog,     \* the dialog that adds an account is open
  launch,     \* doLaunch: where it is, its account and its session
  valid,      \* external: the token the server accepts from each client
  issued      \* external: the tokens issued so far

vars == <<account, accounts, active, disk, unsaved, faults, login, dialog, launch, valid, issued>>
file == <<disk, unsaved, faults>>
server == <<valid, issued>>

Tokens  == 0..MaxTokens
Pointer == Clients \cup {0}

\* The answers that carry a token; those that refuse the login; and the others: "odd"
\* is empty, lacks a token, is for another client or profile, or is an error in another
\* format, "garbled" is not JSON.
Good     == {"ok", "profileless", "unlisted"}
Refusals == {"refused", "profileless", "unlisted"}
Answers  == Refusals \cup {"ok", "odd", "garbled"}

Account == [name : Names \cup {NoName}, token : Tokens, profiles : 0..1, current : 0..1]
Unused  == [name |-> NoName, token |-> 0, profiles |-> 0, current |-> 0]
NoLogin == [acc |-> 0, by |-> "none", kind |-> "none", answer |-> "none", token |-> 0,
            timer |-> "off", signals |-> 0]
NoLaunch == [stage |-> "none", acc |-> 0, online |-> FALSE, status |-> "none",
             token |-> 0, answered |-> FALSE]

Saved == [client : Clients, name : Names \cup {NoName}, token : Tokens,
          profiles : 0..1, current : 0..1]

\* accounts.json is missing, empty or cut off.
Torn == [whole |-> FALSE, accounts |-> <<>>, active |-> NoName]

\* The type invariant.
TypeOK ==
  /\ account \in [Clients -> Account]
  /\ accounts \in Seq(Clients)
  /\ active \in Pointer
  /\ disk.whole \in BOOLEAN /\ disk.active \in Names \cup {NoName}
  /\ disk.accounts \in Seq(Saved)
  /\ unsaved \in BOOLEAN /\ faults \in 0..MaxFaults
  /\ login \in [acc : Pointer, by : {"none", "launch", "dialog"},
                kind : {"none", "refresh", "auth"},
                answer : Answers \cup {"none"}, token : Tokens,
                timer : {"off", "running", "expired"}, signals : 0..MaxSignals]
  /\ dialog \in BOOLEAN
  /\ launch \in [stage : {"none", "manager", "select", "login", "password", "name", "game"},
                 acc : Pointer, online : BOOLEAN,
                 status : {"none", "password", "offline", "online"},
                 token : Tokens, answered : BOOLEAN]
  /\ valid \in [Clients -> Tokens] /\ issued \in Tokens

Init ==
  /\ account = [c \in Clients |-> Unused]
  /\ accounts = <<>> /\ active = 0
  /\ disk = Torn /\ unsaved = FALSE /\ faults = 0
  /\ login = NoLogin /\ dialog = FALSE /\ launch = NoLaunch
  /\ valid = [c \in Clients |-> 0] /\ issued = 0

-----------------------------------------------------------------------------
\* The list and its file.

Listed == Range(accounts)

\* saveToJson. A current profile beyond the list is read all the same: it crashes,
\* which is a Restart before the step, or it saves an id that no profile has.
ToSaved(h, c) ==
  [client |-> c, name |-> h[c].name, token |-> h[c].token, profiles |-> h[c].profiles,
   current |-> IF h[c].current <= h[c].profiles THEN h[c].current ELSE 0]

Snapshot(h, l, a) ==
  [whole |-> TRUE, accounts |-> [i \in DOMAIN l |-> ToSaved(h, l[i])],
   active |-> IF a = 0 THEN NoName ELSE h[a].name]

\* saveList: the file that can not be opened stays as it is, the write that is not
\* checked may leave it cut off; nobody hears of either.
Save(h, l, a) ==
  \/ disk' = Snapshot(h, l, a) /\ unsaved' = FALSE /\ UNCHANGED faults
  \/ /\ faults < MaxFaults /\ faults' = faults + 1
     /\ disk' \in {disk, Torn} /\ unsaved' = TRUE

\* a plausible bug: the account does not say that it changed
Changed_Unsaid(h) == UNCHANGED file

\* changed() of the account that logs in: an account of the list, or one that was
\* removed from it, makes the list save itself. The new one of the dialog is not
\* connected yet.
Changed(h) == IF login.by = "launch" THEN Save(h, accounts, active) ELSE UNCHANGED file

\* findAccount: the first of that name.
FindAccount(l, h, n) ==
  LET Of == {i \in DOMAIN l : h[l[i]].name = n}
  IN IF Of = {} THEN 0 ELSE l[CHOOSE i \in Of : \A j \in Of : i <= j]

\* setActiveAccount: the last of that name.
LastNamed(n) ==
  LET Of == {i \in DOMAIN accounts : account[accounts[i]].name = n}
  IN IF Of = {} THEN active ELSE accounts[CHOOSE i \in Of : \A j \in Of : j <= i]

SetActive(a) == active' = a /\ Save(account, accounts, a)

\* The account page, by itself or opened by doLaunch. Its dialog is modal.
PageIsOpen == launch.stage \in {"none", "manager"} /\ ~dialog

RemoveAccount(i) ==
  /\ PageIsOpen
  /\ i \in DOMAIN accounts
  /\ accounts' = RemoveAt(accounts, i)
  /\ Save(account, accounts', active)
  /\ UNCHANGED <<account, active, login, dialog, launch, server>>

SetDefault(n) ==
  /\ PageIsOpen
  /\ \E c \in Listed : account[c].name = n
  /\ SetActive(LastNamed(n))
  /\ UNCHANGED <<account, accounts, login, dialog, launch, server>>

NoDefault ==
  /\ PageIsOpen
  /\ SetActive(0)
  /\ UNCHANGED <<account, accounts, login, dialog, launch, server>>

OpenLoginDialog ==
  /\ PageIsOpen
  /\ dialog' = TRUE
  /\ UNCHANGED <<account, accounts, active, file, login, launch, server>>

\* The dialog can be closed at any time; the request goes with its account object.
CloseLoginDialog ==
  /\ dialog
  /\ dialog' = FALSE /\ login' = NoLogin
  /\ UNCHANGED <<account, accounts, active, file, launch, server>>

\* executeTask: the request is sent and its timer is started.
Asking(c, by, kind) ==
  [NoLogin EXCEPT !.acc = c, !.by = by, !.kind = kind, !.timer = "running"]

\* No account has the client token, and no saved one.
Fresh(c) ==
  /\ c \notin Listed \cup {active, launch.acc}
  /\ \A i \in DOMAIN disk.accounts : disk.accounts[i].client # c

\* LoginDialog::accept: a new account object, with a client token of its own. Which of
\* the fresh ones it gets makes no difference.
SubmitLoginDialog(n, c) ==
  /\ dialog /\ login = NoLogin
  /\ Fresh(c) /\ \A d \in Clients : Fresh(d) => c <= d
  /\ account' = [account EXCEPT ![c] = [Unused EXCEPT !.name = n]]
  /\ valid' = [valid EXCEPT ![c] = 0]
  /\ login' = Asking(c, "dialog", "auth")
  /\ UNCHANGED <<accounts, active, file, dialog, launch, issued>>

-----------------------------------------------------------------------------
\* MainWindow::doLaunch.

\* login(): without a token and a password there is nothing to ask the server.
LogIn(l, a, withPassword) ==
  IF account[a].token = 0 /\ ~withPassword
    THEN launch' = [l EXCEPT !.stage = "password", !.acc = a, !.status = "password"]
         /\ login' = NoLogin
    ELSE launch' = [l EXCEPT !.stage = "login", !.acc = a]
         /\ login' = Asking(a, "launch", IF withPassword THEN "auth" ELSE "refresh")

GiveUp == launch' = NoLaunch /\ UNCHANGED login

\* The account is read before the message that there are none.
DoLaunch(online) ==
  /\ launch.stage = "none" /\ ~dialog
  /\ LET l == [NoLaunch EXCEPT !.online = online, !.acc = active]
     IN \/ /\ accounts = <<>>
           /\ \/ launch' = [l EXCEPT !.stage = "manager"] /\ UNCHANGED login
              \/ active # 0 /\ LogIn(l, active, FALSE)
        \/ /\ accounts # <<>> /\ active = 0
           /\ launch' = [l EXCEPT !.stage = "select"] /\ UNCHANGED login
        \/ accounts # <<>> /\ active # 0 /\ LogIn(l, active, FALSE)
  /\ UNCHANGED <<account, accounts, active, file, dialog, server>>

CloseManager ==
  /\ launch.stage = "manager" /\ ~dialog
  /\ IF launch.acc = 0 THEN GiveUp ELSE LogIn(launch, launch.acc, FALSE)
  /\ UNCHANGED <<account, accounts, active, file, dialog, server>>

SelectAccount(c, asDefault) ==
  /\ launch.stage = "select"
  /\ c \in Listed
  /\ LogIn(launch, c, FALSE)
  /\ IF asDefault THEN SetActive(LastNamed(account[c].name)) ELSE UNCHANGED <<active, file>>
  /\ UNCHANGED <<account, accounts, dialog, server>>

\* A dialog of doLaunch is cancelled.
Cancel ==
  /\ launch.stage \in {"select", "password", "name"}
  /\ GiveUp
  /\ UNCHANGED <<account, accounts, active, file, dialog, server>>

EnterPassword(given) ==
  /\ launch.stage = "password"
  /\ LogIn(launch, launch.acc, given)
  /\ UNCHANGED <<account, accounts, active, file, dialog, server>>

\* MakeOffline leaves the session's token: only its status says offline.
EnterName ==
  /\ launch.stage = "name"
  /\ launch' = [launch EXCEPT !.stage = "game", !.status = "offline"]
  /\ UNCHANGED <<account, accounts, active, file, login, dialog, server>>

\* The update and the game, which have modules of their own.
GameEnds ==
  /\ launch.stage = "game"
  /\ launch' = NoLaunch
  /\ UNCHANGED <<account, accounts, active, file, login, dialog, server>>

\* What doLaunch does with a session of that status: it asks for the password or
\* for a player's name, or starts the game.
StageOf(status) ==
  IF status = "password" THEN "password" ELSE IF status = "offline" THEN "name" ELSE "game"

\* The session the task has filled.
SessionFilled(h, status, answered) ==
  launch' = IF login.by = "launch"
    THEN [launch EXCEPT !.status = status, !.answered = answered,
                        !.token = h[launch.acc].token,
                        !.stage = StageOf(status)]
    ELSE launch

-----------------------------------------------------------------------------
\* The server: external, as the two flows expect it.

\* A good answer to `auth', or to a `refresh' with the valid token, carries a new
\* token. An account that is not premium gets a token and no profile.
MayAnswer(a) ==
  /\ a \in Good =>
       /\ issued < MaxTokens
       /\ login.kind = "refresh" => a = "ok" /\ account[login.acc].token = valid[login.acc]

ServerAnswers(a) ==
  /\ login # NoLogin /\ login.answer = "none"
  /\ MayAnswer(a)
  /\ IF a \in Good
       THEN /\ issued' = issued + 1
            /\ valid' = [valid EXCEPT ![login.acc] = issued']
            /\ login' = [login EXCEPT !.answer = a, !.token = issued']
       ELSE login' = [login EXCEPT !.answer = a] /\ UNCHANGED server
  /\ UNCHANGED <<account, accounts, active, file, dialog, launch>>

\* The user logs out everywhere, or changes the password.
Revoke(c) ==
  /\ valid[c] # 0
  /\ valid' = [valid EXCEPT ![c] = 0]
  /\ UNCHANGED <<account, accounts, active, file, login, dialog, launch, issued>>

-----------------------------------------------------------------------------
\* The answer.

\* a plausible bug: a profile's place in the list counted from the wrong end
Processed_OneMore(r) ==
  [r EXCEPT !.token = login.token, !.profiles = 1, !.current = 2]

\* processResponse of the two flows, up to where it fails: `auth' has replaced the
\* token and the profiles before it finds no selected profile among them.
Processed(r) ==
  LET authOk == login.answer = "ok" /\ login.kind = "auth"
  IN [r EXCEPT !.token = IF login.answer \in Good THEN login.token ELSE @,
               !.profiles = IF authOk \/ login.answer = "unlisted" THEN 1
                            ELSE IF login.answer = "profileless" THEN 0 ELSE @,
               !.current = IF authOk THEN 1 ELSE @]

\* a plausible bug: the failed request leaves the token it has just set
LoggedOut_Kept(r) == r

LoggedOut(r) == [r EXCEPT !.token = 0]

\* LoginDialog accepts: addAccountBtn's handler adds the account, and the first one
\* becomes the active one.
AddAccount(h) ==
  /\ accounts' = Append(accounts, login.acc)
  /\ active' = IF Len(accounts') = 1 THEN login.acc ELSE active
  /\ Save(h, accounts', active')
  /\ dialog' = FALSE

AuthSucceeds ==
  /\ login.answer = "ok"
  /\ account' = [account EXCEPT ![login.acc] = Processed(@)]
  /\ login' = NoLogin
  /\ SessionFilled(account', IF launch.online THEN "online" ELSE "offline", TRUE)
  /\ IF login.by = "dialog" THEN AddAccount(account')
                            ELSE Changed(account') /\ UNCHANGED <<accounts, active, dialog>>
  /\ UNCHANGED server

\* a plausible bug: an answer that is not JSON is a hard failure, too
Hard_Any(a) == a # "ok"

\* The answers that end in STATE_FAILED_HARD: the server has refused, or its answer is
\* JSON but not what the flow expects.
Hard(a) == a \in Refusals \cup {"odd"}

AuthFailsHard ==
  /\ Hard(login.answer) /\ login.answer # "none"
  /\ account' = [account EXCEPT ![login.acc] = LoggedOut(Processed(@))]
  /\ login' = NoLogin
  /\ Changed(account')
  /\ SessionFilled(account', "password", TRUE)
  /\ UNCHANGED <<accounts, active, dialog, server>>

\* a plausible bug: a kept token is taken for an answer
Unanswered_Online(verified) == IF verified THEN "online" ELSE "password"

\* The status of a session whose request failed softly.
Unanswered(verified) == IF verified THEN "offline" ELSE "password"

\* STATE_FAILED_SOFT: the account is as it was.
AuthFailsSoftly ==
  /\ login' = NoLogin
  /\ SessionFilled(account, Unanswered(account[login.acc].token # 0), FALSE)
  /\ UNCHANGED <<account, accounts, active, file, dialog, server>>

Garbled == login.answer = "garbled" /\ AuthFailsSoftly

\* The request or its answer is lost.
NetworkFails == login # NoLogin /\ AuthFailsSoftly

\* The skip button of doLaunch's progress dialog.
PlayOffline == login.by = "launch" /\ launch.online /\ AuthFailsSoftly

\* a plausible bug: the timer is stopped and not started again
Progress_Stopped ==
  /\ login # NoLogin /\ login.signals < MaxSignals
  /\ login' = [login EXCEPT !.signals = @ + 1, !.timer = "off"]
  /\ UNCHANGED <<account, accounts, active, file, dialog, launch, server>>

\* refreshTimers: a progress signal of the reply starts the timer again, also when it
\* has run out and its signal is not delivered yet. A request has finitely many.
Progress ==
  /\ login # NoLogin /\ login.signals < MaxSignals
  /\ login' = [login EXCEPT !.signals = @ + 1, !.timer = "running"]
  /\ UNCHANGED <<account, accounts, active, file, dialog, launch, server>>

TimePasses ==
  /\ login.timer = "running"
  /\ login' = [login EXCEPT !.timer = "expired"]
  /\ UNCHANGED <<account, accounts, active, file, dialog, launch, server>>

\* abortByTimeout: the answer may be under way, and is dropped.
Timeout == login.timer = "expired" /\ AuthFailsSoftly

-----------------------------------------------------------------------------
\* The program ends, in whatever state, and is started again: loadList.
Load(d) ==
  LET l == IF d.whole
             THEN Select(d.accounts, {i \in DOMAIN d.accounts : d.accounts[i].profiles > 0})
             ELSE <<>>
      rec(c) == CHOOSE r \in Range(l) : r.client = c
      clients == [i \in DOMAIN l |-> l[i].client]
      h == [c \in Clients |->
              IF c \in Range(clients)
                THEN [name |-> rec(c).name, token |-> rec(c).token,
                      profiles |-> rec(c).profiles, current |-> rec(c).current]
                ELSE Unused]
  IN /\ account' = h
     /\ accounts' = clients
     /\ active' = FindAccount(clients, h, d.active)
     /\ disk' = d /\ unsaved' = FALSE /\ UNCHANGED faults
     /\ login' = NoLogin /\ dialog' = FALSE /\ launch' = NoLaunch
     /\ UNCHANGED server

Restart == Load(disk)

\* The list is written in place: the file is empty when the program dies in between.
TornSave ==
  /\ PageIsOpen \/ login.answer \in Answers
  /\ Load(Torn)

AccountPage ==
  \/ \E i \in DOMAIN accounts : RemoveAccount(i)
  \/ \E n \in Names : SetDefault(n)
  \/ NoDefault
  \/ OpenLoginDialog
  \/ CloseLoginDialog
  \/ \E n \in Names, c \in Clients : SubmitLoginDialog(n, c)

Launching ==
  \/ \E online \in BOOLEAN : DoLaunch(online)
  \/ CloseManager
  \/ \E c \in Clients, asDefault \in BOOLEAN : SelectAccount(c, asDefault)
  \/ Cancel
  \/ \E given \in BOOLEAN : EnterPassword(given)
  \/ EnterName
  \/ GameEnds

Request ==
  \/ \E a \in Answers : ServerAnswers(a)
  \/ AuthSucceeds \/ AuthFailsHard \/ Garbled
  \/ NetworkFails \/ PlayOffline
  \/ Progress \/ TimePasses \/ Timeout

Next ==
  \/ AccountPage \/ Launching \/ Request
  \/ \E c \in Clients : Revoke(c)
  \/ Restart \/ TornSave

Spec == Init /\ [][Next]_vars

\* Time passes, and the event loop delivers the signal of a timer that has run out.
FairSpec == Spec /\ WF_vars(TimePasses) /\ WF_vars(Timeout)

-----------------------------------------------------------------------------
(* A session that is playable online has the last token the server issued to its
   account, the account has it too, and the server has answered in this very login:
   neither a kept token nor a late answer makes a session online. *)
OnlineIsAccepted ==
  launch.stage = "game" /\ launch.status = "online" =>
    /\ launch.online /\ launch.answered
    /\ launch.token # 0
    /\ launch.token = account[launch.acc].token
    /\ valid[launch.acc] \in {0, launch.token}

(* An account with a token has a current profile in its list of profiles.
   RefreshTask::processResponse reads through the pointer to it unchecked. *)
VerifiedHasProfile ==
  \A c \in (Listed \cup {active, launch.acc}) \ {0} :
    account[c].token # 0 => account[c].current \in 1..account[c].profiles

(* An account of the list loses its token only by an answer to its own request that the
   program understands as JSON, or that is empty: a request that is aborted, times out or
   fails on the network, and an answer that nobody can read, leave it logged in. An answer
   that is not what the flow expects ("odd") logs out like a refusal. A restart logs out
   only if the last save failed: it finds the account as an earlier save has left it. *)
NoLogoutUnasked ==
  [][\A c \in Listed \cap Range(accounts') :
       account[c].token # 0 /\ account'[c].token = 0 =>
         \/ login.acc = c /\ login.answer \in Refusals \cup {"odd"}
         \/ unsaved /\ Restart]_vars

(* After a restart with the file whole, and the last save not failed, every account that
   was logged in is listed with the token and the profile it had, and the active account
   is the one it was if it was listed and no other account has its name: whatever the
   server answered last is in the file, and a save makes up for those that failed before. *)
RestartKeepsAccounts ==
  [][Restart /\ disk.whole /\ ~unsaved =>
       /\ \A c \in Listed : account[c].token # 0 =>
            c \in Range(accounts') /\ account'[c] = account[c]
       /\ active \in Listed /\ account[active].token # 0
            /\ (\A c \in Listed : account[c].name = account[active].name => c = active)
          => active' = active]_vars

(* Every request ends, whether the server answers or not, and however its progress
   signals fall against the timer that they start again: no login dialog and no launch
   waits for ever. *)
LoginEnds == (login # NoLogin) ~> (login = NoLogin)

===============================================================================
