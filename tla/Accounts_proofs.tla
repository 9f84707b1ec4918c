---------------------------- MODULE Accounts_proofs ----------------------------
(***************************************************************************)
(* Proofs about the accounts: an online session was accepted, whoever has  *)
(* a token has a profile, nobody is logged out unasked, and a restart      *)
(* loses no login.  For any names, number of accounts and tokens.          *)
(***************************************************************************)
EXTENDS Accounts, FiniteSetTheorems, NaturalsInduction, WellFoundedInduction, TLAPS

-----------------------------------------------------------------------------
(* The elements of a sequence at given places *)

\* Nth lists the numbers of a finite set, each once and in order.
LEMMA NthIs ==
  ASSUME NEW P \in SUBSET Nat, IsFiniteSet(P)
  PROVE  /\ Cardinality(P) \in Nat
         /\ \A h \in 1..Cardinality(P) : Nth(P, h) \in P
         /\ \A h, l \in 1..Cardinality(P) : h < l => Nth(P, h) < Nth(P, l)
         /\ \A i \in P : \E h \in 1..Cardinality(P) : Nth(P, h) = i
<1> DEFINE n == Cardinality(P)
           Upto(i) == {j \in P : j <= i}
           place == [i \in P |-> Cardinality(Upto(i))]
<1>1. n \in Nat /\ IsFiniteSet(1..n) /\ Cardinality(1..n) = n
  BY FS_CardinalityType, FS_Interval
<1>2. ASSUME NEW i \in P
      PROVE  IsFiniteSet(Upto(i)) /\ Cardinality(Upto(i)) \in 1..n
  <2>1. Upto(i) \in SUBSET P /\ i \in Upto(i)
    OBVIOUS
  <2> HIDE DEF Upto
  <2>2. IsFiniteSet(Upto(i)) /\ Cardinality(Upto(i)) <= n
    BY <2>1, FS_Subset
  <2>3. Cardinality(Upto(i)) \in Nat /\ Cardinality(Upto(i)) # 0
    BY <2>1, <2>2, FS_CardinalityType, FS_EmptySet
  <2> QED BY <1>1, <2>2, <2>3
<1>3. ASSUME NEW i \in P, NEW j \in P, i < j
      PROVE  Cardinality(Upto(i)) < Cardinality(Upto(j))
  <2>0. \A h \in P : h \in Nat
    OBVIOUS
  <2>1. Upto(i) \in SUBSET Upto(j) /\ j \in Upto(j) /\ j \notin Upto(i)
    <3>1. i \in Nat /\ j \in Nat /\ \A h \in P : h <= i => h <= j
      BY <1>3, <2>0
    <3>2. \A h \in P : h \in Upto(i) <=> h <= i
      OBVIOUS
    <3>3. \A h \in P : h \in Upto(j) <=> h <= j
      OBVIOUS
    <3>4. Upto(i) \subseteq P
      OBVIOUS
    <3>5. j <= j /\ ~(j <= i)
      BY <1>3, <3>1
    <3> HIDE DEF Upto
    <3> QED BY <3>1, <3>2, <3>3, <3>4, <3>5
  <2> HIDE DEF Upto
  <2>2. IsFiniteSet(Upto(j)) /\ Cardinality(Upto(j)) \in 1..n /\ Cardinality(Upto(i)) \in 1..n
    BY <1>2
  <2>3. Cardinality(Upto(i)) <= Cardinality(Upto(j)) /\ Cardinality(Upto(i)) # Cardinality(Upto(j))
    BY <2>1, <2>2, FS_Subset
  <2> QED BY <1>1, <2>2, <2>3
<1>4. \A h \in 1..n : Nth(P, h) = CHOOSE i \in P : Cardinality(Upto(i)) = h
  BY DEF Nth
<1> HIDE DEF Upto
<1>5. place \in [P -> 1..n] /\ \A i \in P : place[i] = Cardinality(Upto(i))
  BY <1>2
<1> HIDE DEF place
<1>6. \A i, j \in P : place[i] = place[j] => i = j
  BY <1>1, <1>3, <1>5
<1>7. place \in Surjection(P, 1..n)
  <2>1. place \in Injection(P, 1..n)
    BY <1>5, <1>6 DEF Injection, IsInjective
  <2> QED BY <1>1, <2>1, FS_Injection
<1> HIDE DEF n
<1>8. ASSUME NEW h \in 1..n
      PROVE  Nth(P, h) \in P /\ place[Nth(P, h)] = h
  <2>1. \E i \in P : Cardinality(Upto(i)) = h
    BY <1>5, <1>7 DEF Surjection
  <2>2. Nth(P, h) \in P /\ Cardinality(Upto(Nth(P, h))) = h
    BY <1>4, <2>1
  <2> QED BY <1>5, <2>2
<1>9. ASSUME NEW h \in 1..n, NEW l \in 1..n, h < l
      PROVE  Nth(P, h) < Nth(P, l)
  <2>1. Nth(P, h) \in P /\ Nth(P, l) \in P /\ place[Nth(P, h)] = h /\ place[Nth(P, l)] = l
    BY <1>8
  <2>2. Nth(P, l) < Nth(P, h) => l < h
    BY <1>3, <1>5, <2>1
  <2>3. \A i \in P : i \in Nat
    OBVIOUS
  <2>4. Nth(P, l) # Nth(P, h)
    BY <1>9, <2>1
  <2>5. Nth(P, h) \in Nat /\ Nth(P, l) \in Nat
    BY <2>1, <2>3
  <2>6. ~(l < h)
    BY <1>1, <1>9
  <2> QED BY <2>2, <2>4, <2>5, <2>6
<1>10. ASSUME NEW i \in P
       PROVE  place[i] \in 1..n /\ Nth(P, place[i]) = i
  <2>1. place[i] \in 1..n
    BY <1>5
  <2>2. Nth(P, place[i]) \in P /\ place[Nth(P, place[i])] = place[i]
    BY <1>8, <2>1
  <2> QED BY <1>6, <2>1, <2>2
<1> QED BY <1>1, <1>8, <1>9, <1>10 DEF n

\* e lists the positions of P in order, and t has the elements of s there.
Picks(e, t, s, P) ==
  /\ e \in [1..Len(t) -> P]
  /\ \A h, l \in 1..Len(t) : h < l => e[h] < e[l]
  /\ \A i \in P : \E h \in 1..Len(t) : e[h] = i
  /\ \A h \in 1..Len(t) : t[h] = s[e[h]]

\* What the selection is: a sequence of the selected elements, in their order.
LEMMA Selected ==
  ASSUME NEW X, NEW s \in Seq(X), NEW P \in SUBSET (1..Len(s))
  PROVE  /\ Select(s, P) \in Seq(X)
         /\ \E e : Picks(e, Select(s, P), s, P)
<1> DEFINE n == Cardinality(P)
           e == [h \in 1..n |-> Nth(P, h)]
<1>1. IsFiniteSet(P) /\ P \in SUBSET Nat
  <2>1. Len(s) \in Int /\ 1 \in Int
    OBVIOUS
  <2>2. IsFiniteSet(1..Len(s)) /\ P \in SUBSET Nat
    BY <2>1, FS_Interval
  <2> QED BY <2>2, FS_Subset
<1>2. /\ n \in Nat
      /\ \A h \in 1..n : Nth(P, h) \in P
      /\ \A h, l \in 1..n : h < l => Nth(P, h) < Nth(P, l)
      /\ \A i \in P : \E h \in 1..n : Nth(P, h) = i
  BY <1>1, NthIs
<1>3. Select(s, P) = [h \in 1..n |-> s[Nth(P, h)]]
  BY DEF Select
<1> HIDE DEF n
<1>4. \A h \in 1..n : Nth(P, h) \in P /\ s[Nth(P, h)] \in X
  <2>1. \A i \in P : s[i] \in X
    OBVIOUS
  <2> QED BY <1>2, <2>1
<1>5. Select(s, P) \in Seq(X) /\ Len(Select(s, P)) = n
  BY <1>2, <1>3, <1>4
<1>6. Picks(e, Select(s, P), s, P)
  BY <1>2, <1>3, <1>4, <1>5 DEF Picks
<1> QED BY <1>5, <1>6

-----------------------------------------------------------------------------
(* The least number of a set *)

\* A set of numbers has a least one: how a property of all numbers is shown
\* when the number is a length.
LEMMA HasLeast ==
  ASSUME NEW S \in SUBSET Nat, S # {}
  PROVE  \E j \in S : \A h \in S : j <= h
<1>1. IsWellFoundedOn(OpToRel(<, Nat), Nat)
  BY NatLessThanWellFounded
<1>2. PICK j \in S : \A h \in S : ~(<<h, j>> \in OpToRel(<, Nat))
  BY <1>1, WFMin
<1>3. \A h \in S : ~(h < j)
  BY <1>2 DEF OpToRel
<1> QED BY <1>3

-----------------------------------------------------------------------------
(* The inductive invariant *)

Logins == [acc : Pointer, by : {"none", "launch", "dialog"}, kind : {"none", "refresh", "auth"},
           answer : Answers \cup {"none"}, token : Tokens,
           timer : {"off", "running", "expired"}, signals : 0..MaxSignals]

Launches == [stage : {"none", "manager", "select", "login", "password", "name", "game"},
             acc : Pointer, online : BOOLEAN, status : {"none", "password", "offline", "online"},
             token : Tokens, answered : BOOLEAN]

Typed ==
  /\ account \in [Clients -> Account] /\ accounts \in Seq(Clients) /\ active \in Pointer
  /\ login \in Logins /\ launch \in Launches /\ dialog \in BOOLEAN
  /\ valid \in [Clients -> Tokens] /\ issued \in Tokens
  /\ unsaved \in BOOLEAN /\ faults \in 0..MaxFaults

\* A token comes with a profile.
HasProfile(r) == r.token # 0 => r.current \in 1..r.profiles

\* No account is twice in the list l.
Distinct(l) == \A i, j \in DOMAIN l : l[i] = l[j] => i = j

\* The request lg of the dialog ds: its account is not known to anybody else.
ByDialog(lg, ds, known) ==
  lg.by = "dialog" /\ lg.kind = "auth" /\ ds /\ lg.acc \in Clients /\ lg.acc \notin known

\* The request lg of the launch la: only an account with a token is refreshed.
ByLaunch(lg, la, h) ==
  /\ lg.by = "launch" /\ la.stage = "login" /\ lg.acc \in Clients /\ lg.acc = la.acc
  /\ lg.kind = "auth" \/ (lg.kind = "refresh" /\ h[lg.acc].token # 0)

LoginSound ==
  /\ \/ login = NoLogin
     \/ ByDialog(login, dialog, Listed \cup {active, launch.acc})
     \/ ByLaunch(login, launch, account)
  /\ login.answer \in Good => login.token # 0 /\ valid[login.acc] \in {0, login.token}

LaunchSound ==
  /\ dialog => launch.stage \in {"none", "manager"}
  /\ launch.stage \notin {"none", "manager", "select"} => launch.acc # 0

\* What is in the file d can be loaded, and no account is in it twice.
Loadable(d) ==
  /\ d.whole \in BOOLEAN /\ d.active \in Names \cup {NoName} /\ d.accounts \in Seq(Saved)
  /\ d.whole \/ d.accounts = <<>>
  /\ \A i, j \in DOMAIN d.accounts : d.accounts[i].client = d.accounts[j].client => i = j
  /\ \A i \in DOMAIN d.accounts :
       d.accounts[i].current <= d.accounts[i].profiles /\ HasProfile(d.accounts[i])

\* The file d says of the accounts of the list l what they are; those it has besides
\* will not be loaded.
Faithful(h, l, d) ==
  \A i \in DOMAIN d.accounts :
    \/ d.accounts[i].client \in Range(l) /\ d.accounts[i] = ToSaved(h, d.accounts[i].client)
    \/ d.accounts[i].client \notin Range(l) /\ d.accounts[i].profiles = 0

\* A whole file has every account of the list, and names the active one.
Complete(h, l, a, d) ==
  d.whole =>
    /\ \A c \in Range(l) : \E i \in DOMAIN d.accounts : d.accounts[i].client = c
    /\ a \in Range(l) => d.active = h[a].name

\* Unless the last save has failed (u), the file says what the list says.
FileSound(h, l, a, d, u) == Loadable(d) /\ (u \/ (Faithful(h, l, d) /\ Complete(h, l, a, d)))

IInv ==
  /\ Typed /\ Distinct(accounts) /\ LoginSound /\ LaunchSound
  /\ FileSound(account, accounts, active, disk, unsaved)
  /\ OnlineIsAccepted /\ VerifiedHasProfile

-----------------------------------------------------------------------------
(* Lemmas about the list and the file *)

LEMMA TokensAreNumbers == Tokens \subseteq Nat /\ 0 \in Tokens /\ 0 \notin Clients
  BY AccountsAssumption DEF Tokens

\* The snapshot of a list whose accounts have profiles.
LEMMA SnapshotSound ==
  ASSUME NEW h \in [Clients -> Account], NEW l \in Seq(Clients), Distinct(l),
         NEW a \in Pointer, \A c \in Range(l) : HasProfile(h[c])
  PROVE  FileSound(h, l, a, Snapshot(h, l, a), FALSE)
<1> DEFINE d == Snapshot(h, l, a)
<1>1. /\ d.whole = TRUE /\ d.active = (IF a = 0 THEN NoName ELSE h[a].name)
      /\ d.accounts = [i \in DOMAIN l |-> ToSaved(h, l[i])]
  BY DEF Snapshot
<1>2. ASSUME NEW c \in Clients
      PROVE  /\ ToSaved(h, c) \in Saved /\ ToSaved(h, c).client = c
             /\ ToSaved(h, c).current <= ToSaved(h, c).profiles
             /\ HasProfile(h[c]) => HasProfile(ToSaved(h, c))
  <2> DEFINE r == h[c]
             k == IF r.current <= r.profiles THEN r.current ELSE 0
  <2>1. r \in Account
    OBVIOUS
  <2>2. r.name \in Names \cup {NoName} /\ r.token \in Tokens /\ r.profiles \in 0..1 /\ r.current \in 0..1
    BY <2>1 DEF Account
  <2>3. k \in 0..1 /\ k <= r.profiles /\ (r.current \in 1..r.profiles => k = r.current)
    BY <2>2
  <2>4. ToSaved(h, c) = [client |-> c, name |-> r.name, token |-> r.token, profiles |-> r.profiles,
                         current |-> k]
    BY DEF ToSaved
  <2> HIDE DEF r, k
  <2>5. ToSaved(h, c) \in Saved
    BY <2>2, <2>3, <2>4 DEF Saved
  <2>6. HasProfile(r) => HasProfile(ToSaved(h, c))
    BY <2>3, <2>4 DEF HasProfile
  <2>7. ToSaved(h, c).client = c /\ ToSaved(h, c).current <= ToSaved(h, c).profiles
    BY <2>3, <2>4
  <2> QED BY <2>5, <2>6, <2>7 DEF r
<1> HIDE DEF d
<1>3. DOMAIN d.accounts = DOMAIN l /\ DOMAIN l = 1..Len(l)
      /\ \A i \in DOMAIN l : l[i] \in Clients /\ l[i] \in Range(l) /\ d.accounts[i] = ToSaved(h, l[i])
  BY <1>1 DEF Range
<1>4. Loadable(d)
  <2>1. d.accounts \in Seq(Saved)
    <3>1. \A i \in DOMAIN l : ToSaved(h, l[i]) \in Saved
      BY <1>2, <1>3
    <3> QED BY <1>1, <1>3, <3>1
  <2>2. d.active \in Names \cup {NoName}
    <3>1. CASE a = 0
      BY <1>1, <3>1
    <3>2. CASE a # 0
      <4>1. h[a] \in Account
        BY <3>2 DEF Pointer
      <4> QED BY <1>1, <3>2, <4>1 DEF Account
    <3> QED BY <3>1, <3>2
  <2>3. \A i, j \in DOMAIN l : d.accounts[i].client = d.accounts[j].client => i = j
    BY <1>2, <1>3 DEF Distinct
  <2>4. \A i \in DOMAIN l : d.accounts[i].current <= d.accounts[i].profiles /\ HasProfile(d.accounts[i])
    BY <1>2, <1>3
  <2> QED BY <1>1, <1>3, <2>1, <2>2, <2>3, <2>4 DEF Loadable
<1>5. Faithful(h, l, d)
  BY <1>2, <1>3 DEF Faithful
<1>6. Complete(h, l, a, d)
  <2>1. \A c \in Range(l) : \E i \in DOMAIN d.accounts : d.accounts[i].client = c
    BY <1>2, <1>3 DEF Range
  <2>2. a \in Range(l) => d.active = h[a].name
    <3>1. a \in Range(l) => a # 0
      BY <1>3, TokensAreNumbers DEF Range
    <3> QED BY <1>1, <3>1
  <2> QED BY <2>1, <2>2 DEF Complete
<1> QED BY <1>4, <1>5, <1>6 DEF FileSound, d

LEMMA TornLoads == Loadable(Torn) /\ Torn.whole = FALSE /\ Torn.accounts = <<>> /\ DOMAIN Torn.accounts = {}
<1>1. Torn.whole = FALSE /\ Torn.accounts = <<>> /\ Torn.active = NoName
  BY DEF Torn
<1>2. Torn.accounts \in Seq(Saved) /\ DOMAIN Torn.accounts = {}
  BY <1>1
<1> QED BY <1>1, <1>2 DEF Loadable

\* A save writes the snapshot, or leaves a file that can still be loaded.
LEMMA SaveSound ==
  ASSUME IInv, NEW ACTION h, h \in [Clients -> Account], NEW ACTION l, l \in Seq(Clients), Distinct(l),
         NEW ACTION a, a \in Pointer, \A c \in Range(l) : HasProfile(h[c]), Save(h, l, a)
  PROVE  FileSound(h, l, a, disk', unsaved') /\ unsaved' \in BOOLEAN /\ faults' \in 0..MaxFaults
<1>1. faults \in 0..MaxFaults /\ MaxFaults \in Nat /\ Loadable(disk)
  BY AccountsAssumption DEF IInv, Typed, FileSound
<1>2. CASE disk' = Snapshot(h, l, a) /\ unsaved' = FALSE /\ UNCHANGED faults
  <2>1. FileSound(h, l, a, Snapshot(h, l, a), FALSE)
    BY SnapshotSound
  <2> QED BY <1>1, <1>2, <2>1
<1>3. CASE faults < MaxFaults /\ faults' = faults + 1 /\ disk' \in {disk, Torn} /\ unsaved' = TRUE
  <2>1. Loadable(disk') /\ faults' \in 0..MaxFaults
    BY <1>1, <1>3, TornLoads
  <2> QED BY <1>3, <2>1 DEF FileSound
<1> QED BY <1>2, <1>3 DEF Save

\* A set of places in a list has a greatest one.
LEMMA HasGreatest ==
  ASSUME NEW n \in Nat, NEW S \in SUBSET (1..n), S # {}
  PROVE  \E i \in S : \A j \in S : j <= i
<1> DEFINE T == {k \in 0..n : n - k \in S}
<1>1. T \in SUBSET Nat
  OBVIOUS
<1>2. T # {}
  <2>1. PICK i \in S : TRUE
    OBVIOUS
  <2>2. n - i \in 0..n /\ n - (n - i) = i
    BY <2>1
  <2> QED BY <2>1, <2>2
<1>3. PICK k \in T : \A m \in T : k <= m
  <2> HIDE DEF T
  <2> QED BY <1>1, <1>2, HasLeast
<1>4. n - k \in S /\ k \in 0..n
  BY <1>3
<1>5. \A j \in S : j <= n - k
  <2> TAKE j \in S
  <2>1. n - j \in 0..n /\ n - (n - j) = j
    OBVIOUS
  <2>2. k <= n - j
    BY <1>3, <2>1
  <2> QED BY <1>4, <2>1, <2>2
<1> QED BY <1>4, <1>5

LEMMA FindAccountIs ==
  ASSUME NEW l \in Seq(Clients), NEW h, NEW n
  PROVE  \/ FindAccount(l, h, n) = 0 /\ \A i \in DOMAIN l : h[l[i]].name # n
         \/ \E i \in DOMAIN l : FindAccount(l, h, n) = l[i] /\ h[l[i]].name = n
<1> DEFINE Of == {i \in DOMAIN l : h[l[i]].name = n}
           f == CHOOSE i \in Of : \A j \in Of : i <= j
<1>1. FindAccount(l, h, n) = IF Of = {} THEN 0 ELSE l[f]
  BY DEF FindAccount
<1>2. CASE Of = {}
  BY <1>1, <1>2
<1>3. CASE Of # {}
  <2>1. \E i \in Of : \A j \in Of : i <= j
    <3>1. Of \in SUBSET Nat
      OBVIOUS
    <3> HIDE DEF Of
    <3> QED BY <1>3, <3>1, HasLeast
  <2>2. f \in Of
    <3> HIDE DEF Of
    <3> QED BY <2>1
  <2> HIDE DEF f
  <2> QED BY <1>1, <1>3, <2>2
<1> QED BY <1>2, <1>3

LEMMA LastNamedIs ==
  ASSUME accounts \in Seq(Clients), NEW n
  PROVE  LastNamed(n) \in Listed \cup {active}
<1> DEFINE Of == {i \in DOMAIN accounts : account[accounts[i]].name = n}
           f == CHOOSE i \in Of : \A j \in Of : j <= i
<1>1. LastNamed(n) = IF Of = {} THEN active ELSE accounts[f]
  BY DEF LastNamed
<1>2. CASE Of = {}
  BY <1>1, <1>2
<1>3. CASE Of # {}
  <2>1. \E i \in Of : \A j \in Of : j <= i
    <3>1. Of \in SUBSET (1..Len(accounts)) /\ Len(accounts) \in Nat
      OBVIOUS
    <3> HIDE DEF Of
    <3> QED BY <1>3, <3>1, HasGreatest
  <2>2. f \in Of
    <3> HIDE DEF Of
    <3> QED BY <2>1
  <2> HIDE DEF f
  <2> QED BY <1>1, <1>3, <2>2 DEF Listed, Range
<1> QED BY <1>2, <1>3

\* The request just made by doLaunch.
Asked(lg, la, h) == ByLaunch(lg, la, h) /\ lg.answer = "none"

-----------------------------------------------------------------------------
(* The account page and doLaunch *)

\* What is left to show for a step that changes no account.
LEMMA KeepsAccounts ==
  ASSUME IInv, UNCHANGED <<account, server>>,
         accounts' \in Seq(Clients), Distinct(accounts'), Range(accounts') \subseteq Listed,
         active' \in Listed \cup {active, 0},
         FileSound(account, accounts', active', disk', unsaved'),
         unsaved' \in BOOLEAN, faults' \in 0..MaxFaults,
         launch' \in Launches, launch'.acc \in Listed \cup {active, launch.acc, 0},
         launch'.stage \notin {"none", "manager", "select"} => launch'.acc # 0,
         launch'.stage = "game" => launch'.status # "online" \/ launch' = launch,
         dialog' \in BOOLEAN, dialog' => launch'.stage \in {"none", "manager"},
         login' \in Logins, login' = NoLogin \/ Asked(login', launch', account)
  PROVE  IInv'
<1>1. Typed'
  <2>1. active' \in Pointer
    BY DEF IInv, Typed, Listed, Range, Pointer
  <2> QED BY <2>1 DEF IInv, Typed, server
<1>2. LoginSound'
  <2>1. login'.answer = "none"
    BY DEF Asked, NoLogin
  <2>2. login' = NoLogin \/ ByLaunch(login', launch', account')
    BY DEF Asked
  <2> QED BY <2>1, <2>2 DEF LoginSound, Good
<1>3. LaunchSound'
  BY DEF LaunchSound
<1>4. OnlineIsAccepted'
  BY DEF IInv, OnlineIsAccepted, server
<1>5. VerifiedHasProfile'
  <2>1. Listed' \cup {active', launch'.acc} \subseteq Listed \cup {active, launch.acc, 0}
    BY DEF Listed
  <2> QED BY <2>1 DEF IInv, VerifiedHasProfile
<1> QED BY <1>1, <1>2, <1>3, <1>4, <1>5 DEF IInv

\* While no dialog is open and no request of doLaunch runs there is no request.
LEMMA NoRequest ==
  ASSUME IInv, launch.stage # "login", ~dialog
  PROVE  login = NoLogin
BY DEF IInv, LoginSound, ByDialog, ByLaunch

LEMMA NoneTyped == NoLogin \in Logins /\ NoLaunch \in Launches /\ NoLaunch.acc = 0 /\ NoLaunch.stage = "none"
                   /\ NoLogin.answer = "none" /\ NoLogin.by = "none" /\ NoLogin.timer = "off"
  BY TokensAreNumbers, AccountsAssumption DEF NoLogin, NoLaunch, Logins, Launches, Pointer

LEMMA AskingTyped ==
  ASSUME NEW a \in Clients, NEW by \in {"launch", "dialog"}, NEW kind \in {"refresh", "auth"}
  PROVE  /\ Asking(a, by, kind) \in Logins /\ Asking(a, by, kind).acc = a
         /\ Asking(a, by, kind).by = by /\ Asking(a, by, kind).kind = kind
         /\ Asking(a, by, kind).answer = "none"
<1>1. Asking(a, by, kind) = [acc |-> a, by |-> by, kind |-> kind, answer |-> "none", token |-> 0,
                             timer |-> "running", signals |-> 0]
  <2> DEFINE r == NoLogin
  <2>1. DOMAIN r = {"acc", "by", "kind", "answer", "token", "timer", "signals"}
        /\ r.answer = "none" /\ r.token = 0 /\ r.signals = 0
    BY DEF NoLogin
  <2>2. Asking(a, by, kind) = [r EXCEPT !.acc = a, !.by = by, !.kind = kind, !.timer = "running"]
    BY DEF Asking
  <2> HIDE DEF r
  <2> QED BY <2>1, <2>2
<1>2. a \in Pointer /\ 0 \in Tokens /\ 0 \in 0..MaxSignals
  BY TokensAreNumbers, AccountsAssumption DEF Pointer
<1> QED BY <1>1, <1>2 DEF Logins

\* The account page saves what it has changed.
LEMMA PageSaves ==
  ASSUME IInv, NEW ACTION l, l \in Seq(Clients), Distinct(l), Range(l) \subseteq Listed,
         NEW ACTION a, a \in Pointer, Save(account, l, a)
  PROVE  FileSound(account, l, a, disk', unsaved') /\ unsaved' \in BOOLEAN /\ faults' \in 0..MaxFaults
<1>1. \A c \in Range(l) : HasProfile(account[c])
  <2>1. \A c \in Range(l) : c # 0
    BY TokensAreNumbers DEF Range
  <2> QED BY <2>1 DEF IInv, VerifiedHasProfile, HasProfile
<1> DEFINE h == account
<1>2. h \in [Clients -> Account] /\ \A c \in Range(l) : HasProfile(h[c])
  BY <1>1 DEF IInv, Typed
<1>3. Save(h, l, a)
  OBVIOUS
<1> HIDE DEF h
<1>4. FileSound(h, l, a, disk', unsaved') /\ unsaved' \in BOOLEAN /\ faults' \in 0..MaxFaults
  BY <1>2, <1>3, SaveSound
<1> QED BY <1>4 DEF h

LEMMA KeepsPage ==
  ASSUME IInv, PageIsOpen, UNCHANGED <<account, launch, server>>,
         accounts' \in Seq(Clients), Distinct(accounts'), Range(accounts') \subseteq Listed,
         active' \in Listed \cup {active, 0},
         Save(account, accounts', active') \/ UNCHANGED <<accounts, active, file>>,
         dialog' \in BOOLEAN, UNCHANGED login
  PROVE  IInv'
<1>1. launch.stage \in {"none", "manager"} /\ ~dialog /\ login = NoLogin
  BY NoRequest DEF PageIsOpen
<1>2. active' \in Pointer
  BY DEF IInv, Typed, Listed, Range, Pointer
<1>3. /\ FileSound(account, accounts', active', disk', unsaved')
      /\ unsaved' \in BOOLEAN /\ faults' \in 0..MaxFaults
  BY <1>2, PageSaves DEF IInv, Typed, file
<1>4. launch' \in Launches /\ login' \in Logins
  BY DEF IInv, Typed
<1> QED BY <1>1, <1>3, <1>4, KeepsAccounts

LEMMA KeepsRemoveAccount ==
  ASSUME IInv, NEW i \in DOMAIN accounts, RemoveAccount(i)
  PROVE  IInv'
<1> DEFINE a == SubSeq(accounts, 1, i - 1)
           b == SubSeq(accounts, i + 1, Len(accounts))
<1>1. /\ PageIsOpen /\ accounts' = a \o b
      /\ Save(account, accounts', active)
      /\ UNCHANGED <<account, active, login, dialog, launch, server>>
  BY DEF RemoveAccount, RemoveAt
<1>2. accounts \in Seq(Clients) /\ Distinct(accounts) /\ i \in 1..Len(accounts) /\ Len(accounts) \in Nat
  BY DEF IInv, Typed
<1>3. a \in Seq(Clients) /\ Len(a) = i - 1 /\ \A k \in 1..(i - 1) : a[k] = accounts[k]
  BY <1>2
<1>4. b \in Seq(Clients) /\ Len(b) = Len(accounts) - i /\ \A k \in 1..(Len(accounts) - i) : b[k] = accounts[k + i]
  BY <1>2
<1> HIDE DEF a, b
<1>5. /\ accounts' \in Seq(Clients) /\ DOMAIN accounts' = 1..(Len(accounts) - 1)
      /\ \A k \in 1..(Len(accounts) - 1) :
           accounts'[k] = IF k <= i - 1 THEN a[k] ELSE b[k - (i - 1)]
  <2>1. Len(a) + Len(b) = Len(accounts) - 1
    BY <1>2, <1>3, <1>4
  <2>2. /\ a \o b \in Seq(Clients) /\ DOMAIN (a \o b) = 1..(Len(a) + Len(b))
        /\ \A k \in 1..(Len(a) + Len(b)) : (a \o b)[k] = IF k <= Len(a) THEN a[k] ELSE b[k - Len(a)]
    <3>1. a \in Seq(Clients) /\ b \in Seq(Clients)
      BY <1>3, <1>4
    <3> QED BY <3>1
  <2> QED BY <1>1, <1>3, <2>1, <2>2
<1>6. ASSUME NEW k \in 1..(Len(accounts) - 1)
      PROVE  accounts'[k] = accounts[IF k < i THEN k ELSE k + 1]
  <2>1. CASE k < i
    <3>1. k <= i - 1 /\ k \in 1..(i - 1)
      BY <1>2, <2>1
    <3> QED BY <1>3, <1>5, <2>1, <3>1
  <2>2. CASE ~(k < i)
    <3>1. ~(k <= i - 1) /\ k - (i - 1) \in 1..(Len(accounts) - i) /\ k - (i - 1) + i = k + 1
      BY <1>2, <2>2
    <3>2. accounts'[k] = b[k - (i - 1)]
      BY <1>5, <3>1
    <3>3. b[k - (i - 1)] = accounts[k + 1]
      BY <1>4, <3>1
    <3> QED BY <2>2, <3>2, <3>3
  <2> QED BY <2>1, <2>2
<1>7. \A k \in 1..(Len(accounts) - 1) : (IF k < i THEN k ELSE k + 1) \in DOMAIN accounts
  BY <1>2
<1>8. Range(accounts') \subseteq Listed
  BY <1>5, <1>6, <1>7 DEF Range, Listed
<1>9. Distinct(accounts')
  <2>1. \A k, m \in 1..(Len(accounts) - 1) :
          (IF k < i THEN k ELSE k + 1) = (IF m < i THEN m ELSE m + 1) => k = m
    BY <1>2
  <2>2. ASSUME NEW k \in DOMAIN accounts', NEW m \in DOMAIN accounts', accounts'[k] = accounts'[m]
        PROVE  k = m
    <3>1. accounts[IF k < i THEN k ELSE k + 1] = accounts[IF m < i THEN m ELSE m + 1]
      BY <1>5, <1>6, <2>2
    <3>2. (IF k < i THEN k ELSE k + 1) = (IF m < i THEN m ELSE m + 1)
      BY <1>2, <1>5, <1>7, <3>1 DEF Distinct
    <3> QED BY <1>5, <2>1, <3>2
  <2> QED BY <2>2 DEF Distinct
<1>10. dialog' \in BOOLEAN /\ Save(account, accounts', active')
  BY <1>1 DEF IInv, Typed
<1> QED BY <1>1, <1>5, <1>8, <1>9, <1>10, KeepsPage

LEMMA KeepsAccountPage ==
  ASSUME IInv, \/ \E n \in Names : SetDefault(n)
               \/ NoDefault
               \/ OpenLoginDialog
  PROVE  IInv'
<1>1. /\ accounts \in Seq(Clients) /\ Distinct(accounts) /\ Range(accounts) \subseteq Listed
      /\ dialog \in BOOLEAN
  BY DEF IInv, Typed, Listed
<1>2. CASE \E n \in Names : SetDefault(n)
  <2>1. PICK n \in Names : SetDefault(n)
    BY <1>2
  <2>2. /\ PageIsOpen /\ active' = LastNamed(n) /\ Save(account, accounts, active')
        /\ UNCHANGED <<account, accounts, login, dialog, launch, server>>
    BY <2>1 DEF SetDefault, SetActive
  <2>3. active' \in Listed \cup {active, 0}
    BY <1>1, <2>2, LastNamedIs
  <2> QED BY <1>1, <2>2, <2>3, KeepsPage
<1>3. CASE NoDefault
  <2>1. /\ PageIsOpen /\ active' = 0 /\ Save(account, accounts, active')
        /\ UNCHANGED <<account, accounts, login, dialog, launch, server>>
    BY <1>3 DEF NoDefault, SetActive
  <2> QED BY <1>1, <2>1, KeepsPage
<1>4. CASE OpenLoginDialog
  <2>1. /\ PageIsOpen /\ dialog' = TRUE
        /\ UNCHANGED <<account, accounts, active, file, login, launch, server>>
    BY <1>4 DEF OpenLoginDialog
  <2> QED BY <1>1, <2>1, KeepsPage
<1> QED BY <1>2, <1>3, <1>4

LEMMA KeepsCloseLoginDialog == IInv /\ CloseLoginDialog => IInv'
<1> SUFFICES ASSUME IInv, CloseLoginDialog PROVE IInv'
  OBVIOUS
<1>1. /\ dialog /\ dialog' = FALSE /\ login' = NoLogin
      /\ UNCHANGED <<account, accounts, active, file, launch, server>>
  BY DEF CloseLoginDialog
<1>2. /\ accounts' \in Seq(Clients) /\ Distinct(accounts') /\ Range(accounts') \subseteq Listed
      /\ FileSound(account, accounts', active', disk', unsaved') /\ launch' \in Launches
      /\ unsaved' \in BOOLEAN /\ faults' \in 0..MaxFaults
      /\ launch'.stage \in {"none", "manager"}
  BY <1>1 DEF IInv, Typed, Listed, LaunchSound, file
<1> QED BY <1>1, <1>2, NoneTyped, KeepsAccounts

\* Steps of doLaunch that leave the list alone.
LEMMA KeepsLaunching ==
  ASSUME IInv, ~dialog, UNCHANGED <<account, accounts, active, file, dialog, server>>,
         launch' \in Launches, launch'.acc \in Listed \cup {active, launch.acc, 0},
         launch'.stage \notin {"none", "manager", "select"} => launch'.acc # 0,
         launch'.stage = "game" => launch'.status # "online",
         login' \in Logins, login' = NoLogin \/ Asked(login', launch', account)
  PROVE  IInv'
<1>1. /\ accounts' \in Seq(Clients) /\ Distinct(accounts') /\ Range(accounts') \subseteq Listed
      /\ FileSound(account, accounts', active', disk', unsaved') /\ dialog' \in BOOLEAN /\ ~dialog'
      /\ unsaved' \in BOOLEAN /\ faults' \in 0..MaxFaults
  BY DEF IInv, Typed, Listed, file
<1> QED BY <1>1, KeepsAccounts

\* login(): a request, or the dialog that asks for the password.
LEMMA LogInAsks ==
  ASSUME Typed, NEW ACTION l, l \in Launches, NEW ACTION a, a \in Clients, NEW ACTION w, w \in BOOLEAN,
         LogIn(l, a, w)
  PROVE  /\ launch' \in Launches /\ login' \in Logins /\ launch'.acc = a /\ a # 0
         /\ launch'.stage \in {"password", "login"}
         /\ login' = NoLogin \/ Asked(login', launch', account)
<1>1. a # 0 /\ a \in Pointer
  BY TokensAreNumbers DEF Pointer
<1>2. CASE account[a].token = 0 /\ ~w
  <2>1. launch' = [l EXCEPT !.stage = "password", !.acc = a, !.status = "password"] /\ login' = NoLogin
    BY <1>2 DEF LogIn
  <2>2. launch' \in Launches /\ launch'.acc = a /\ launch'.stage = "password"
    BY <1>1, <2>1 DEF Launches
  <2> QED BY <1>1, <2>1, <2>2, NoneTyped
<1>3. CASE ~(account[a].token = 0 /\ ~w)
  <2> DEFINE k == IF w THEN "auth" ELSE "refresh"
  <2>1. launch' = [l EXCEPT !.stage = "login", !.acc = a]
        /\ login' = Asking(a, "launch", k)
    BY <1>3 DEF LogIn
  <2>2. launch' \in Launches /\ launch'.acc = a /\ launch'.stage = "login"
    BY <1>1, <2>1 DEF Launches
  <2>3. k = "auth" \/ (k = "refresh" /\ account[a].token # 0)
    BY <1>3
  <2>4. k \in {"refresh", "auth"}
    OBVIOUS
  <2> HIDE DEF k
  <2>5. /\ login' \in Logins /\ login'.acc = a /\ login'.by = "launch" /\ login'.kind = k
        /\ login'.answer = "none"
    BY <2>1, <2>4, AskingTyped
  <2>7. Asked(login', launch', account)
    BY <2>2, <2>3, <2>5 DEF Asked, ByLaunch
  <2> QED BY <1>1, <2>2, <2>5, <2>7
<1> QED BY <1>2, <1>3

LEMMA KeepsLogIn ==
  ASSUME IInv, ~dialog, UNCHANGED <<account, accounts, active, file, dialog, server>>,
         NEW ACTION l, l \in Launches, NEW ACTION a, a \in Listed \cup {active, launch.acc}, a # 0,
         NEW ACTION w, w \in BOOLEAN, LogIn(l, a, w)
  PROVE  IInv'
<1>1. Typed /\ a \in Clients
  BY DEF IInv, Typed, Pointer, Listed, Range, Launches
<1>2. /\ launch' \in Launches /\ login' \in Logins /\ launch'.acc = a
      /\ launch'.stage \in {"password", "login"}
      /\ login' = NoLogin \/ Asked(login', launch', account)
  BY <1>1, LogInAsks
<1> QED BY <1>2, KeepsLaunching

LEMMA KeepsDoLaunch ==
  ASSUME IInv, NEW online \in BOOLEAN, DoLaunch(online)
  PROVE  IInv'
<1> DEFINE l == [NoLaunch EXCEPT !.online = online, !.acc = active]
<1>1. /\ launch.stage = "none" /\ ~dialog
      /\ UNCHANGED <<account, accounts, active, file, dialog, server>>
      /\ \/ /\ accounts = <<>>
            /\ \/ launch' = [l EXCEPT !.stage = "manager"] /\ UNCHANGED login
               \/ active # 0 /\ LogIn(l, active, FALSE)
         \/ /\ accounts # <<>> /\ active = 0
            /\ launch' = [l EXCEPT !.stage = "select"] /\ UNCHANGED login
         \/ accounts # <<>> /\ active # 0 /\ LogIn(l, active, FALSE)
  BY DEF DoLaunch
<1>2. login = NoLogin
  BY <1>1, NoRequest
<1>3. active \in Pointer
  BY DEF IInv, Typed
<1>4. l \in Launches /\ l.acc = active
  BY <1>3, NoneTyped DEF Launches, NoLaunch
<1> HIDE DEF l
<1>5. CASE active # 0 /\ LogIn(l, active, FALSE)
  BY <1>1, <1>4, <1>5, KeepsLogIn
<1>6. ASSUME NEW st \in {"manager", "select"}, launch' = [l EXCEPT !.stage = st], UNCHANGED login
      PROVE  IInv'
  <2>1. launch' \in Launches /\ launch'.acc = active /\ launch'.stage = st
    BY <1>4, <1>6 DEF Launches
  <2> QED BY <1>1, <1>2, <1>6, <2>1, NoneTyped, KeepsLaunching
<1> QED BY <1>1, <1>5, <1>6

LEMMA KeepsCloseManager == IInv /\ CloseManager => IInv'
<1> SUFFICES ASSUME IInv, CloseManager PROVE IInv'
  OBVIOUS
<1>1. /\ launch.stage = "manager" /\ ~dialog
      /\ UNCHANGED <<account, accounts, active, file, dialog, server>>
      /\ launch.acc = 0 => GiveUp
      /\ launch.acc # 0 => LogIn(launch, launch.acc, FALSE)
  BY DEF CloseManager
<1>2. launch \in Launches /\ login = NoLogin
  BY <1>1, NoRequest DEF IInv, Typed
<1>3. CASE launch.acc = 0
  <2>1. launch' = NoLaunch /\ login' = NoLogin
    BY <1>1, <1>2, <1>3 DEF GiveUp
  <2> QED BY <1>1, <2>1, NoneTyped, KeepsLaunching
<1>4. CASE launch.acc # 0
  BY <1>1, <1>2, <1>4, KeepsLogIn
<1> QED BY <1>3, <1>4

LEMMA KeepsSelectAccount ==
  ASSUME IInv, NEW c \in Clients, NEW asDefault \in BOOLEAN, SelectAccount(c, asDefault)
  PROVE  IInv'
<1>1. /\ launch.stage = "select" /\ c \in Listed /\ LogIn(launch, c, FALSE)
      /\ IF asDefault THEN SetActive(LastNamed(account[c].name)) ELSE UNCHANGED <<active, file>>
      /\ UNCHANGED <<account, accounts, dialog, server>>
  BY DEF SelectAccount
<1>2. Typed /\ launch \in Launches /\ accounts \in Seq(Clients) /\ ~dialog /\ Distinct(accounts)
  BY <1>1 DEF IInv, Typed, LaunchSound
<1>3. /\ launch' \in Launches /\ login' \in Logins /\ launch'.acc = c /\ c # 0
      /\ launch'.stage \in {"password", "login"}
      /\ login' = NoLogin \/ Asked(login', launch', account)
  BY <1>1, <1>2, LogInAsks
<1>4. /\ active' \in Listed \cup {active, 0} /\ FileSound(account, accounts', active', disk', unsaved')
      /\ unsaved' \in BOOLEAN /\ faults' \in 0..MaxFaults
  <2>1. CASE asDefault
    <3>1. active' = LastNamed(account[c].name) /\ Save(account, accounts, active')
      BY <1>1, <2>1 DEF SetActive
    <3>2. active' \in Listed \cup {active}
      BY <1>2, <3>1, LastNamedIs
    <3>3. active' \in Pointer /\ Range(accounts) \subseteq Listed
      BY <3>2 DEF IInv, Typed, Listed, Range, Pointer
    <3>4. /\ FileSound(account, accounts, active', disk', unsaved')
          /\ unsaved' \in BOOLEAN /\ faults' \in 0..MaxFaults
      BY <1>2, <3>1, <3>3, PageSaves
    <3> QED BY <1>1, <3>2, <3>4
  <2>2. CASE ~asDefault
    BY <1>1, <1>2, <2>2 DEF IInv, Typed, file
  <2> QED BY <2>1, <2>2
<1>5. /\ accounts' \in Seq(Clients) /\ Distinct(accounts') /\ Range(accounts') \subseteq Listed
      /\ FileSound(account, accounts', active', disk', unsaved') /\ dialog' \in BOOLEAN /\ ~dialog'
      /\ launch'.acc \in Listed \cup {active, launch.acc, 0} /\ launch'.stage # "game"
  BY <1>1, <1>2, <1>3, <1>4 DEF Typed, Listed
<1> QED BY <1>1, <1>3, <1>4, <1>5, KeepsAccounts

LEMMA KeepsDialogs ==
  ASSUME IInv, Cancel \/ (\E given \in BOOLEAN : EnterPassword(given)) \/ EnterName \/ GameEnds
  PROVE  IInv'
<1>0. launch \in Launches
  BY DEF IInv, Typed
<1>1. CASE Cancel
  <2>1. launch.stage \in {"select", "password", "name"} /\ ~dialog
        /\ UNCHANGED <<account, accounts, active, file, dialog, server>>
        /\ launch' = NoLaunch /\ UNCHANGED login
    BY <1>1 DEF Cancel, GiveUp, IInv, LaunchSound
  <2>2. login = NoLogin
    BY <2>1, NoRequest
  <2> QED BY <2>1, <2>2, NoneTyped, KeepsLaunching
<1>2. CASE \E given \in BOOLEAN : EnterPassword(given)
  <2>1. PICK given \in BOOLEAN : EnterPassword(given)
    BY <1>2
  <2>2. launch.stage = "password" /\ ~dialog /\ launch.acc # 0
        /\ UNCHANGED <<account, accounts, active, file, dialog, server>>
        /\ LogIn(launch, launch.acc, given)
    BY <2>1 DEF EnterPassword, IInv, LaunchSound
  <2> QED BY <1>0, <2>2, KeepsLogIn
<1>3. CASE EnterName
  <2>1. launch.stage = "name" /\ ~dialog /\ launch.acc # 0
        /\ UNCHANGED <<account, accounts, active, file, login, dialog, server>>
        /\ launch' = [launch EXCEPT !.stage = "game", !.status = "offline"]
    BY <1>3 DEF EnterName, IInv, LaunchSound
  <2>2. login = NoLogin
    BY <2>1, NoRequest
  <2>3. launch' \in Launches /\ launch'.acc = launch.acc /\ launch'.status = "offline"
    BY <1>0, <2>1 DEF Launches
  <2> QED BY <2>1, <2>2, <2>3, NoneTyped, KeepsLaunching
<1>4. CASE GameEnds
  <2>1. launch.stage = "game" /\ ~dialog
        /\ UNCHANGED <<account, accounts, active, file, login, dialog, server>>
        /\ launch' = NoLaunch
    BY <1>4 DEF GameEnds, IInv, LaunchSound
  <2>2. login = NoLogin
    BY <2>1, NoRequest
  <2> QED BY <2>1, <2>2, NoneTyped, KeepsLaunching
<1> QED BY <1>1, <1>2, <1>3, <1>4

-----------------------------------------------------------------------------
(* The request *)

\* A request has an account; that of doLaunch runs while no dialog is open.
LEMMA RequestIs ==
  ASSUME IInv, login # NoLogin
  PROVE  /\ login.acc \in Clients /\ login.by \in {"launch", "dialog"}
         /\ login.kind \in {"refresh", "auth"}
         /\ login.by = "launch" => ByLaunch(login, launch, account) /\ ~dialog
         /\ login.by = "dialog" => ByDialog(login, dialog, Listed \cup {active, launch.acc})
BY DEF IInv, LoginSound, LaunchSound, ByDialog, ByLaunch

\* What the session has become.
LEMMA SessionIs ==
  ASSUME IInv, login # NoLogin, NEW ACTION h, h \in [Clients -> Account],
         NEW ACTION st, st \in {"password", "offline", "online"}, NEW ACTION answered, answered \in BOOLEAN,
         SessionFilled(h, st, answered)
  PROVE  /\ launch' \in Launches /\ launch'.acc = launch.acc
         /\ login.by # "launch" => launch' = launch
         /\ login.by = "launch" =>
              /\ launch'.status = st /\ launch'.answered = answered /\ launch'.online = launch.online
              /\ launch'.token = h[launch.acc].token /\ launch.acc \in Clients /\ launch.acc # 0
              /\ launch'.stage \in {"password", "name", "game"}
              /\ launch'.stage = "game" => st = "online"
<1>1. launch \in Launches
  BY DEF IInv, Typed
<1>2. CASE login.by # "launch"
  BY <1>1, <1>2 DEF SessionFilled
<1>3. CASE login.by = "launch"
  <2> DEFINE t == h[launch.acc].token
             sg == StageOf(st)
  <2>1. launch' = [launch EXCEPT !.status = st, !.answered = answered, !.token = t, !.stage = sg]
    BY <1>3 DEF SessionFilled
  <2>2. launch.acc \in Clients /\ launch.acc # 0
    BY <1>3, RequestIs, TokensAreNumbers DEF ByLaunch
  <2>3. h[launch.acc] \in Account
    BY <2>2
  <2>4. t \in Tokens
    BY <2>3 DEF Account
  <2>5. sg \in {"password", "name", "game"} /\ (sg = "game" => st = "online")
    BY DEF StageOf
  <2> HIDE DEF t, sg
  <2>6. /\ launch'.status = st /\ launch'.answered = answered /\ launch'.token = t /\ launch'.stage = sg
        /\ launch'.acc = launch.acc /\ launch'.online = launch.online
    BY <1>1, <2>1 DEF Launches
  <2>7. launch' \in Launches
    BY <1>1, <2>1, <2>4, <2>5 DEF Launches
  <2> QED BY <1>3, <2>2, <2>5, <2>6, <2>7 DEF t
<1> QED BY <1>2, <1>3

LEMMA KeepsAuthFailsSoftly ==
  ASSUME IInv, login # NoLogin, AuthFailsSoftly
  PROVE  IInv'
<1> DEFINE st == Unanswered(account[login.acc].token # 0)
<1>1. /\ login' = NoLogin /\ SessionFilled(account, st, FALSE)
      /\ UNCHANGED <<account, accounts, active, file, dialog, server>>
  BY DEF AuthFailsSoftly
<1>2. st \in {"password", "offline"}
  BY DEF Unanswered
<1> HIDE DEF st
<1>3. /\ launch' \in Launches /\ launch'.acc = launch.acc
      /\ login.by # "launch" => launch' = launch
      /\ login.by = "launch" => launch'.stage # "game" /\ launch.acc # 0
  <2>1. account \in [Clients -> Account]
    BY DEF IInv, Typed
  <2> QED BY <1>1, <1>2, <2>1, SessionIs
<1>4. /\ accounts' \in Seq(Clients) /\ Distinct(accounts') /\ Range(accounts') \subseteq Listed
      /\ FileSound(account, accounts', active', disk', unsaved') /\ dialog' \in BOOLEAN
      /\ unsaved' \in BOOLEAN /\ faults' \in 0..MaxFaults
  BY <1>1 DEF IInv, Typed, Listed, file
<1>5. /\ dialog' => launch'.stage \in {"none", "manager"}
      /\ launch'.stage \notin {"none", "manager", "select"} => launch'.acc # 0
  BY <1>1, <1>3, RequestIs DEF IInv, LaunchSound
<1> QED BY <1>1, <1>3, <1>4, <1>5, NoneTyped, KeepsAccounts

LEMMA KeepsUnanswered ==
  ASSUME IInv, Garbled \/ NetworkFails \/ PlayOffline \/ Timeout
  PROVE  IInv'
<1>1. login # NoLogin /\ AuthFailsSoftly
  BY NoneTyped DEF Garbled, NetworkFails, PlayOffline, Timeout
<1> QED BY <1>1, KeepsAuthFailsSoftly

LEMMA KeepsServerAnswers ==
  ASSUME IInv, NEW a \in Answers, ServerAnswers(a)
  PROVE  IInv'
<1>1. /\ login # NoLogin /\ login.answer = "none" /\ MayAnswer(a)
      /\ UNCHANGED <<account, accounts, active, file, dialog, launch>>
  BY DEF ServerAnswers
<1>2. login \in Logins /\ issued \in Tokens /\ valid \in [Clients -> Tokens] /\ login.acc \in Clients
  BY <1>1, RequestIs DEF IInv, Typed
<1>3. /\ login' \in Logins /\ login'.acc = login.acc /\ login'.by = login.by /\ login'.kind = login.kind
      /\ issued' \in Tokens /\ valid' \in [Clients -> Tokens]
      /\ login'.answer \in Good => login'.token # 0 /\ valid'[login.acc] = login'.token
      /\ \A c \in Clients : c # login.acc => valid'[c] = valid[c]
  <2>1. CASE a \in Good
    <3>1. /\ issued' = issued + 1 /\ valid' = [valid EXCEPT ![login.acc] = issued']
          /\ login' = [login EXCEPT !.answer = a, !.token = issued'] /\ issued < MaxTokens
      BY <1>1, <2>1 DEF ServerAnswers, MayAnswer
    <3>2. issued' \in Tokens /\ issued' # 0
      BY <1>2, <3>1, AccountsAssumption DEF Tokens
    <3>3. valid' \in [Clients -> Tokens] /\ valid'[login.acc] = issued'
          /\ \A c \in Clients : c # login.acc => valid'[c] = valid[c]
      BY <1>2, <3>1, <3>2
    <3>4. login' \in Logins /\ login'.acc = login.acc /\ login'.by = login.by
          /\ login'.kind = login.kind /\ login'.token = issued'
      BY <1>2, <3>1, <3>2 DEF Logins
    <3> QED BY <3>2, <3>3, <3>4
  <2>2. CASE a \notin Good
    <3>1. login' = [login EXCEPT !.answer = a] /\ UNCHANGED server
      BY <2>2 DEF ServerAnswers
    <3>2. login' \in Logins /\ login'.acc = login.acc /\ login'.by = login.by
          /\ login'.kind = login.kind /\ login'.answer = a
      BY <1>2, <3>1 DEF Logins
    <3> QED BY <1>2, <2>2, <3>1, <3>2 DEF server
  <2> QED BY <2>1, <2>2
<1>4. launch.stage # "game"
  BY <1>1, RequestIs DEF ByLaunch, ByDialog, IInv, LaunchSound
<1>5. LoginSound'
  <2>1. \/ ByDialog(login', dialog, Listed \cup {active, launch.acc})
        \/ ByLaunch(login', launch, account)
    BY <1>1, <1>3, RequestIs DEF ByDialog, ByLaunch
  <2> QED BY <1>1, <1>3, <2>1 DEF LoginSound, Listed
<1>6. Typed' /\ LaunchSound' /\ VerifiedHasProfile'
  BY <1>1, <1>3 DEF IInv, Typed, LaunchSound, VerifiedHasProfile, Listed, file
<1>7. OnlineIsAccepted'
  BY <1>1, <1>4 DEF OnlineIsAccepted
<1> QED BY <1>1, <1>5, <1>6, <1>7 DEF IInv, file

LEMMA KeepsRevoke ==
  ASSUME IInv, NEW c \in Clients, Revoke(c)
  PROVE  IInv'
<1>1. /\ valid' = [valid EXCEPT ![c] = 0]
      /\ UNCHANGED <<account, accounts, active, file, login, dialog, launch, issued>>
  BY DEF Revoke
<1>2. valid' \in [Clients -> Tokens] /\ \A k \in Clients : valid'[k] \in {valid[k], 0}
  BY <1>1, TokensAreNumbers DEF IInv, Typed
<1>3. LoginSound'
  <2>1. login.answer \in Good => login.acc \in Clients
    <3>1. login.answer \in Good => login # NoLogin
      BY NoneTyped DEF Good
    <3> QED BY <3>1, RequestIs
  <2> QED BY <1>1, <1>2, <2>1 DEF IInv, LoginSound, Listed
<1>4. Typed' /\ LaunchSound' /\ VerifiedHasProfile'
  BY <1>1, <1>2 DEF IInv, Typed, LaunchSound, VerifiedHasProfile, Listed, file
<1>5. OnlineIsAccepted'
  <2>1. launch.stage = "game" => launch.acc \in Clients
    BY DEF IInv, Typed, LaunchSound, Launches, Pointer
  <2> QED BY <1>1, <1>2, <2>1 DEF IInv, OnlineIsAccepted
<1> QED BY <1>1, <1>3, <1>4, <1>5 DEF IInv, file

\* The timer of the request, and its progress signals.
LEMMA KeepsTimer ==
  ASSUME IInv, Progress \/ TimePasses
  PROVE  IInv'
<1>1. UNCHANGED <<account, accounts, active, file, dialog, launch, server>>
  BY DEF Progress, TimePasses
<1>2. login \in Logins /\ MaxSignals \in Nat
  BY AccountsAssumption DEF IInv, Typed
<1>3. /\ login # NoLogin /\ login' \in Logins /\ login'.acc = login.acc /\ login'.by = login.by
      /\ login'.kind = login.kind /\ login'.answer = login.answer /\ login'.token = login.token
  <2>1. CASE Progress
    <3>1. /\ login # NoLogin /\ login.signals < MaxSignals
          /\ login' = [login EXCEPT !.signals = @ + 1, !.timer = "running"]
      BY <2>1 DEF Progress
    <3> DEFINE k == login.signals + 1
    <3>2. k \in 0..MaxSignals
      BY <1>2, <3>1 DEF Logins
    <3>3. login' = [login EXCEPT !.signals = k, !.timer = "running"]
      BY <3>1
    <3> HIDE DEF k
    <3> QED BY <1>2, <3>1, <3>2, <3>3 DEF Logins
  <2>2. CASE TimePasses
    <3>1. login.timer = "running" /\ login' = [login EXCEPT !.timer = "expired"]
      BY <2>2 DEF TimePasses
    <3>2. login # NoLogin
      BY <3>1, NoneTyped
    <3> QED BY <1>2, <3>1, <3>2 DEF Logins
  <2> QED BY <2>1, <2>2
<1>4. LoginSound'
  <2>1. \/ ByDialog(login', dialog, Listed \cup {active, launch.acc})
        \/ ByLaunch(login', launch, account)
    BY <1>1, <1>3, RequestIs DEF ByDialog, ByLaunch
  <2> QED BY <1>1, <1>3, <2>1 DEF IInv, LoginSound, Listed, server
<1>5. Typed' /\ LaunchSound' /\ VerifiedHasProfile' /\ OnlineIsAccepted'
  BY <1>1, <1>3 DEF IInv, Typed, LaunchSound, VerifiedHasProfile, OnlineIsAccepted, Listed, file, server
<1> QED BY <1>1, <1>4, <1>5 DEF IInv, file

\* LoginDialog::accept: the new account is nowhere else.
LEMMA KeepsSubmitLoginDialog ==
  ASSUME IInv, NEW n \in Names, NEW c \in Clients, SubmitLoginDialog(n, c)
  PROVE  IInv'
<1> DEFINE r == [Unused EXCEPT !.name = n]
<1>1. /\ dialog /\ login = NoLogin /\ c \notin Listed \cup {active, launch.acc}
      /\ \A i \in DOMAIN disk.accounts : disk.accounts[i].client # c
      /\ account' = [account EXCEPT ![c] = r] /\ valid' = [valid EXCEPT ![c] = 0]
      /\ login' = Asking(c, "dialog", "auth")
      /\ UNCHANGED <<accounts, active, file, dialog, launch, issued>>
  BY DEF SubmitLoginDialog, Fresh
<1>2. Typed
  BY DEF IInv
<1>3. r \in Account
  BY TokensAreNumbers DEF Unused, Account
<1> HIDE DEF r
<1>4. account' \in [Clients -> Account] /\ \A k \in Clients : k # c => account'[k] = account[k]
  BY <1>1, <1>2, <1>3 DEF Typed
<1>5. valid' \in [Clients -> Tokens]
  BY <1>1, <1>2, TokensAreNumbers DEF Typed
<1>6. /\ login' \in Logins /\ login'.acc = c /\ login'.by = "dialog" /\ login'.kind = "auth"
      /\ login'.answer = "none"
  BY <1>1, AskingTyped
<1>8. Typed'
  <2>1. UNCHANGED <<accounts, active, unsaved, faults, dialog, launch, issued>>
    BY <1>1 DEF file
  <2> QED BY <1>2, <1>4, <1>5, <1>6, <2>1 DEF Typed
<1>9. LoginSound'
  <2>1. ByDialog(login', dialog, Listed \cup {active, launch.acc}) /\ login'.answer = "none"
    <3>1. login'.by = "dialog" /\ login'.kind = "auth" /\ login'.acc = c /\ login'.answer = "none"
      BY <1>6
    <3>2. dialog /\ c \notin Listed \cup {active, launch.acc}
      BY <1>1
    <3> QED BY <3>1, <3>2 DEF ByDialog
  <2>2. UNCHANGED <<accounts, active, dialog, launch>>
    BY <1>1
  <2> QED BY <2>1, <2>2 DEF LoginSound, Listed, Good
<1>10. LaunchSound' /\ Distinct(accounts')
  BY <1>1 DEF IInv, LaunchSound
<1>11. FileSound(account', accounts', active', disk', unsaved')
  <2>1. /\ Loadable(disk)
        /\ \/ unsaved
           \/ Faithful(account, accounts, disk) /\ Complete(account, accounts, active, disk)
    BY DEF IInv, FileSound
  <2>2. \A k \in Listed : account'[k] = account[k] /\ ToSaved(account', k) = ToSaved(account, k)
    <3>1. \A k \in Listed : k \in Clients /\ k # c
      BY <1>1, <1>2 DEF Typed, Listed, Range
    <3> QED BY <1>4, <3>1 DEF ToSaved
  <2>3. Faithful(account, accounts, disk) => Faithful(account', accounts, disk)
    BY <2>2 DEF Faithful, Listed
  <2>4. Complete(account, accounts, active, disk) => Complete(account', accounts, active, disk)
    BY <2>2 DEF Complete, Listed
  <2> QED BY <1>1, <2>1, <2>3, <2>4 DEF FileSound, file
<1>12. launch.stage # "game"
  BY <1>1 DEF IInv, LaunchSound
<1>13. OnlineIsAccepted'
  BY <1>1, <1>12 DEF OnlineIsAccepted
<1>14. VerifiedHasProfile'
  <2>1. \A k \in (Listed \cup {active, launch.acc}) \ {0} : k \in Clients /\ k # c
    BY <1>1, <1>2 DEF Typed, Listed, Range, Pointer, Launches
  <2> QED BY <1>1, <1>4, <2>1 DEF IInv, VerifiedHasProfile, Listed
<1> QED BY <1>8, <1>9, <1>10, <1>11, <1>13, <1>14 DEF IInv

\* What a good answer makes of an account.
LEMMA ProcessedIs ==
  ASSUME IInv, login # NoLogin, NEW r \in Account
  PROVE  /\ Processed(r) \in Account /\ Processed(r).name = r.name
         /\ login.answer \in Good => Processed(r).token = login.token
         /\ login.answer \notin Good => Processed(r).token = r.token
         /\ login.answer = "ok" /\ login.kind = "auth" => Processed(r).profiles = 1 /\ Processed(r).current = 1
         /\ login.answer = "ok" /\ login.kind = "refresh" =>
              Processed(r).profiles = r.profiles /\ Processed(r).current = r.current
<1> DEFINE authOk == login.answer = "ok" /\ login.kind = "auth"
           t == IF login.answer \in Good THEN login.token ELSE r.token
           p == IF authOk \/ login.answer = "unlisted" THEN 1
                ELSE IF login.answer = "profileless" THEN 0 ELSE r.profiles
           k == IF authOk THEN 1 ELSE r.current
<1>1. login.token \in Tokens
  BY DEF IInv, Typed, Logins
<1>2. r.token \in Tokens /\ r.profiles \in 0..1 /\ r.current \in 0..1 /\ r.name \in Names \cup {NoName}
  BY DEF Account
<1>3. t \in Tokens
  BY <1>1, <1>2
<1>4. p \in 0..1
  BY <1>2
<1>5. k \in 0..1
  BY <1>2
<1>6. Processed(r) = [r EXCEPT !.token = t, !.profiles = p, !.current = k]
  BY DEF Processed
<1>7. r = [name |-> r.name, token |-> r.token, profiles |-> r.profiles, current |-> r.current]
  BY DEF Account
<1>8. authOk => p = 1 /\ k = 1
  OBVIOUS
<1>9. login.answer = "ok" /\ login.kind = "refresh" => p = r.profiles /\ k = r.current
  OBVIOUS
<1>10. (login.answer \in Good => t = login.token) /\ (login.answer \notin Good => t = r.token)
  OBVIOUS
<1> HIDE DEF t, p, k
<1>11. Processed(r) = [name |-> r.name, token |-> t, profiles |-> p, current |-> k]
  BY <1>6, <1>7
<1>12. Processed(r) \in Account
  BY <1>2, <1>3, <1>4, <1>5, <1>11 DEF Account
<1> QED BY <1>8, <1>9, <1>10, <1>11, <1>12

\* The account of the list, or one that was in it, whose request is answered: the
\* list is saved.
LEMMA ChangedSound ==
  ASSUME IInv, login # NoLogin, NEW ACTION r, r \in Account, HasProfile(r),
         account' = [account EXCEPT ![login.acc] = r],
         UNCHANGED <<accounts, active>>, Changed(account')
  PROVE  /\ FileSound(account', accounts', active', disk', unsaved')
         /\ unsaved' \in BOOLEAN /\ faults' \in 0..MaxFaults
<1>1. Typed /\ login.acc \in Clients
  BY RequestIs DEF IInv
<1>2. /\ account' \in [Clients -> Account] /\ account'[login.acc] = r
      /\ \A k \in Clients : k # login.acc => account'[k] = account[k]
  BY <1>1 DEF Typed
<1>3. \A k \in Listed : k \in Clients /\ HasProfile(account[k])
  <2>1. \A k \in Listed : k \in Clients /\ k # 0
    BY <1>1, TokensAreNumbers DEF Typed, Listed, Range
  <2> QED BY <2>1 DEF IInv, VerifiedHasProfile, HasProfile
<1>4. CASE login.by = "launch"
  <2> DEFINE h == account'
  <2>1. Save(h, accounts, active)
    BY <1>4 DEF Changed
  <2>2. h \in [Clients -> Account] /\ \A k \in Range(accounts) : HasProfile(h[k])
    BY <1>2, <1>3 DEF Listed
  <2>3. Distinct(accounts) /\ active \in Pointer /\ accounts \in Seq(Clients)
    BY <1>1 DEF IInv, Typed
  <2> HIDE DEF h
  <2>4. /\ FileSound(h, accounts, active, disk', unsaved')
        /\ unsaved' \in BOOLEAN /\ faults' \in 0..MaxFaults
    BY <2>1, <2>2, <2>3, SaveSound
  <2> QED BY <2>4 DEF h
<1>5. CASE login.by = "dialog"
  <2>1. UNCHANGED file /\ login.acc \notin Listed
    BY <1>5, RequestIs DEF Changed, ByDialog
  <2>2. \A k \in Listed : account'[k] = account[k] /\ ToSaved(account', k) = ToSaved(account, k)
    BY <1>2, <1>3, <2>1 DEF ToSaved
  <2>3. /\ Loadable(disk)
        /\ \/ unsaved
           \/ Faithful(account, accounts, disk) /\ Complete(account, accounts, active, disk)
    BY DEF IInv, FileSound
  <2>4. Faithful(account, accounts, disk) => Faithful(account', accounts, disk)
    BY <2>2 DEF Faithful, Listed
  <2>5. Complete(account, accounts, active, disk) => Complete(account', accounts, active, disk)
    BY <2>2 DEF Complete, Listed
  <2> QED BY <1>1, <2>1, <2>3, <2>4, <2>5 DEF FileSound, Typed, file
<1> QED BY <1>4, <1>5, RequestIs

LEMMA KeepsAuthFailsHard == IInv /\ AuthFailsHard => IInv'
<1> SUFFICES ASSUME IInv, AuthFailsHard PROVE IInv'
  OBVIOUS
<1> DEFINE r == LoggedOut(Processed(account[login.acc]))
<1>1. /\ login.answer # "none" /\ account' = [account EXCEPT ![login.acc] = r]
      /\ login' = NoLogin /\ Changed(account') /\ SessionFilled(account', "password", TRUE)
      /\ UNCHANGED <<accounts, active, dialog, server>>
  BY DEF AuthFailsHard
<1>2. Typed /\ login # NoLogin /\ login.acc \in Clients
  BY <1>1, NoneTyped, RequestIs DEF IInv
<1>3. r \in Account /\ r.token = 0
  <2>1. account[login.acc] \in Account
    BY <1>2 DEF Typed
  <2>2. Processed(account[login.acc]) \in Account
    BY <1>2, <2>1, ProcessedIs
  <2> QED BY <2>2, TokensAreNumbers DEF LoggedOut, Account
<1> HIDE DEF r
<1>4. HasProfile(r)
  BY <1>3 DEF HasProfile
<1>5. /\ account' \in [Clients -> Account] /\ account'[login.acc] = r
      /\ \A k \in Clients : k # login.acc => account'[k] = account[k]
  BY <1>1, <1>2, <1>3 DEF Typed
<1>6. /\ FileSound(account', accounts', active', disk', unsaved')
      /\ unsaved' \in BOOLEAN /\ faults' \in 0..MaxFaults
  BY <1>1, <1>2, <1>3, <1>4, ChangedSound
<1>7. /\ launch' \in Launches /\ launch'.acc = launch.acc
      /\ login.by # "launch" => launch' = launch
      /\ login.by = "launch" => launch'.stage # "game" /\ launch.acc # 0
  BY <1>1, <1>2, <1>5, SessionIs
<1>8. Typed'
  <2>1. UNCHANGED <<accounts, active, dialog, valid, issued>> /\ login' \in Logins
    BY <1>1, NoneTyped DEF server
  <2> QED BY <1>2, <1>5, <1>6, <1>7, <2>1 DEF Typed
<1>9. LoginSound' /\ LaunchSound' /\ Distinct(accounts')
  BY <1>1, <1>2, <1>7, NoneTyped, RequestIs DEF IInv, LoginSound, LaunchSound, Good
<1>10. launch'.stage # "game"
  BY <1>2, <1>7, RequestIs DEF ByDialog, IInv, LaunchSound
<1>11. OnlineIsAccepted'
  BY <1>10 DEF OnlineIsAccepted
<1>12. VerifiedHasProfile'
  <2>1. \A k \in (Listed \cup {active, launch.acc}) \ {0} :
          k \in Clients /\ HasProfile(account[k])
    BY <1>2 DEF IInv, VerifiedHasProfile, HasProfile, Typed, Listed, Range, Pointer, Launches
  <2>2. \A k \in (Listed \cup {active, launch.acc}) \ {0} : HasProfile(account'[k])
    BY <1>4, <1>5, <2>1
  <2> QED BY <1>1, <1>7, <2>2 DEF VerifiedHasProfile, HasProfile, Listed
<1> QED BY <1>6, <1>8, <1>9, <1>11, <1>12 DEF IInv

LEMMA KeepsAuthSucceeds == IInv /\ AuthSucceeds => IInv'
<1> SUFFICES ASSUME IInv, AuthSucceeds PROVE IInv'
  OBVIOUS
<1> DEFINE r == Processed(account[login.acc])
           st == IF launch.online THEN "online" ELSE "offline"
<1>1. /\ login.answer = "ok" /\ account' = [account EXCEPT ![login.acc] = r]
      /\ login' = NoLogin /\ SessionFilled(account', st, TRUE)
      /\ login.by = "dialog" => AddAccount(account')
      /\ login.by # "dialog" => Changed(account') /\ UNCHANGED <<accounts, active, dialog>>
      /\ UNCHANGED server
  BY DEF AuthSucceeds
<1>2. Typed /\ login # NoLogin /\ login.acc \in Clients /\ login.acc # 0
  BY <1>1, NoneTyped, RequestIs, TokensAreNumbers DEF IInv
<1>3. r \in Account /\ r.token = login.token /\ HasProfile(r)
  <2>1. account[login.acc] \in Account
    BY <1>2 DEF Typed
  <2>2. r \in Account /\ r.token = login.token
    BY <1>1, <1>2, <2>1, ProcessedIs DEF Good
  <2>3. CASE login.kind = "auth"
    <3>1. r.profiles = 1 /\ r.current = 1
      BY <1>1, <1>2, <2>1, <2>3, ProcessedIs
    <3> HIDE DEF r
    <3> QED BY <2>2, <3>1 DEF HasProfile
  <2>4. CASE login.kind = "refresh"
    <3>1. r.profiles = account[login.acc].profiles /\ r.current = account[login.acc].current
      BY <1>1, <1>2, <2>1, <2>4, ProcessedIs
    <3>2. account[login.acc].token # 0 /\ login.acc = launch.acc
      BY <1>2, <2>4, RequestIs DEF ByLaunch, ByDialog
    <3>3. account[login.acc].current \in 1..account[login.acc].profiles
      BY <1>2, <3>2 DEF IInv, VerifiedHasProfile
    <3> HIDE DEF r
    <3> QED BY <2>2, <3>1, <3>3 DEF HasProfile
  <2> QED BY <1>2, <2>2, <2>3, <2>4, RequestIs
<1>4. st \in {"offline", "online"} /\ (st = "online" => launch.online)
  <2>1. launch.online \in BOOLEAN
    BY <1>2 DEF Typed, Launches
  <2> QED BY <2>1
<1> HIDE DEF r, st
<1>5. /\ account' \in [Clients -> Account] /\ account'[login.acc] = r
      /\ \A k \in Clients : k # login.acc => account'[k] = account[k]
  BY <1>1, <1>2, <1>3 DEF Typed
<1>6. /\ launch' \in Launches /\ launch'.acc = launch.acc
      /\ login.by # "launch" => launch' = launch
      /\ login.by = "launch" =>
           /\ launch'.status = st /\ launch'.answered = TRUE /\ launch'.online = launch.online
           /\ launch'.token = account'[launch.acc].token /\ launch.acc # 0
           /\ launch'.stage = "game" => st = "online"
  <2>1. SessionFilled(account', st, TRUE) /\ st \in {"password", "offline", "online"}
    BY <1>1, <1>4
  <2> QED BY <1>2, <1>5, <2>1, SessionIs
<1>7. \A k \in (Listed \cup {active, launch.acc}) \ {0} : k \in Clients /\ HasProfile(account'[k])
  <2>1. \A k \in (Listed \cup {active, launch.acc}) \ {0} :
          k \in Clients /\ HasProfile(account[k])
    BY <1>2 DEF IInv, VerifiedHasProfile, HasProfile, Typed, Listed, Range, Pointer, Launches
  <2> QED BY <1>3, <1>5, <2>1
<1>8. /\ accounts' \in Seq(Clients) /\ Distinct(accounts') /\ active' \in Pointer /\ dialog' \in BOOLEAN
      /\ Range(accounts') \cup {active'} \subseteq Listed \cup {active, login.acc}
      /\ FileSound(account', accounts', active', disk', unsaved')
      /\ unsaved' \in BOOLEAN /\ faults' \in 0..MaxFaults
      /\ dialog' => launch'.stage \in {"none", "manager"}
  <2>1. CASE login.by = "dialog"
    <3>1. ByDialog(login, dialog, Listed \cup {active, launch.acc})
      BY <1>2, <2>1, RequestIs
    <3>2. /\ accounts' = Append(accounts, login.acc)
          /\ active' \in {login.acc, active} /\ dialog' = FALSE
          /\ Save(account', accounts', active')
      BY <1>1, <2>1 DEF AddAccount
    <3>3. accounts \in Seq(Clients) /\ Distinct(accounts) /\ login.acc \notin Listed /\ Len(accounts) \in Nat
      BY <1>2, <3>1 DEF IInv, Typed, ByDialog
    <3>4. /\ accounts' \in Seq(Clients) /\ DOMAIN accounts' = 1..(Len(accounts) + 1)
          /\ accounts'[Len(accounts) + 1] = login.acc
          /\ \A i \in 1..Len(accounts) : accounts'[i] = accounts[i] /\ accounts[i] \in Listed
      BY <1>2, <3>2, <3>3 DEF Listed, Range
    <3>5. Distinct(accounts')
      <4>1. \A i \in 1..(Len(accounts) + 1) : i \in 1..Len(accounts) \/ i = Len(accounts) + 1
        BY <3>3
      <4>2. \A i \in 1..Len(accounts) : i \in DOMAIN accounts
        BY <3>3
      <4> QED BY <3>3, <3>4, <4>1, <4>2 DEF Distinct
    <3>6. Range(accounts') \subseteq Listed \cup {login.acc}
      <4>1. \A i \in 1..(Len(accounts) + 1) : i \in 1..Len(accounts) \/ i = Len(accounts) + 1
        BY <3>3
      <4> QED BY <3>4, <4>1 DEF Range
    <3>7. active' \in Pointer
      BY <1>2, <3>2 DEF Typed, Pointer
    <3>8. \A k \in Range(accounts') : HasProfile(account'[k])
      <4>1. \A k \in Listed : k # 0
        BY <1>2, TokensAreNumbers DEF Typed, Listed, Range
      <4> QED BY <1>3, <1>5, <1>7, <3>6, <4>1
    <3>9. /\ FileSound(account', accounts', active', disk', unsaved')
          /\ unsaved' \in BOOLEAN /\ faults' \in 0..MaxFaults
      <4> DEFINE h == account'
                 l == accounts'
                 a == active'
      <4>1. /\ h \in [Clients -> Account] /\ l \in Seq(Clients) /\ Distinct(l) /\ a \in Pointer
            /\ \A k \in Range(l) : HasProfile(h[k])
        BY <1>5, <3>4, <3>5, <3>7, <3>8
      <4>2. Save(h, l, a)
        BY <3>2
      <4> HIDE DEF h, l, a
      <4>3. /\ FileSound(h, l, a, disk', unsaved')
            /\ unsaved' \in BOOLEAN /\ faults' \in 0..MaxFaults
        BY <4>1, <4>2, SaveSound
      <4> QED BY <4>3 DEF h, l, a
    <3> QED BY <3>2, <3>4, <3>5, <3>6, <3>7, <3>9
  <2>2. CASE login.by = "launch"
    <3>1. UNCHANGED <<accounts, active, dialog>> /\ Changed(account') /\ ~dialog
      BY <1>1, <1>2, <2>2, RequestIs
    <3>2. /\ FileSound(account', accounts', active', disk', unsaved')
          /\ unsaved' \in BOOLEAN /\ faults' \in 0..MaxFaults
      BY <1>1, <1>2, <1>3, <3>1, ChangedSound
    <3> QED BY <1>2, <3>1, <3>2 DEF IInv, Typed, Listed
  <2> QED BY <1>2, <2>1, <2>2, RequestIs
<1>9. Typed'
  <2>1. UNCHANGED <<valid, issued>> /\ login' \in Logins
    BY <1>1, NoneTyped DEF server
  <2> QED BY <1>2, <1>5, <1>6, <1>8, <2>1 DEF Typed
<1>10. LoginSound'
  BY <1>1, NoneTyped DEF LoginSound, Good
<1>11. LaunchSound'
  BY <1>6, <1>8 DEF IInv, LaunchSound
<1>12. OnlineIsAccepted'
  <2>1. CASE login.by = "dialog"
    <3>1. launch' = launch /\ launch.stage # "game"
      BY <1>2, <1>6, <2>1, RequestIs DEF ByDialog, IInv, LaunchSound
    <3> QED BY <3>1 DEF OnlineIsAccepted
  <2>2. CASE login.by = "launch"
    <3>1. login.acc = launch.acc
      BY <1>2, <2>2, RequestIs DEF ByLaunch
    <3>2. login.token # 0 /\ valid[login.acc] \in {0, login.token}
      BY <1>1 DEF IInv, LoginSound, Good
    <3>3. launch'.token = login.token /\ account'[launch'.acc].token = login.token
      BY <1>3, <1>5, <1>6, <2>2, <3>1
    <3>4. valid'[launch'.acc] \in {0, launch'.token}
      BY <1>1, <1>6, <3>1, <3>2, <3>3 DEF server
    <3> QED BY <1>4, <1>6, <2>2, <3>2, <3>3, <3>4 DEF OnlineIsAccepted
  <2> QED BY <1>2, <2>1, <2>2, RequestIs
<1>13. VerifiedHasProfile'
  <2>1. \A k \in (Listed \cup {active, launch.acc, login.acc}) \ {0} : HasProfile(account'[k])
    BY <1>3, <1>5, <1>7
  <2>2. Listed' \cup {active', launch'.acc} \subseteq Listed \cup {active, launch.acc, login.acc}
    BY <1>6, <1>8 DEF Listed
  <2> QED BY <2>1, <2>2 DEF VerifiedHasProfile, HasProfile
<1> QED BY <1>8, <1>9, <1>10, <1>11, <1>12, <1>13 DEF IInv

-----------------------------------------------------------------------------
(* The program is started again *)

\* The account of a record of the file.
Loaded(r) == [name |-> r.name, token |-> r.token, profiles |-> r.profiles, current |-> r.current]

LEMMA LoadIs ==
  ASSUME NEW STATE d, Loadable(d), Load(d)
  PROVE  /\ accounts' \in Seq(Clients) /\ Distinct(accounts') /\ account' \in [Clients -> Account]
         /\ ~d.whole => Range(accounts') = {}
         /\ \A c \in Range(accounts') : \E i \in DOMAIN d.accounts :
              d.accounts[i].client = c /\ d.accounts[i].profiles > 0 /\ account'[c] = Loaded(d.accounts[i])
         /\ d.whole => \A i \in DOMAIN d.accounts :
                         d.accounts[i].profiles > 0 => d.accounts[i].client \in Range(accounts')
         /\ active' = FindAccount(accounts', account', d.active)
         /\ disk' = d /\ unsaved' = FALSE /\ UNCHANGED <<faults, server>>
         /\ login' = NoLogin /\ dialog' = FALSE /\ launch' = NoLaunch
<1> DEFINE P == {i \in DOMAIN d.accounts : d.accounts[i].profiles > 0}
           l == IF d.whole THEN Select(d.accounts, P) ELSE <<>>
           rec(c) == CHOOSE r \in Range(l) : r.client = c
           clients == [i \in DOMAIN l |-> l[i].client]
           h == [c \in Clients |->
                   IF c \in Range(clients)
                     THEN [name |-> rec(c).name, token |-> rec(c).token,
                           profiles |-> rec(c).profiles, current |-> rec(c).current]
                     ELSE Unused]
<1>1. /\ account' = h /\ accounts' = clients /\ active' = FindAccount(clients, h, d.active)
      /\ disk' = d /\ unsaved' = FALSE /\ UNCHANGED <<faults, server>>
      /\ login' = NoLogin /\ dialog' = FALSE /\ launch' = NoLaunch
  BY DEF Load
<1>2. /\ d.accounts \in Seq(Saved) /\ P \in SUBSET (1..Len(d.accounts))
      /\ \A i, j \in DOMAIN d.accounts : d.accounts[i].client = d.accounts[j].client => i = j
      /\ \A i \in P : i \in DOMAIN d.accounts /\ d.accounts[i].profiles > 0
      /\ \A i \in DOMAIN d.accounts : d.accounts[i].profiles > 0 => i \in P
      /\ d.whole \in BOOLEAN
  BY DEF Loadable
<1>3. (d.whole => l = Select(d.accounts, P)) /\ (~d.whole => l = <<>>)
  OBVIOUS
<1> HIDE DEF P, l
<1>4. /\ l \in Seq(Saved)
      /\ \A k \in DOMAIN l : \E i \in P : l[k] = d.accounts[i]
      /\ \A k, m \in DOMAIN l : l[k].client = l[m].client => k = m
      /\ d.whole => \A i \in P : \E k \in DOMAIN l : l[k] = d.accounts[i]
  <2>1. CASE d.whole
    <3>1. l \in Seq(Saved) /\ \E e : Picks(e, l, d.accounts, P)
      <4> DEFINE s == d.accounts
                 m == Select(s, P)
      <4>1. s \in Seq(Saved) /\ P \in SUBSET (1..Len(s)) /\ l = m
        BY <1>2, <1>3, <2>1
      <4> HIDE DEF s
      <4>2. m \in Seq(Saved) /\ \E e : Picks(e, m, s, P)
        BY <4>1, Selected
      <4> HIDE DEF m
      <4> QED BY <4>1, <4>2 DEF s
    <3>2. PICK e \in [1..Len(l) -> P] :
               /\ \A k, m \in 1..Len(l) : k < m => e[k] < e[m]
               /\ \A i \in P : \E k \in 1..Len(l) : e[k] = i
               /\ \A k \in 1..Len(l) : l[k] = d.accounts[e[k]]
      BY <3>1 DEF Picks
    <3>3. DOMAIN l = 1..Len(l) /\ Len(l) \in Nat /\ \A k \in 1..Len(l) : e[k] \in P
      BY <3>1
    <3>4. \A k, m \in 1..Len(l) : e[k] = e[m] => k = m
      <4> TAKE k, m \in 1..Len(l)
      <4> HAVE e[k] = e[m]
      <4>1. e[k] \in Nat
        BY <1>2, <3>3
      <4>2. ~(k < m) /\ ~(m < k)
        BY <3>2, <4>1
      <4> QED BY <3>3, <4>2
    <3>5. \A k, m \in 1..Len(l) : l[k].client = l[m].client => k = m
      <4> TAKE k, m \in 1..Len(l)
      <4> HAVE l[k].client = l[m].client
      <4>1. l[k] = d.accounts[e[k]] /\ l[m] = d.accounts[e[m]] /\ e[k] \in P /\ e[m] \in P
        BY <3>2, <3>3
      <4>2. e[k] = e[m]
        BY <1>2, <4>1
      <4> QED BY <3>4, <4>2
    <3>6. \A k \in DOMAIN l : \E i \in P : l[k] = d.accounts[i]
      BY <3>2, <3>3
    <3>7. \A i \in P : \E k \in DOMAIN l : l[k] = d.accounts[i]
      <4> TAKE i \in P
      <4>1. PICK k \in 1..Len(l) : e[k] = i
        BY <3>2
      <4>2. l[k] = d.accounts[i]
        BY <3>2, <4>1
      <4> QED BY <3>3, <4>2
    <3> QED BY <3>1, <3>3, <3>5, <3>6, <3>7
  <2>2. CASE ~d.whole
    <3>1. l = <<>>
      BY <1>3, <2>2
    <3>2. DOMAIN l = {} /\ l \in Seq(Saved)
      BY <3>1
    <3> QED BY <2>2, <3>2
  <2> QED BY <2>1, <2>2
<1>5. /\ DOMAIN l = 1..Len(l) /\ Len(l) \in Nat
      /\ \A k \in DOMAIN l : l[k] \in Saved /\ l[k] \in Range(l) /\ l[k].client \in Clients
  <2>1. l \in Seq(Saved)
    BY <1>4
  <2>2. \A k \in DOMAIN l : l[k] \in Saved /\ l[k] \in Range(l)
    BY <2>1 DEF Range
  <2> QED BY <2>1, <2>2 DEF Saved
<1>6. /\ clients \in Seq(Clients) /\ DOMAIN clients = DOMAIN l
      /\ \A k \in DOMAIN l : clients[k] = l[k].client /\ clients[k] \in Range(clients)
      /\ \A c \in Range(clients) : \E k \in DOMAIN l : c = l[k].client
  BY <1>5 DEF Range
<1>7. \A k \in DOMAIN l : rec(l[k].client) = l[k]
  <2> TAKE k \in DOMAIN l
  <2>1. ASSUME NEW r \in Range(l), r.client = l[k].client PROVE r = l[k]
    <3>1. PICK m \in DOMAIN l : r = l[m]
      BY DEF Range
    <3>2. m = k
      BY <1>4, <2>1, <3>1
    <3> QED BY <3>1, <3>2
  <2>2. l[k] \in Range(l)
    BY <1>5
  <2> QED BY <2>1, <2>2
<1>8. \A k \in DOMAIN l : h[l[k].client] = Loaded(l[k])
  <2> TAKE k \in DOMAIN l
  <2> DEFINE c == l[k].client
  <2>1. c \in Clients /\ c \in Range(clients) /\ rec(c) = l[k]
    BY <1>5, <1>6, <1>7
  <2> HIDE DEF c, clients, rec
  <2>2. h[c] = [name |-> rec(c).name, token |-> rec(c).token,
                profiles |-> rec(c).profiles, current |-> rec(c).current]
    BY <2>1
  <2>3. h[c] = Loaded(l[k])
    BY <2>1, <2>2 DEF Loaded
  <2> QED BY <2>3 DEF c
<1>9. DOMAIN h = Clients /\ h = [c \in Clients |-> h[c]] /\ \A c \in Clients : c \notin Range(clients) => h[c] = Unused
  OBVIOUS
<1> HIDE DEF clients, h, rec
<1>10. h \in [Clients -> Account]
  <2>1. ASSUME NEW c \in Clients PROVE h[c] \in Account
    <3>1. CASE c \in Range(clients)
      <4>1. PICK k \in DOMAIN l : c = l[k].client
        BY <1>6, <3>1
      <4>2. h[c] = Loaded(l[k]) /\ l[k] \in Saved
        BY <1>5, <1>8, <4>1
      <4> QED BY <4>2 DEF Loaded, Saved, Account
    <3>2. CASE c \notin Range(clients)
      BY <1>9, <3>2, TokensAreNumbers DEF Unused, Account
    <3> QED BY <3>1, <3>2
  <2> QED BY <1>9, <2>1
<1>11. Distinct(clients)
  BY <1>4, <1>6 DEF Distinct
<1>12. ~d.whole => Range(clients) = {}
  <2>1. ~d.whole => DOMAIN l = {}
    BY <1>3
  <2> QED BY <1>6, <2>1
<1>13. \A c \in Range(clients) : \E i \in DOMAIN d.accounts :
         d.accounts[i].client = c /\ d.accounts[i].profiles > 0 /\ h[c] = Loaded(d.accounts[i])
  <2> TAKE c \in Range(clients)
  <2>1. PICK k \in DOMAIN l : c = l[k].client
    BY <1>6
  <2>2. PICK i \in P : l[k] = d.accounts[i]
    BY <1>4
  <2> QED BY <1>2, <1>8, <2>1, <2>2
<1>14. d.whole => \A i \in DOMAIN d.accounts :
                    d.accounts[i].profiles > 0 => d.accounts[i].client \in Range(clients)
  <2> HAVE d.whole
  <2> TAKE i \in DOMAIN d.accounts
  <2> HAVE d.accounts[i].profiles > 0
  <2>1. PICK k \in DOMAIN l : l[k] = d.accounts[i]
    BY <1>2, <1>4
  <2> QED BY <1>6, <2>1
<1> QED BY <1>1, <1>6, <1>10, <1>11, <1>12, <1>13, <1>14

\* Everything that is read was written, or the file is empty.
LEMMA KeepsLoad ==
  ASSUME IInv, NEW STATE d, Loadable(d), Load(d)
  PROVE  IInv'
<1>1. /\ accounts' \in Seq(Clients) /\ Distinct(accounts') /\ account' \in [Clients -> Account]
      /\ ~d.whole => Range(accounts') = {}
      /\ \A c \in Range(accounts') : \E i \in DOMAIN d.accounts :
           d.accounts[i].client = c /\ d.accounts[i].profiles > 0 /\ account'[c] = Loaded(d.accounts[i])
      /\ d.whole => \A i \in DOMAIN d.accounts :
                      d.accounts[i].profiles > 0 => d.accounts[i].client \in Range(accounts')
      /\ active' = FindAccount(accounts', account', d.active)
      /\ disk' = d /\ unsaved' = FALSE /\ UNCHANGED <<faults, server>>
      /\ login' = NoLogin /\ dialog' = FALSE /\ launch' = NoLaunch
  BY LoadIs
<1>2. /\ d.whole \in BOOLEAN /\ (d.whole \/ d.accounts = <<>>) /\ d.accounts \in Seq(Saved)
      /\ \A i, j \in DOMAIN d.accounts : d.accounts[i].client = d.accounts[j].client => i = j
      /\ \A i \in DOMAIN d.accounts :
           d.accounts[i].current <= d.accounts[i].profiles /\ HasProfile(d.accounts[i])
  BY DEF Loadable
<1>3. \A i \in DOMAIN d.accounts : d.accounts[i] \in Saved
  BY <1>2
<1>4. /\ active' \in Range(accounts') \cup {0}
      /\ active' \in Range(accounts') => account'[active'].name = d.active
  <2>1. 0 \notin Range(accounts')
    BY <1>1, TokensAreNumbers DEF Range
  <2>2. \/ active' = 0
        \/ \E i \in DOMAIN accounts' : active' = accounts'[i] /\ account'[accounts'[i]].name = d.active
    <3> DEFINE l == accounts'
               h == account'
    <3>1. l \in Seq(Clients) /\ active' = FindAccount(l, h, d.active)
      BY <1>1
    <3> HIDE DEF l, h
    <3>2. active' = 0 \/ \E i \in DOMAIN l : active' = l[i] /\ h[l[i]].name = d.active
      BY <3>1, FindAccountIs
    <3> QED BY <3>2 DEF l, h
  <2> QED BY <2>1, <2>2 DEF Range
<1>5. \A c \in Range(accounts') : c \in Clients /\ HasProfile(account'[c])
  <2> TAKE c \in Range(accounts')
  <2>1. PICK i \in DOMAIN d.accounts : account'[c] = Loaded(d.accounts[i])
    BY <1>1
  <2>2. HasProfile(account'[c])
    BY <1>2, <2>1 DEF HasProfile, Loaded
  <2> QED BY <1>1, <2>2 DEF Range
<1>6. Typed'
  <2>1. active' \in Pointer
    BY <1>4, <1>5 DEF Pointer
  <2>2. login' \in Logins /\ launch' \in Launches /\ dialog' \in BOOLEAN
    BY <1>1, NoneTyped
  <2>3. valid' \in [Clients -> Tokens] /\ issued' \in Tokens /\ unsaved' \in BOOLEAN /\ faults' \in 0..MaxFaults
    BY <1>1 DEF IInv, Typed, server
  <2> QED BY <1>1, <2>1, <2>2, <2>3 DEF Typed
<1>7. LoginSound' /\ LaunchSound' /\ OnlineIsAccepted'
  <2>1. login' = NoLogin /\ login'.answer = "none" /\ launch'.stage = "none" /\ dialog' = FALSE
    BY <1>1, NoneTyped
  <2> QED BY <2>1 DEF LoginSound, LaunchSound, OnlineIsAccepted, Good
<1>8. VerifiedHasProfile'
  <2>1. (Listed' \cup {active', launch'.acc}) \ {0} \subseteq Range(accounts')
    BY <1>1, <1>4, NoneTyped DEF Listed
  <2> QED BY <1>5, <2>1 DEF VerifiedHasProfile, HasProfile
<1>9. Faithful(account', accounts', d)
  <2>1. ASSUME NEW i \in DOMAIN d.accounts
        PROVE  \/ d.accounts[i].client \in Range(accounts')
                  /\ d.accounts[i] = ToSaved(account', d.accounts[i].client)
               \/ d.accounts[i].client \notin Range(accounts') /\ d.accounts[i].profiles = 0
    <3> DEFINE r == d.accounts[i]
    <3>1. r \in Saved /\ d.whole
      BY <1>2, <1>3
    <3>2. CASE r.profiles > 0
      <4>1. r.client \in Range(accounts')
        BY <1>1, <3>1, <3>2
      <4>2. account'[r.client] = Loaded(r)
        <5>1. PICK j \in DOMAIN d.accounts :
                d.accounts[j].client = r.client /\ account'[r.client] = Loaded(d.accounts[j])
          BY <1>1, <4>1
        <5> QED BY <1>2, <5>1
      <4>3. r.current <= r.profiles
        BY <1>2
      <4> HIDE DEF r
      <4>4. r = ToSaved(account', r.client)
        <5>1. r = [client |-> r.client, name |-> r.name, token |-> r.token, profiles |-> r.profiles,
                   current |-> r.current]
          BY <3>1 DEF Saved
        <5>2. ToSaved(account', r.client) =
                [client |-> r.client, name |-> r.name, token |-> r.token, profiles |-> r.profiles,
                 current |-> r.current]
          BY <4>2, <4>3 DEF ToSaved, Loaded
        <5> QED BY <5>1, <5>2
      <4> QED BY <4>1, <4>4 DEF r
    <3>3. CASE ~(r.profiles > 0)
      <4>1. r.profiles = 0
        BY <3>1, <3>3 DEF Saved
      <4>2. r.client \notin Range(accounts')
        <5> SUFFICES ASSUME r.client \in Range(accounts') PROVE FALSE
          OBVIOUS
        <5>1. PICK j \in DOMAIN d.accounts : d.accounts[j].client = r.client /\ d.accounts[j].profiles > 0
          BY <1>1
        <5> QED BY <1>2, <3>3, <5>1
      <4> QED BY <4>1, <4>2
    <3> QED BY <3>2, <3>3
  <2> QED BY <2>1 DEF Faithful
<1>10. Complete(account', accounts', active', d)
  BY <1>1, <1>4 DEF Complete
<1>11. FileSound(account', accounts', active', disk', unsaved')
  <2> DEFINE h == account'
             l == accounts'
             a == active'
  <2>1. Faithful(h, l, d) /\ Complete(h, l, a, d) /\ disk' = d
    BY <1>1, <1>9, <1>10
  <2> HIDE DEF h, l, a
  <2>2. FileSound(h, l, a, disk', unsaved')
    BY <2>1 DEF FileSound
  <2> QED BY <2>2 DEF h, l, a
<1> QED BY <1>1, <1>6, <1>7, <1>8, <1>11 DEF IInv

LEMMA KeepsRestarts ==
  ASSUME IInv, Restart \/ TornSave
  PROVE  IInv'
<1>1. CASE Restart
  <2>1. Loadable(disk) /\ Load(disk)
    BY <1>1 DEF IInv, FileSound, Restart
  <2> QED BY <2>1, KeepsLoad
<1>2. CASE TornSave
  <2> DEFINE d == Torn
  <2>1. Load(d) /\ Loadable(d)
    BY <1>2, TornLoads DEF TornSave
  <2> HIDE DEF d
  <2> QED BY <2>1, KeepsLoad
<1> QED BY <1>1, <1>2

-----------------------------------------------------------------------------
(* The theorems *)

LEMMA InitSound == Init => IInv
<1> SUFFICES ASSUME Init PROVE IInv
  OBVIOUS
<1>1. /\ accounts = <<>> /\ active = 0 /\ login = NoLogin /\ dialog = FALSE /\ launch = NoLaunch
      /\ disk = Torn /\ unsaved = FALSE /\ faults = 0
      /\ account = [c \in Clients |-> Unused] /\ valid = [c \in Clients |-> 0] /\ issued = 0
  BY DEF Init
<1>2. accounts \in Seq(Clients) /\ DOMAIN accounts = {}
  BY <1>1
<1>3. Listed = {} /\ Range(accounts) = {}
  BY <1>2 DEF Listed, Range
<1>4. Loadable(disk) /\ disk.whole = FALSE /\ DOMAIN disk.accounts = {}
  BY <1>1, TornLoads
<1>6. Unused \in Account
  BY TokensAreNumbers DEF Unused, Account
<1>7. account \in [Clients -> Account] /\ valid \in [Clients -> Tokens] /\ issued \in Tokens
  BY <1>1, <1>6, TokensAreNumbers
<1>8. Typed
  <2>1. active \in Pointer /\ dialog \in BOOLEAN /\ unsaved \in BOOLEAN
    BY <1>1 DEF Pointer
  <2>2. faults \in 0..MaxFaults
    BY <1>1, AccountsAssumption
  <2>3. login \in Logins /\ launch \in Launches
    BY <1>1, NoneTyped
  <2> QED BY <1>2, <1>7, <2>1, <2>2, <2>3 DEF Typed
<1>9. login.answer = "none" /\ launch.stage = "none" /\ launch.acc = 0
  BY <1>1, NoneTyped
<1>10. LoginSound /\ LaunchSound /\ OnlineIsAccepted
  BY <1>1, <1>9 DEF LoginSound, LaunchSound, OnlineIsAccepted, Good
<1>11. FileSound(account, accounts, active, disk, unsaved)
  BY <1>4 DEF FileSound, Faithful, Complete
<1>12. VerifiedHasProfile /\ Distinct(accounts)
  BY <1>1, <1>2, <1>3, <1>9 DEF VerifiedHasProfile, Distinct
<1> QED BY <1>8, <1>10, <1>11, <1>12 DEF IInv

LEMMA StepSound == IInv /\ [Next]_vars => IInv'
<1> SUFFICES ASSUME IInv, [Next]_vars PROVE IInv'
  OBVIOUS
<1>1. CASE AccountPage
  BY <1>1, KeepsRemoveAccount, KeepsAccountPage, KeepsCloseLoginDialog, KeepsSubmitLoginDialog
     DEF AccountPage
<1>2. CASE Launching
  BY <1>2, KeepsDoLaunch, KeepsCloseManager, KeepsSelectAccount, KeepsDialogs DEF Launching
<1>3. CASE Request
  BY <1>3, KeepsServerAnswers, KeepsAuthSucceeds, KeepsAuthFailsHard, KeepsUnanswered,
     KeepsTimer DEF Request
<1>4. CASE \E c \in Clients : Revoke(c)
  BY <1>4, KeepsRevoke
<1>5. CASE Restart \/ TornSave
  BY <1>5, KeepsRestarts
<1>6. CASE UNCHANGED vars
  BY <1>6 DEF IInv, Typed, LoginSound, LaunchSound, OnlineIsAccepted, VerifiedHasProfile, Listed, vars, file
<1> QED BY <1>1, <1>2, <1>3, <1>4, <1>5, <1>6 DEF Next

LEMMA AlwaysSound == Spec => []IInv
BY InitSound, StepSound, PTL DEF Spec

(* Every variable stays in its type: what doLaunch and the request read is an account
   of the program, and the file holds records of accounts. *)
THEOREM TypeCorrect == Spec => []TypeOK
<1>1. IInv => TypeOK
  BY DEF IInv, TypeOK, Typed, Logins, Launches, FileSound, Loadable
<1> QED BY <1>1, AlwaysSound, PTL

(* Whatever order the user, the server, the timer and the program's ends come in, a
   session that doLaunch starts online has the token its account has, the server gave
   it in this login, and nothing but a revocation has come after it. *)
THEOREM OnlineCorrect == Spec => []OnlineIsAccepted
<1>1. IInv => OnlineIsAccepted
  BY DEF IInv
<1> QED BY <1>1, AlwaysSound, PTL

(* RefreshTask::processResponse can read through the pointer to the current profile:
   an account with a token has one. *)
THEOREM ProfileCorrect == Spec => []VerifiedHasProfile
<1>1. IInv => VerifiedHasProfile
  BY DEF IInv
<1> QED BY <1>1, AlwaysSound, PTL

\* What the file has of an account with a token is read again as it was.
LEMMA ReloadsAccounts ==
  ASSUME IInv, Restart, ~unsaved
  PROVE  /\ \A c \in Range(accounts') : c \in Listed /\ account'[c].name = account[c].name
                                        /\ account'[c].token = account[c].token
         /\ disk.whole => \A c \in Listed : account[c].token # 0 =>
                            c \in Range(accounts') /\ account'[c] = account[c]
<1>1. Loadable(disk) /\ Load(disk) /\ Faithful(account, accounts, disk)
      /\ Complete(account, accounts, active, disk)
  BY DEF IInv, FileSound, Restart
<1>2. /\ \A c \in Range(accounts') : \E i \in DOMAIN disk.accounts :
           /\ disk.accounts[i].client = c /\ disk.accounts[i].profiles > 0
           /\ account'[c] = Loaded(disk.accounts[i])
      /\ disk.whole => \A i \in DOMAIN disk.accounts :
                         disk.accounts[i].profiles > 0 => disk.accounts[i].client \in Range(accounts')
  BY <1>1, LoadIs
<1>3. \A i \in DOMAIN disk.accounts : disk.accounts[i].profiles > 0 =>
        disk.accounts[i].client \in Listed
        /\ disk.accounts[i] = ToSaved(account, disk.accounts[i].client)
  BY <1>1 DEF Faithful, Listed
<1>4. \A c \in Range(accounts') :
        c \in Listed /\ account'[c] = Loaded(ToSaved(account, c))
  BY <1>2, <1>3
<1>5. ASSUME disk.whole, NEW c \in Listed, account[c].token # 0
      PROVE  c \in Range(accounts') /\ account'[c] = account[c]
  <2>1. PICK i \in DOMAIN disk.accounts : disk.accounts[i].client = c
    BY <1>1, <1>5 DEF Complete, Listed
  <2>2. c \in Clients /\ c # 0 /\ account[c] \in Account
    BY TokensAreNumbers DEF IInv, Typed, Listed, Range
  <2>3. account[c].current \in 1..account[c].profiles
    BY <1>5, <2>2 DEF IInv, VerifiedHasProfile
  <2>4. account[c].profiles > 0 /\ account[c].current <= account[c].profiles
    BY <2>2, <2>3 DEF Account
  <2>5. disk.accounts[i] = ToSaved(account, c)
    BY <1>1, <2>1 DEF Faithful, Listed
  <2>6. disk.accounts[i].profiles > 0
    BY <2>4, <2>5 DEF ToSaved
  <2>7. c \in Range(accounts')
    BY <1>2, <1>5, <2>1, <2>6
  <2>8. account'[c] = Loaded(ToSaved(account, c))
    BY <1>4, <2>7
  <2>9. Loaded(ToSaved(account, c)) = account[c]
    <3> DEFINE r == account[c]
    <3>1. Loaded(ToSaved(account, c)) =
            [name |-> r.name, token |-> r.token, profiles |-> r.profiles, current |-> r.current]
      BY <2>4 DEF Loaded, ToSaved
    <3>2. r \in Account
      BY <2>2
    <3> HIDE DEF r
    <3>3. r = [name |-> r.name, token |-> r.token, profiles |-> r.profiles, current |-> r.current]
      BY <3>2 DEF Account
    <3> QED BY <3>1, <3>3 DEF r
  <2> QED BY <2>7, <2>8, <2>9
<1>6. \A c \in Range(accounts') : account'[c].name = account[c].name /\ account'[c].token = account[c].token
  <2> TAKE c \in Range(accounts')
  <2>1. /\ Loaded(ToSaved(account, c)).name = account[c].name
        /\ Loaded(ToSaved(account, c)).token = account[c].token
    BY DEF Loaded, ToSaved
  <2> QED BY <1>4, <2>1
<1> QED BY <1>4, <1>5, <1>6

(* Whatever happens, an account of the list that loses its token loses it by an answer to
   the request of this very account, one that refuses it or one that is JSON and not what
   the flow expects, or by a restart after a save that failed: time-outs, network failures,
   answers that are no JSON, skipped logins and all other restarts keep it. *)
THEOREM LogoutCorrect == Spec => NoLogoutUnasked
<1> DEFINE Kept == \A c \in Listed \cap Range(accounts') :
                     account[c].token # 0 /\ account'[c].token = 0 =>
                       \/ login.acc = c /\ login.answer \in Refusals \cup {"odd"}
                       \/ unsaved /\ Restart
<1>1. IInv /\ [Next]_vars => [Kept]_vars
  <2> SUFFICES ASSUME IInv, Next PROVE Kept
    BY DEF IInv
  <2>1. ASSUME account' = account PROVE Kept
    BY <2>1
  <2>2. CASE \E n \in Names, c \in Clients : SubmitLoginDialog(n, c)
    <3>1. PICK n \in Names, c \in Clients : SubmitLoginDialog(n, c)
      BY <2>2
    <3>2. c \notin Listed /\ account' = [account EXCEPT ![c] = [Unused EXCEPT !.name = n]]
      BY <3>1 DEF SubmitLoginDialog, Fresh
    <3>3. \A k \in Listed : account'[k] = account[k]
      BY <3>2 DEF IInv, Typed, Listed, Range
    <3> QED BY <3>3
  <2>3. ASSUME AuthSucceeds \/ AuthFailsHard
        PROVE  /\ \A k \in Listed : k # login.acc => account'[k] = account[k]
               /\ login # NoLogin /\ login.acc \in Clients /\ account[login.acc] \in Account
    <3>1. login.answer # "none" /\ \E r : account' = [account EXCEPT ![login.acc] = r]
      BY <2>3 DEF AuthSucceeds, AuthFailsHard
    <3>2. login # NoLogin
      BY <3>1, NoneTyped
    <3>3. login.acc \in Clients
      BY <3>2, RequestIs
    <3> QED BY <3>1, <3>2, <3>3 DEF IInv, Typed, Listed, Range
  <2>4. CASE AuthSucceeds
    <3> DEFINE r == Processed(account[login.acc])
    <3>1. login.answer = "ok" /\ account' = [account EXCEPT ![login.acc] = r]
      BY <2>4 DEF AuthSucceeds
    <3>2. r.token = login.token
      BY <2>3, <2>4, <3>1, ProcessedIs DEF Good
    <3>3. login.token # 0
      BY <3>1 DEF IInv, LoginSound, Good
    <3> HIDE DEF r
    <3>4. account'[login.acc] = r
      BY <2>3, <2>4, <3>1 DEF IInv, Typed
    <3> QED BY <2>3, <2>4, <3>2, <3>3, <3>4
  <2>5. CASE AuthFailsHard
    <3>1. login.answer \in Refusals \cup {"odd"}
      BY <2>5 DEF AuthFailsHard, Hard
    <3> QED BY <2>3, <2>5, <3>1
  <2>6. CASE Restart
    <3>1. CASE unsaved
      BY <2>6, <3>1
    <3>2. CASE ~unsaved
      BY <2>6, <3>2, ReloadsAccounts
    <3> QED BY <3>1, <3>2
  <2>7. CASE TornSave
    <3> DEFINE d == Torn
    <3>1. Load(d) /\ Loadable(d) /\ ~d.whole
      BY <2>7, TornLoads DEF TornSave
    <3> HIDE DEF d
    <3>2. Range(accounts') = {}
      BY <3>1, LoadIs
    <3> QED BY <3>2
  <2>8. CASE AccountPage
    <3>1. CASE \E i \in DOMAIN accounts : RemoveAccount(i)
      BY <2>1, <3>1 DEF RemoveAccount
    <3>2. CASE \E n \in Names : SetDefault(n)
      BY <2>1, <3>2 DEF SetDefault
    <3>3. CASE NoDefault \/ OpenLoginDialog \/ CloseLoginDialog
      BY <2>1, <3>3 DEF NoDefault, OpenLoginDialog, CloseLoginDialog
    <3> QED BY <2>2, <2>8, <3>1, <3>2, <3>3 DEF AccountPage
  <2>9. CASE Launching
    <3>1. account' = account
      BY <2>9 DEF Launching, DoLaunch, CloseManager, SelectAccount, Cancel, EnterPassword, EnterName,
                  GameEnds
    <3> QED BY <2>1, <3>1
  <2>10. CASE Request
    <3>1. CASE \E a \in Answers : ServerAnswers(a)
      BY <2>1, <3>1 DEF ServerAnswers
    <3>2. CASE Garbled \/ NetworkFails \/ PlayOffline \/ Timeout
      BY <2>1, <3>2 DEF Garbled, NetworkFails, PlayOffline, Timeout, AuthFailsSoftly
    <3>3. CASE Progress \/ TimePasses
      BY <2>1, <3>3 DEF Progress, TimePasses
    <3> QED BY <2>4, <2>5, <2>10, <3>1, <3>2, <3>3 DEF Request
  <2>11. CASE \E c \in Clients : Revoke(c)
    BY <2>1, <2>11 DEF Revoke
  <2> QED BY <2>6, <2>7, <2>8, <2>9, <2>10, <2>11 DEF Next
<1> QED BY <1>1, AlwaysSound, PTL DEF Spec, NoLogoutUnasked

(* A restart with the file whole, and the last save not failed, loses no login and no
   default: whatever was done last had been saved, and so had what an earlier save that
   failed has left out. *)
THEOREM RestartCorrect == Spec => RestartKeepsAccounts
<1> DEFINE Kept == Restart /\ disk.whole /\ ~unsaved =>
                     /\ \A c \in Listed : account[c].token # 0 =>
                          c \in Range(accounts') /\ account'[c] = account[c]
                     /\ active \in Listed /\ account[active].token # 0
                          /\ (\A c \in Listed : account[c].name = account[active].name => c = active)
                        => active' = active
<1>1. IInv => Kept
  <2> SUFFICES ASSUME IInv, Restart, disk.whole, ~unsaved
               PROVE  /\ \A c \in Listed : account[c].token # 0 =>
                           c \in Range(accounts') /\ account'[c] = account[c]
                      /\ active \in Listed /\ account[active].token # 0
                           /\ (\A c \in Listed : account[c].name = account[active].name => c = active)
                         => active' = active
    OBVIOUS
  <2>1. \A c \in Listed : account[c].token # 0 =>
          c \in Range(accounts') /\ account'[c] = account[c]
    BY ReloadsAccounts
  <2>2. ASSUME active \in Listed, account[active].token # 0,
               \A c \in Listed : account[c].name = account[active].name => c = active
        PROVE  active' = active
    <3> DEFINE l == accounts'
               h == account'
    <3>1. Loadable(disk) /\ Load(disk) /\ Complete(account, accounts, active, disk)
      BY DEF IInv, FileSound, Restart
    <3>2. l \in Seq(Clients) /\ active' = FindAccount(l, h, disk.active)
      BY <3>1, LoadIs
    <3>3. disk.active = account[active].name
      BY <2>2, <3>1 DEF Complete, Listed
    <3>4. active \in Range(l) /\ h[active] = account[active]
      BY <2>1, <2>2
    <3>5. \A c \in Range(l) : c \in Listed /\ h[c].name = account[c].name
      BY ReloadsAccounts
    <3> HIDE DEF l, h
    <3>6. \/ active' = 0 /\ \A i \in DOMAIN l : h[l[i]].name # disk.active
          \/ \E i \in DOMAIN l : active' = l[i] /\ h[l[i]].name = disk.active
      BY <3>2, FindAccountIs
    <3>7. \E i \in DOMAIN l : h[l[i]].name = disk.active
      BY <3>3, <3>4 DEF Range
    <3>8. active' \in Range(l) /\ h[active'].name = disk.active
      BY <3>6, <3>7 DEF Range
    <3> QED BY <2>2, <3>3, <3>5, <3>8
  <2> QED BY <2>1, <2>2
<1> QED BY <1>1, AlwaysSound, PTL DEF Spec, RestartKeepsAccounts

=============================================================================
