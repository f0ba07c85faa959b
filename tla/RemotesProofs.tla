---------------------------- MODULE RemotesProofs ----------------------------
(***************************************************************************)
(* FetchRepositories for every configuration, every listing a provider may *)
(* return or refuse, every page size and every pattern of failed calls:    *)
(* the URLs returned are those the accounts are there to return, without   *)
(* gaps where no call failed and without anything nobody asks for.         *)
(*                                                                         *)
(* The invariant follows a listing through its tasks and its pages: what   *)
(* an account wants is fetched, or its listing is still a task, and the    *)
(* first task has its first pages behind it.                               *)
(***************************************************************************)
EXTENDS Remotes, SequenceTheorems, FiniteSetTheorems, TLAPS

\* The organizations an account may come to list, the skipped ones included.
OrganizationsOf(a) ==
  ToSet(a.organizations)
  \cup (IF a.kind = "github" THEN UNION {ToSet(Discovered[u]) : u \in ToSet(a.users)} ELSE {})
  \cup (IF a.kind = "gitlab" THEN ToSet(Discovered["gitlab"]) ELSE {})

\* The listings of the two phases.
UserTasks(a) ==
  {ListRepos(u) : u \in ToSet(a.users)}
  \cup (IF a.kind = "github" THEN {ListOrgs(u) : u \in ToSet(a.users)} ELSE {})
  \cup (IF a.kind = "gitlab" THEN {ListOrgs("gitlab")} ELSE {})

OrganizationTasks(a) == {ListRepos(o) : o \in OrganizationsOf(a)}

TasksOf(a, p) == IF p = 1 THEN UserTasks(a) ELSE OrganizationTasks(a)

\* What a provider answers to a listing, and where the entries go.
AnswersTo(t) == IF t.what = "repos" THEN Repos[t.owner] ELSE Discovered[t.owner]

Into(t) == IF t.what = "repos" THEN ToSet(fetched) ELSE ToSet(organizations)

\* The entries before page p.
Before(p) == (p - 1) * PageSize

TypeOK ==
  /\ accounts \in Configurations
  /\ current \in 0..Len(accounts) /\ phase \in 0..3 /\ page \in Nat \ {0}
  /\ IsList(tasks) /\ IsList(organizations) /\ IsList(fetched) /\ IsList(repositories)
  /\ phase \in {1, 2} => current \in 1..Len(accounts)
  /\ phase \in {0, 3} => tasks = <<>>
  /\ phase = 3 => current = Len(accounts)

\* What is under way belongs to the account.
WithinAccount ==
  phase \in {1, 2} =>
    /\ ToSet(tasks) \subseteq TasksOf(Account, phase)
    /\ ToSet(organizations) \subseteq OrganizationsOf(Account)
    /\ ToSet(fetched) \subseteq Wanted(Account)

\* The first task has the pages before its next one behind it.
PagesBehind ==
  tasks # <<>> =>
    \A i \in 1..Len(Answers) : i <= Before(page) => Answers[i] \in Into(Head(tasks))

\* The listing t of the account is over with all its entries, is yet to come, or is skipped.
Accounted(t) ==
  \/ t \in ToSet(tasks)
  \/ ToSet(AnswersTo(t)) \subseteq Into(t)
  \/ phase = 2 /\ t.owner \in Account.skip

\* An account without a failed call misses nothing.
NothingMissed ==
  (phase \in {1, 2} /\ current \notin hurt) =>
    /\ PagesBehind
    /\ ToSet(Account.urls) \subseteq ToSet(fetched)
    /\ ToSet(Account.organizations) \subseteq ToSet(organizations)
    /\ \A t \in TasksOf(Account, phase) : Accounted(t)
    /\ phase = 2 => \A u \in ToSet(Account.users) : ToSet(Repos[u]) \subseteq ToSet(fetched)

\* The accounts before the current one, and that one once it is closed.
Asked == {i \in 1..Len(accounts) : i < current \/ (i = current /\ phase \in {0, 3})}

\* What the composite remote has is what the accounts it has asked returned.
Collected ==
  /\ \A i \in Asked : i \notin hurt => Wanted(accounts[i]) \subseteq ToSet(repositories)
  /\ ToSet(repositories) \subseteq UNION {Wanted(accounts[i]) : i \in 1..Len(accounts)}

\* Each gitlab group is listed once.
GroupsOnce ==
  (phase = 2 /\ Account.kind = "gitlab") =>
    \A i, j \in 1..Len(tasks) : tasks[i].owner = tasks[j].owner => i = j

\* The inductive invariant.
FInv == TypeOK /\ WithinAccount /\ NothingMissed /\ Collected /\ GroupsOnce

-----------------------------------------------------------------------------
(* Lists and their elements.                                               *)

\* A sequence is a list, of its elements.
LEMMA SeqIsList ==
  ASSUME NEW S, NEW s \in Seq(S)
  PROVE  /\ IsList(s) /\ Len(s) \in Nat /\ DOMAIN s = 1..Len(s)
         /\ ToSet(s) = {s[i] : i \in 1..Len(s)} /\ ToSet(s) \subseteq S
<1>1. Len(s) \in Nat /\ DOMAIN s = 1..Len(s) /\ s \in [1..Len(s) -> S]
  BY LenProperties
<1>2. ToSet(s) = {s[i] : i \in 1..Len(s)} /\ ToSet(s) \subseteq S
  BY <1>1 DEF ToSet
<1>3. s \in [1..Len(s) -> ToSet(s)]
  BY <1>1, <1>2
<1>4. s \in Seq(ToSet(s))
  BY <1>1, <1>3, SeqDef
<1>5. QED
  BY <1>1, <1>2, <1>4 DEF IsList

\* The elements of a list.
LEMMA ListElements ==
  ASSUME NEW s, IsList(s)
  PROVE  /\ s \in Seq(ToSet(s)) /\ Len(s) \in Nat /\ DOMAIN s = 1..Len(s)
         /\ ToSet(s) = {s[i] : i \in 1..Len(s)}
  BY SeqIsList DEF IsList

\* The empty list has none.
LEMMA EmptyList == IsList(<<>>) /\ ToSet(<<>>) = {} /\ \A s : (IsList(s) /\ ToSet(s) = {}) => s = <<>>
<1>1. PICK e : e = <<>>
  OBVIOUS
<1>2. IsList(<<>>) /\ ToSet(<<>>) = {}
  <2>1. e \in Seq({0}) /\ Len(e) = 0 /\ 1..0 = {}
    BY <1>1, EmptySeq
  <2>2. IsList(e) /\ ToSet(e) = {e[i] : i \in 1..Len(e)}
    BY <2>1, SeqIsList
  <2>3. QED
    BY <1>1, <2>1, <2>2
<1>3. ASSUME NEW s, IsList(s), ToSet(s) = {} PROVE s = <<>>
  <2>1. s \in Seq({})
    BY <1>3 DEF IsList
  <2>2. Len(s) = 0
    BY <1>3, <2>1, ListElements
  <2>3. QED
    BY <2>1, <2>2, EmptySeq
<1>4. QED
  BY <1>2, <1>3

\* Two lists, one behind the other.
LEMMA ConcatLists ==
  ASSUME NEW s, NEW t, IsList(s), IsList(t)
  PROVE  IsList(s \o t) /\ ToSet(s \o t) = ToSet(s) \cup ToSet(t)
<1> DEFINE S == ToSet(s) \cup ToSet(t)
<1>1. /\ s \in Seq(ToSet(s)) /\ t \in Seq(ToSet(t)) /\ Len(s) \in Nat /\ Len(t) \in Nat
      /\ ToSet(s) = {s[i] : i \in 1..Len(s)} /\ ToSet(t) = {t[i] : i \in 1..Len(t)}
  BY ListElements
<1>2. s \in Seq(S) /\ t \in Seq(S)
  BY <1>1, SeqMonotonic, Zenon
<1> HIDE DEF S
<1>3. /\ s \o t \in Seq(S) /\ Len(s \o t) = Len(s) + Len(t)
      /\ \A i \in 1..(Len(s) + Len(t)) : (s \o t)[i] = IF i <= Len(s) THEN s[i] ELSE t[i - Len(s)]
  BY <1>2, ConcatProperties
<1>4. IsList(s \o t) /\ ToSet(s \o t) = {(s \o t)[i] : i \in 1..Len(s \o t)} /\ ToSet(s \o t) \subseteq S
  BY <1>3, SeqIsList
<1>5. ASSUME NEW x \in ToSet(s) PROVE x \in ToSet(s \o t)
  <2>1. PICK i \in 1..Len(s) : x = s[i]
    BY <1>1
  <2>2. i \in 1..Len(s \o t) /\ (s \o t)[i] = x
    BY <1>1, <1>3, <2>1
  <2>3. QED
    BY <1>4, <2>2
<1>6. ASSUME NEW x \in ToSet(t) PROVE x \in ToSet(s \o t)
  <2>1. PICK i \in 1..Len(t) : x = t[i]
    BY <1>1
  <2>2. Len(s) + i \in 1..Len(s \o t) /\ ~(Len(s) + i <= Len(s)) /\ (Len(s) + i) - Len(s) = i
    BY <1>1, <1>3
  <2>3. (s \o t)[Len(s) + i] = x
    BY <1>3, <2>1, <2>2
  <2>4. QED
    BY <1>4, <2>2, <2>3
<1>7. QED
  BY <1>4, <1>5, <1>6 DEF S

\* The first element and the others.
LEMMA HeadAndTail ==
  ASSUME NEW s, IsList(s), s # <<>>
  PROVE  /\ IsList(Tail(s)) /\ Head(s) \in ToSet(s)
         /\ ToSet(s) = ToSet(Tail(s)) \cup {Head(s)}
         /\ Len(Tail(s)) = Len(s) - 1 /\ Len(s) \in Nat \ {0}
         /\ \A i \in 1..Len(Tail(s)) : Tail(s)[i] = s[i + 1]
<1>1. /\ s \in Seq(ToSet(s)) /\ Len(s) \in Nat /\ ToSet(s) = {s[i] : i \in 1..Len(s)}
  BY ListElements
<1>2. /\ Head(s) \in ToSet(s) /\ Tail(s) \in Seq(ToSet(s)) /\ Len(Tail(s)) = Len(s) - 1
      /\ \A i \in 1..Len(Tail(s)) : Tail(s)[i] = s[i + 1]
  BY <1>1, HeadTailProperties
<1>3. Len(s) # 0 /\ Head(s) = s[1]
  BY <1>1, EmptySeq
<1>4. /\ IsList(Tail(s)) /\ ToSet(Tail(s)) = {Tail(s)[i] : i \in 1..Len(Tail(s))}
      /\ ToSet(Tail(s)) \subseteq ToSet(s)
  BY <1>2, SeqIsList
<1>5. ASSUME NEW x \in ToSet(s), x # Head(s) PROVE x \in ToSet(Tail(s))
  <2>1. PICK i \in 1..Len(s) : x = s[i]
    BY <1>1
  <2>2. i # 1
    BY <1>3, <1>5, <2>1
  <2>3. i - 1 \in 1..Len(Tail(s)) /\ (i - 1) + 1 = i
    BY <1>1, <1>2, <2>2
  <2>4. Tail(s)[i - 1] = x
    BY <1>2, <2>1, <2>3
  <2>5. QED
    BY <1>4, <2>3, <2>4
<1>6. QED
  BY <1>1, <1>2, <1>3, <1>4, <1>5

\* A list of listings, one per owner.
LEMMA MappedRepos ==
  ASSUME NEW s, IsList(s)
  PROVE  /\ IsList(Mapped(s, ListRepos)) /\ ToSet(Mapped(s, ListRepos)) = {ListRepos(o) : o \in ToSet(s)}
         /\ Len(Mapped(s, ListRepos)) = Len(s)
         /\ \A i \in 1..Len(s) : Mapped(s, ListRepos)[i].owner = s[i]
<1>1. Len(s) \in Nat /\ ToSet(s) = {s[i] : i \in 1..Len(s)}
  BY ListElements
<1> DEFINE f == [i \in 1..Len(s) |-> ListRepos(s[i])]
<1>2. f = Mapped(s, ListRepos)
  BY DEF Mapped
<1>3. f \in [1..Len(s) -> {ListRepos(o) : o \in ToSet(s)}]
  BY <1>1
<1>4. f \in Seq({ListRepos(o) : o \in ToSet(s)}) /\ Len(f) = Len(s)
  BY <1>1, <1>3, SeqDef, LenProperties
<1>5. \A i \in 1..Len(s) : f[i] = ListRepos(s[i]) /\ f[i].owner = s[i]
  BY DEF ListRepos
<1> HIDE DEF f
<1>6. IsList(f) /\ ToSet(f) = {f[i] : i \in 1..Len(f)}
  BY <1>4, SeqIsList
<1>7. ToSet(f) = {ListRepos(o) : o \in ToSet(s)}
  BY <1>1, <1>4, <1>5, <1>6
<1>8. QED
  BY <1>2, <1>4, <1>5, <1>6, <1>7

\* The first listings of an account are those of its users, with the discovery of
\* organizations among them.
LEMMA FirstListings ==
  ASSUME NEW a, IsAccount(a)
  PROVE  IsList(FirstTasks(a)) /\ ToSet(FirstTasks(a)) = UserTasks(a)
<1> DEFINE users == a.users
           n == Len(users)
<1>1. IsList(users) /\ n \in Nat /\ ToSet(users) = {users[i] : i \in 1..n}
  BY ListElements DEF IsAccount
<1>2. CASE a.kind = "github"
  <2> DEFINE T == {ListRepos(u) : u \in ToSet(users)} \cup {ListOrgs(u) : u \in ToSet(users)}
             g == GithubTasks(users)
  <2>1. ASSUME NEW i \in 1..(2 * n)
        PROVE  /\ i % 2 = 1 => (i + 1) \div 2 \in 1..n
               /\ i % 2 # 1 => i \div 2 \in 1..n
    BY <1>1
  <2>2. ASSUME NEW k \in 1..n
        PROVE  /\ 2 * k \in 1..(2 * n) /\ (2 * k) % 2 # 1 /\ (2 * k) \div 2 = k
               /\ 2 * k - 1 \in 1..(2 * n) /\ (2 * k - 1) % 2 = 1 /\ ((2 * k - 1) + 1) \div 2 = k
    BY <1>1
  <2>3. g = [i \in 1..(2 * n) |->
               IF i % 2 = 1 THEN ListOrgs(users[(i + 1) \div 2]) ELSE ListRepos(users[i \div 2])]
    BY DEF GithubTasks
  <2> HIDE DEF g, n
  <2>4. ASSUME NEW i \in 1..(2 * n) PROVE g[i] \in T
    <3>1. CASE i % 2 = 1
      BY <1>1, <2>1, <2>3, <3>1
    <3>2. CASE i % 2 # 1
      BY <1>1, <2>1, <2>3, <3>2
    <3>3. QED
      BY <3>1, <3>2
  <2>5. g \in Seq(T) /\ Len(g) = 2 * n
    <3>1. 2 * n \in Nat
      BY <1>1
    <3>2. DOMAIN g = 1..(2 * n) /\ g = [i \in DOMAIN g |-> g[i]]
      BY <2>3
    <3>3. g \in [1..(2 * n) -> T]
      BY <2>4, <3>2
    <3>4. g \in Seq(T)
      BY <3>1, <3>3, SeqDef
    <3>5. QED
      BY <3>1, <3>3, <3>4, LenProperties
  <2>6. IsList(g) /\ ToSet(g) = {g[i] : i \in 1..(2 * n)} /\ ToSet(g) \subseteq T
    BY <2>5, SeqIsList
  <2>7. ASSUME NEW u \in ToSet(users) PROVE ListRepos(u) \in ToSet(g) /\ ListOrgs(u) \in ToSet(g)
    <3>1. PICK k \in 1..n : u = users[k]
      BY <1>1
    <3>2. g[2 * k] = ListRepos(u) /\ g[2 * k - 1] = ListOrgs(u)
      BY <2>2, <2>3, <3>1
    <3>3. QED
      BY <2>2, <2>6, <3>2
  <2>8. ToSet(g) = T
    BY <2>6, <2>7
  <2>9. FirstTasks(a) = g /\ UserTasks(a) = T
    BY <1>2 DEF FirstTasks, UserTasks, g
  <2>10. QED
    BY <2>6, <2>8, <2>9
<1>3. CASE a.kind = "gitlab"
  <2>1. IsList(Mapped(users, ListRepos)) /\ ToSet(Mapped(users, ListRepos)) = {ListRepos(o) : o \in ToSet(users)}
    BY <1>1, MappedRepos
  <2>2. PICK g : g = <<ListOrgs("gitlab")>>
    OBVIOUS
  <2>3. g \in Seq({ListOrgs("gitlab")}) /\ Len(g) = 1 /\ g[1] = ListOrgs("gitlab")
    BY <2>2
  <2>4. IsList(g) /\ ToSet(g) = {ListOrgs("gitlab")}
    BY <2>3, SeqIsList
  <2>5. FirstTasks(a) = g \o Mapped(users, ListRepos)
    BY <1>3, <2>2 DEF FirstTasks, GitlabTasks
  <2>6. IsList(FirstTasks(a)) /\ ToSet(FirstTasks(a)) = ToSet(g) \cup ToSet(Mapped(users, ListRepos))
    BY <2>1, <2>4, <2>5, ConcatLists
  <2>7. QED
    BY <1>3, <2>1, <2>4, <2>6 DEF UserTasks
<1>4. CASE a.kind # "github" /\ a.kind # "gitlab"
  BY <1>1, <1>4, MappedRepos DEF FirstTasks, UserTasks
<1>5. QED
  BY <1>2, <1>3, <1>4

\* A set made a list, as the groups of gitlab are: each element once.
LEMMA ListOfSet ==
  ASSUME NEW S, IsFiniteSet(S)
  PROVE  /\ IsList(SetToSeq(S)) /\ ToSet(SetToSeq(S)) = S
         /\ \A i, j \in 1..Len(SetToSeq(S)) : SetToSeq(S)[i] = SetToSeq(S)[j] => i = j
<1>1. PICK n \in Nat : n = Cardinality(S) /\ ExistsBijection(1..n, S)
  BY FS_CardinalityType
<1>2. PICK f \in [1..n -> S] : IsInjective(f)
  BY <1>1 DEF ExistsBijection, Bijection, Injection, IsInjective
<1>3. PICK g : g = SetToSeq(S)
  OBVIOUS
<1>4. g \in [1..n -> S] /\ IsInjective(g)
  BY <1>1, <1>2, <1>3, Zenon DEF SetToSeq
<1>5. g \in Seq(S) /\ Len(g) = n
  BY <1>4, SeqDef, LenProperties
<1>6. g \in Injection(1..n, S)
  BY <1>4 DEF Injection
<1>7. Cardinality(1..n) = n
  BY FS_Interval
<1>8. g \in Surjection(1..n, S)
  BY <1>1, <1>6, <1>7, FS_Injection
<1>9. \A x \in S : \E i \in 1..n : g[i] = x
  BY <1>8 DEF Surjection
<1>10. IsList(g) /\ ToSet(g) = {g[i] : i \in 1..n} /\ ToSet(g) \subseteq S
  BY <1>5, SeqIsList
<1>11. ToSet(g) = S
  BY <1>9, <1>10
<1>12. QED
  BY <1>3, <1>4, <1>5, <1>10, <1>11 DEF IsInjective

\* A list has finitely many elements.
LEMMA ListFinite == ASSUME NEW s, IsList(s) PROVE IsFiniteSet(ToSet(s))
<1>1. s \in Seq(ToSet(s)) /\ Len(s) \in Nat /\ ToSet(s) = {s[i] : i \in 1..Len(s)}
  BY ListElements
<1>2. s \in [1..Len(s) -> ToSet(s)]
  BY <1>1, LenProperties
<1>3. s \in Surjection(1..Len(s), ToSet(s))
  BY <1>1, <1>2 DEF Surjection
<1>4. IsFiniteSet(1..Len(s))
  BY <1>1, FS_Interval
<1>5. QED
  BY <1>3, <1>4, FS_Surjection

-----------------------------------------------------------------------------
(* Pages.                                                                  *)

\* The entries before a page and those before the next one.
LEMMA BeforePages ==
  ASSUME NEW p \in Nat \ {0}
  PROVE  /\ Before(p) \in Nat /\ Before(1) = 0
         /\ Before(p + 1) = p * PageSize /\ Before(p + 1) = Before(p) + PageSize
<1>1. PageSize \in Nat
  BY PageSizeAssumption
<1>2. PICK q \in Nat : p = q + 1
  <2>1. p - 1 \in Nat /\ p = (p - 1) + 1
    OBVIOUS
  <2>2. QED
    BY <2>1
<1>3. p - 1 = q /\ (p + 1) - 1 = p
  BY <1>2
<1>4. q * PageSize \in Nat /\ (q + 1) * PageSize = q * PageSize + PageSize
  BY <1>1
<1>5. Before(p) = q * PageSize /\ Before(p + 1) = p * PageSize
  BY <1>3 DEF Before
<1>6. Before(1) = 0
  BY <1>1 DEF Before
<1>7. QED
  BY <1>2, <1>4, <1>5, <1>6

\* The elements of a list between the entries before a page and before the next one.
OnPage(list, p) ==
  {list[i] : i \in {k \in 1..Len(list) : Before(p) < k /\ k <= Before(p + 1)}}

\* The elements of a page are those between the entries before it and before the
\* next one; it is full when there are enough.
LEMMA PageEntries ==
  ASSUME NEW list, IsList(list), NEW p \in Nat \ {0}
  PROVE  /\ IsList(Page(list, p))
         /\ ToSet(Page(list, p)) = OnPage(list, p)
         /\ Len(Page(list, p)) < PageSize => Len(list) <= Before(p + 1)
<1> DEFINE m == Before(p) + 1
           n == IF p * PageSize < Len(list) THEN p * PageSize ELSE Len(list)
           g == Page(list, p)
<1>1. /\ list \in Seq(ToSet(list)) /\ Len(list) \in Nat /\ ToSet(list) = {list[i] : i \in 1..Len(list)}
      /\ PageSize \in Nat \ {0}
  BY ListElements, PageSizeAssumption
<1>2. /\ Before(p) \in Nat /\ Before(p + 1) = p * PageSize /\ Before(p + 1) = Before(p) + PageSize
      /\ p * PageSize \in Nat
  <2>1. Before(p) \in Nat /\ Before(p + 1) = p * PageSize /\ Before(p + 1) = Before(p) + PageSize
    BY BeforePages
  <2>2. p * PageSize = Before(p) + PageSize
    BY <2>1
  <2>3. QED
    BY <1>1, <2>1, <2>2
<1>3. g = SubSeq(list, m, n)
  BY DEF Page, Before
<1>4. m \in Int /\ n \in Int /\ n <= Len(list) /\ 1 <= m /\ n <= p * PageSize
  BY <1>1, <1>2
<1>5. \A i \in m..n : i \in 1..Len(list)
  BY <1>1, <1>4
<1>6. \A i \in m..n : list[i] \in ToSet(list)
  BY <1>1, <1>5
<1>7. \A i \in m..n : Before(p) < i /\ i <= Before(p + 1)
  <2> HIDE DEF n
  <2>1. \A i \in m..n : i \in Int /\ Before(p) + 1 <= i /\ i <= n
    BY <1>4
  <2>2. QED
    BY <1>2, <1>4, <2>1
<1>8. \A i \in 1..Len(list) : Before(p) < i /\ i <= Before(p + 1) => i \in m..n
  BY <1>1, <1>2
<1>9. Len(list) > Before(p + 1) => m <= n /\ n - m + 1 = PageSize
  BY <1>1, <1>2
<1> HIDE DEF m, n, g
<1>10. /\ g \in Seq(ToSet(list)) /\ Len(g) = IF m <= n THEN n - m + 1 ELSE 0
       /\ \A i \in 1..(n - m + 1) : g[i] = list[m + i - 1]
  BY <1>3, <1>4, <1>6, SubSeqProperties
<1>11. IsList(g) /\ ToSet(g) = {g[i] : i \in 1..Len(g)}
  BY <1>10, SeqIsList
<1>12. ASSUME NEW x \in ToSet(g) PROVE \E i \in m..n : x = list[i]
  <2>1. PICK i \in 1..Len(g) : x = g[i]
    BY <1>11
  <2>2. m <= n /\ i \in 1..(n - m + 1)
    BY <1>4, <1>10
  <2>3. m + i - 1 \in m..n
    BY <1>4, <2>2
  <2>4. QED
    BY <1>10, <2>1, <2>2, <2>3
<1>13. ASSUME NEW i \in m..n PROVE list[i] \in ToSet(g)
  <2>1. /\ m <= n /\ i - m + 1 \in 1..(n - m + 1) /\ m + (i - m + 1) - 1 = i
    BY <1>4
  <2>2. g[i - m + 1] = list[i]
    BY <1>10, <2>1
  <2>3. i - m + 1 \in 1..Len(g)
    BY <1>10, <2>1
  <2>4. QED
    BY <1>11, <2>2, <2>3
<1>14. ToSet(g) = OnPage(list, p)
  BY <1>5, <1>7, <1>8, <1>12, <1>13 DEF OnPage
<1>15. Len(g) < PageSize => Len(list) <= Before(p + 1)
  BY <1>1, <1>2, <1>9, <1>10
<1>16. QED
  BY <1>11, <1>14, <1>15 DEF g

-----------------------------------------------------------------------------
(* The account under way.                                                  *)

\* Owners that are listed once, as the property says it and index by index.
LEMMA OwnersOnce ==
  ASSUME NEW s, IsList(s)
  PROVE  IsInjective(Mapped(s, LAMBDA t : t.owner))
           <=> \A i, j \in 1..Len(s) : s[i].owner = s[j].owner => i = j
<1>1. Mapped(s, LAMBDA t : t.owner) = [i \in 1..Len(s) |-> s[i].owner]
  BY DEF Mapped
<1>2. QED
  BY <1>1 DEF IsInjective

\* Organizations have listings, and what an account wants is what its users and the
\* organizations it does not skip hold.
LEMMA AccountFacts ==
  ASSUME NEW a, IsAccount(a)
  PROVE  /\ OrganizationsOf(a) \subseteq DOMAIN Repos
         /\ OwnersOf(a) = ToSet(a.users) \cup (OrganizationsOf(a) \ a.skip)
         /\ ToSet(a.urls) \subseteq Wanted(a)
         /\ \A o \in OwnersOf(a) : ToSet(Repos[o]) \subseteq Wanted(a)
<1>1. OrganizationsOf(a) \subseteq DOMAIN Repos
  BY ListsAssumption DEF OrganizationsOf, IsAccount
<1>2. OwnersOf(a) = ToSet(a.users) \cup (OrganizationsOf(a) \ a.skip)
  BY DEF OwnersOf, OrganizationsOf
<1>3. QED
  BY <1>1, <1>2 DEF Wanted

\* The answers to the listings of an account are lists of what it is there to return,
\* or of the organizations it is to go on with.
LEMMA TaskFacts ==
  ASSUME NEW a, IsAccount(a), NEW p \in {1, 2}, NEW t \in TasksOf(a, p)
  PROVE  /\ IsList(AnswersTo(t))
         /\ t.what = "repos" =>
              (p = 2 /\ t.owner \in a.skip) \/ ToSet(AnswersTo(t)) \subseteq Wanted(a)
         /\ t.what # "repos" => ToSet(AnswersTo(t)) \subseteq OrganizationsOf(a)
<1>1. CASE \E o : t = ListRepos(o) /\ (o \in ToSet(a.users) \/ (p = 2 /\ o \in OrganizationsOf(a)))
  <2>1. PICK o : t = ListRepos(o) /\ (o \in ToSet(a.users) \/ (p = 2 /\ o \in OrganizationsOf(a)))
    BY <1>1
  <2>2. t.what = "repos" /\ t.owner = o
    BY <2>1 DEF ListRepos
  <2>3. o \in DOMAIN Repos
    BY <2>1, AccountFacts DEF IsAccount
  <2>4. (p = 2 /\ o \in a.skip) \/ ToSet(Repos[o]) \subseteq Wanted(a)
    BY <2>1, AccountFacts
  <2>5. QED
    BY <2>2, <2>3, <2>4, ListsAssumption DEF AnswersTo
<1>2. CASE a.kind = "github" /\ \E o \in ToSet(a.users) : t = ListOrgs(o)
  <2>1. PICK o \in ToSet(a.users) : t = ListOrgs(o)
    BY <1>2
  <2>2. t.what = "orgs" /\ t.owner = o
    BY <2>1 DEF ListOrgs
  <2>3. o \in DOMAIN Discovered
    BY <1>2, <2>1 DEF IsAccount
  <2>4. ToSet(Discovered[o]) \subseteq OrganizationsOf(a)
    BY <1>2, <2>1 DEF OrganizationsOf
  <2>5. QED
    BY <2>2, <2>3, <2>4, ListsAssumption DEF AnswersTo
<1>3. CASE a.kind = "gitlab" /\ t = ListOrgs("gitlab")
  <2>1. t.what = "orgs" /\ t.owner = "gitlab"
    BY <1>3 DEF ListOrgs
  <2>2. "gitlab" \in DOMAIN Discovered
    BY <1>3 DEF IsAccount
  <2>3. ToSet(Discovered["gitlab"]) \subseteq OrganizationsOf(a)
    BY <1>3 DEF OrganizationsOf
  <2>4. QED
    BY <2>1, <2>2, <2>3, ListsAssumption DEF AnswersTo
<1>4. QED
  BY <1>1, <1>2, <1>3 DEF TasksOf, UserTasks, OrganizationTasks

\* The account under way is one of the configuration.
LEMMA AccountUnderWay ==
  ASSUME TypeOK, phase \in {1, 2}
  PROVE  IsAccount(Account) /\ current \in 1..Len(accounts)
  BY ListsAssumption DEF TypeOK, Account

\* What the composite remote has collected is not touched while an account is under way.
LEMMA CollectedKept ==
  ASSUME Collected, phase \in {1, 2}, phase' \in {1, 2}, UNCHANGED <<accounts, current, repositories>>,
         hurt \subseteq hurt'
  PROVE  Collected'
<1>1. Asked' = Asked
  BY DEF Asked
<1>2. (\A i \in Asked : i \notin hurt => Wanted(accounts[i]) \subseteq ToSet(repositories))'
  BY <1>1 DEF Collected
<1>3. (ToSet(repositories) \subseteq UNION {Wanted(accounts[i]) : i \in 1..Len(accounts)})'
  BY DEF Collected
<1>4. QED
  BY <1>2, <1>3 DEF Collected

\* The groups left when the first listing is over are still listed once.
LEMMA GroupsKept ==
  ASSUME TypeOK, GroupsOnce, UNCHANGED <<accounts, current, phase>>, tasks # <<>>,
         tasks' = tasks \/ tasks' = Tail(tasks)
  PROVE  GroupsOnce'
<1> SUFFICES ASSUME phase = 2, Account.kind = "gitlab", tasks' = Tail(tasks),
                    NEW i \in 1..Len(tasks'), NEW j \in 1..Len(tasks'), tasks'[i].owner = tasks'[j].owner
             PROVE  i = j
  BY DEF GroupsOnce, Account
<1>1. /\ Len(tasks') = Len(tasks) - 1 /\ Len(tasks) \in Nat \ {0}
      /\ \A k \in 1..Len(tasks') : tasks'[k] = tasks[k + 1]
  BY HeadAndTail DEF TypeOK
<1>2. i + 1 \in 1..Len(tasks) /\ j + 1 \in 1..Len(tasks)
  BY <1>1
<1>3. i + 1 = j + 1
  BY <1>1, <1>2 DEF GroupsOnce
<1>4. QED
  BY <1>3

-----------------------------------------------------------------------------
(* The steps.                                                              *)

\* Nothing is asked for yet.
LEMMA FetchStarts == Init => FInv
<1> SUFFICES ASSUME Init PROVE FInv
  OBVIOUS
<1>1. Len(accounts) \in Nat /\ ToSet(<<>>) = {} /\ IsList(<<>>)
  BY ListsAssumption, ListElements, EmptyList DEF Init
<1>2. TypeOK
  BY <1>1 DEF Init, TypeOK
<1>3. Collected
  BY <1>1 DEF Init, Collected, Asked
<1>4. QED
  BY <1>2, <1>3 DEF Init, FInv, WithinAccount, NothingMissed, GroupsOnce

\* An account is opened with its URLs, its organizations and the listings of its users.
LEMMA OpenAccountKeeps == ASSUME FInv, OpenAccount PROVE FInv'
<1>1. PICK a : a = accounts[current + 1]
  OBVIOUS
<1>2. /\ phase = 0 /\ current < Len(accounts) /\ current' = current + 1 /\ phase' = 1 /\ page' = 1
      /\ tasks' = FirstTasks(a) /\ organizations' = a.organizations /\ fetched' = a.urls
      /\ UNCHANGED <<accounts, repositories, failures, hurt>>
  BY <1>1 DEF OpenAccount, StaticRepositories
<1>3. Len(accounts) \in Nat /\ current \in 0..Len(accounts) /\ accounts \in Configurations
  BY ListsAssumption, ListElements DEF FInv, TypeOK
<1>4. current' \in 1..Len(accounts) /\ Account' = a /\ IsAccount(a)
  BY <1>1, <1>2, <1>3, ListsAssumption DEF Account
<1>5. IsList(tasks') /\ ToSet(tasks') = UserTasks(a)
  BY <1>2, <1>4, FirstListings
<1>6. TypeOK'
  BY <1>2, <1>3, <1>4, <1>5 DEF FInv, TypeOK, IsAccount
<1>7. WithinAccount'
  <2>1. ToSet(a.organizations) \subseteq OrganizationsOf(a) /\ ToSet(a.urls) \subseteq Wanted(a)
    BY <1>4, AccountFacts DEF OrganizationsOf
  <2>2. ToSet(tasks') \subseteq TasksOf(a, 1)
    BY <1>5 DEF TasksOf
  <2>3. QED
    BY <1>2, <1>4, <2>1, <2>2 DEF WithinAccount
<1>8. NothingMissed'
  <2>1. PagesBehind'
    <3>1. Before(page') = 0
      BY <1>2, BeforePages
    <3>2. \A i \in 1..Len(Answers') : ~(i <= 0)
      OBVIOUS
    <3>3. QED
      BY <3>1, <3>2 DEF PagesBehind
  <2>2. \A t \in TasksOf(a, 1) : t \in ToSet(tasks')
    BY <1>5 DEF TasksOf
  <2>3. QED
    BY <1>2, <1>4, <2>1, <2>2 DEF NothingMissed, Accounted
<1>9. Collected'
  <2>1. Asked' = Asked
    BY <1>2, <1>3 DEF Asked
  <2>2. (\A i \in Asked : i \notin hurt => Wanted(accounts[i]) \subseteq ToSet(repositories))'
    BY <1>2, <2>1 DEF FInv, Collected
  <2>3. (ToSet(repositories) \subseteq UNION {Wanted(accounts[i]) : i \in 1..Len(accounts)})'
    BY <1>2 DEF FInv, Collected
  <2>4. QED
    BY <2>2, <2>3 DEF Collected
<1>10. GroupsOnce'
  BY <1>2 DEF GroupsOnce
<1>11. QED
  BY <1>6, <1>7, <1>8, <1>9, <1>10 DEF FInv

\* When the listings of the users are over every organization is known, and becomes
\* a listing; a group of gitlab only one.
LEMMA NextPhaseKeeps == ASSUME FInv, NextPhase PROVE FInv'
<1>1. PICK a : a = Account
  OBVIOUS
<1>2. PICK s : s = Known(organizations)
  OBVIOUS
<1>3. /\ phase = 1 /\ tasks = <<>> /\ phase' = 2 /\ page' = 1 /\ tasks' = Mapped(s, ListRepos)
      /\ UNCHANGED <<accounts, current, organizations, fetched, repositories, failures, hurt>>
      /\ Account' = a
  BY <1>1, <1>2 DEF NextPhase, Account
<1>4. IsAccount(a) /\ current \in 1..Len(accounts) /\ IsList(organizations)
  BY <1>1, <1>3, AccountUnderWay DEF FInv, TypeOK
<1>5. /\ IsList(s) /\ ToSet(s) = ToSet(organizations)
      /\ a.kind = "gitlab" => \A i, j \in 1..Len(s) : s[i] = s[j] => i = j
  <2>1. CASE a.kind = "gitlab"
    <3>1. s = SetToSeq(ToSet(organizations))
      BY <1>1, <1>2, <2>1 DEF Known
    <3>2. QED
      BY <1>4, <3>1, ListFinite, ListOfSet
  <2>2. CASE a.kind # "gitlab"
    BY <1>1, <1>2, <1>4, <2>2 DEF Known
  <2>3. QED
    BY <2>1, <2>2
<1>6. /\ IsList(tasks') /\ ToSet(tasks') = {ListRepos(o) : o \in ToSet(organizations)}
      /\ Len(tasks') = Len(s) /\ \A i \in 1..Len(s) : tasks'[i].owner = s[i]
  BY <1>3, <1>5, MappedRepos
<1>7. TypeOK'
  BY <1>3, <1>4, <1>6 DEF FInv, TypeOK
<1>8. WithinAccount'
  <2>1. ToSet(organizations) \subseteq OrganizationsOf(a) /\ ToSet(fetched) \subseteq Wanted(a)
    BY <1>1, <1>3 DEF FInv, WithinAccount
  <2>2. ToSet(tasks') \subseteq TasksOf(a, 2)
    BY <1>6, <2>1 DEF TasksOf, OrganizationTasks
  <2>3. QED
    BY <1>3, <2>1, <2>2 DEF WithinAccount
<1>9. NothingMissed'
  <2> SUFFICES ASSUME current \notin hurt PROVE NothingMissed'
    BY <1>3 DEF NothingMissed
  <2>1. /\ ToSet(a.urls) \subseteq ToSet(fetched)
        /\ ToSet(a.organizations) \subseteq ToSet(organizations)
        /\ \A t \in UserTasks(a) : Accounted(t)
    BY <1>1, <1>3 DEF FInv, NothingMissed, TasksOf
  <2>2. ASSUME NEW t \in UserTasks(a) PROVE ToSet(AnswersTo(t)) \subseteq Into(t)
    BY <1>3, <2>1, EmptyList DEF Accounted
  <2>3. ASSUME NEW u \in ToSet(a.users) PROVE ToSet(Repos[u]) \subseteq ToSet(fetched)
    <3>1. ListRepos(u) \in UserTasks(a)
      BY DEF UserTasks
    <3>2. ToSet(AnswersTo(ListRepos(u))) \subseteq Into(ListRepos(u))
      BY <2>2, <3>1
    <3>3. QED
      BY <3>2 DEF AnswersTo, Into, ListRepos
  <2>4. ASSUME NEW u, ListOrgs(u) \in UserTasks(a) PROVE ToSet(Discovered[u]) \subseteq ToSet(organizations)
    <3>1. ToSet(AnswersTo(ListOrgs(u))) \subseteq Into(ListOrgs(u))
      BY <2>2, <2>4
    <3>2. QED
      BY <3>1 DEF AnswersTo, Into, ListOrgs
  <2>5. OrganizationsOf(a) \subseteq ToSet(organizations)
    BY <2>1, <2>4 DEF OrganizationsOf, UserTasks
  <2>6. \A t \in TasksOf(a, 2) : t \in ToSet(tasks')
    BY <1>6, <2>5 DEF TasksOf, OrganizationTasks
  <2>7. PagesBehind'
    <3>1. Before(page') = 0
      BY <1>3, BeforePages
    <3>2. \A i \in 1..Len(Answers') : ~(i <= 0)
      OBVIOUS
    <3>3. QED
      BY <3>1, <3>2 DEF PagesBehind
  <2>8. QED
    BY <1>3, <2>1, <2>3, <2>6, <2>7 DEF NothingMissed, Accounted
<1>10. Collected'
  BY <1>3, CollectedKept DEF FInv
<1>11. GroupsOnce'
  BY <1>3, <1>5, <1>6 DEF GroupsOnce
<1>12. QED
  BY <1>7, <1>8, <1>9, <1>10, <1>11 DEF FInv

\* A listing ends without its last pages because a call of it failed, or because its
\* organization is skipped.
LEMMA GivesUpKeeps ==
  ASSUME FInv, phase \in {1, 2}, tasks # <<>>, ListingOver,
         UNCHANGED <<accounts, current, phase, organizations, fetched, repositories>>,
         hurt \subseteq hurt', current \in hurt' \/ Skipped
  PROVE  FInv'
<1>1. PICK a : a = Account
  OBVIOUS
<1>2. tasks' = Tail(tasks) /\ page' = 1 /\ Account' = a
  BY <1>1 DEF ListingOver, Account
<1>3. /\ IsList(tasks') /\ Head(tasks) \in ToSet(tasks)
      /\ ToSet(tasks) = ToSet(tasks') \cup {Head(tasks)}
  BY <1>2, HeadAndTail DEF FInv, TypeOK
<1>4. TypeOK'
  BY <1>2, <1>3 DEF FInv, TypeOK
<1>5. WithinAccount'
  BY <1>1, <1>2, <1>3 DEF FInv, WithinAccount
<1>6. NothingMissed'
  <2> SUFFICES ASSUME current \notin hurt' PROVE NothingMissed'
    BY DEF NothingMissed
  <2>1. current \notin hurt /\ Skipped
    OBVIOUS
  <2>2. PagesBehind'
    <3>1. Before(page') = 0
      BY <1>2, BeforePages
    <3>2. \A i \in 1..Len(Answers') : ~(i <= 0)
      OBVIOUS
    <3>3. QED
      BY <3>1, <3>2 DEF PagesBehind
  <2>3. ASSUME NEW t \in TasksOf(a, phase) PROVE Accounted(t)'
    <3>1. Accounted(t)
      BY <1>1, <2>1 DEF FInv, NothingMissed
    <3>2. t = Head(tasks) => t.owner \in a.skip /\ phase = 2
      BY <1>1, <2>1 DEF Skipped
    <3>3. QED
      BY <1>1, <1>2, <1>3, <3>1, <3>2 DEF Accounted, Into
  <2>4. /\ ToSet(a.urls) \subseteq ToSet(fetched) /\ ToSet(a.organizations) \subseteq ToSet(organizations)
        /\ phase = 2 => \A u \in ToSet(a.users) : ToSet(Repos[u]) \subseteq ToSet(fetched)
    BY <1>1, <2>1 DEF FInv, NothingMissed
  <2>5. QED
    BY <1>2, <2>2, <2>3, <2>4 DEF NothingMissed
<1>7. Collected'
  BY CollectedKept DEF FInv
<1>8. GroupsOnce'
  BY <1>2, GroupsKept DEF FInv
<1>9. QED
  BY <1>4, <1>5, <1>6, <1>7, <1>8 DEF FInv

\* A page arrives: its entries are behind the listing, and when it was the last one all
\* entries of the listing are.
LEMMA ArrivesKeeps ==
  ASSUME FInv, phase \in {1, 2}, tasks # <<>>, ~Skipped,
         NEW last \in BOOLEAN, Arrives(last), last => Len(Answers) <= Before(page + 1)
  PROVE  FInv'
<1>1. PICK a : a = Account
  OBVIOUS
<1>2. PICK t : t = Head(tasks)
  OBVIOUS
<1>3. PICK entries : entries = Page(Answers, page)
  OBVIOUS
<1>4. /\ UNCHANGED <<accounts, current, phase, repositories, failures, hurt>> /\ Account' = a
      /\ t.what = "repos" => fetched' = fetched \o entries /\ organizations' = organizations
      /\ t.what # "repos" => organizations' = organizations \o entries /\ fetched' = fetched
      /\ last => tasks' = Tail(tasks) /\ page' = 1
      /\ ~last => tasks' = tasks /\ page' = page + 1
  BY <1>1, <1>2, <1>3 DEF Arrives, ListingOver, NextPage, Account
<1>5. /\ IsAccount(a) /\ current \in 1..Len(accounts) /\ page \in Nat \ {0}
      /\ IsList(tasks) /\ IsList(organizations) /\ IsList(fetched)
  BY <1>1, AccountUnderWay DEF FInv, TypeOK
<1>6. /\ t \in ToSet(tasks) /\ ToSet(tasks) = ToSet(Tail(tasks)) \cup {t} /\ IsList(Tail(tasks))
  BY <1>2, <1>5, HeadAndTail
<1>7. t \in TasksOf(a, phase)
  BY <1>1, <1>6 DEF FInv, WithinAccount
<1>8. Answers = AnswersTo(t)
  BY <1>2 DEF Answers, AnswersTo
<1>9. ~(phase = 2 /\ t.owner \in a.skip)
  BY <1>1, <1>2 DEF Skipped
<1>10. /\ IsList(AnswersTo(t))
       /\ t.what = "repos" => ToSet(AnswersTo(t)) \subseteq Wanted(a)
       /\ t.what # "repos" => ToSet(AnswersTo(t)) \subseteq OrganizationsOf(a)
  BY <1>5, <1>7, <1>9, TaskFacts
<1>11. PICK answers : answers = AnswersTo(t) /\ IsList(answers)
  BY <1>10
<1>12. /\ IsList(entries)
       /\ ToSet(entries) = {answers[i] : i \in {k \in 1..Len(answers) : Before(page) < k /\ k <= Before(page + 1)}}
  <2>1. entries = Page(answers, page)
    BY <1>3, <1>8, <1>11
  <2>2. PICK p \in Nat \ {0} : p = page
    BY <1>5
  <2>3. /\ IsList(Page(answers, p))
        /\ ToSet(Page(answers, p)) = OnPage(answers, p)
    BY <1>11, PageEntries
  <2>4. QED
    BY <2>1, <2>2, <2>3 DEF OnPage
<1>13. ToSet(answers) = {answers[i] : i \in 1..Len(answers)} /\ Len(answers) \in Nat
  BY <1>11, ListElements
<1>14. ToSet(entries) \subseteq ToSet(answers)
  BY <1>12, <1>13
<1>15. /\ IsList(fetched') /\ IsList(organizations')
       /\ ToSet(fetched') = ToSet(fetched) \cup (IF t.what = "repos" THEN ToSet(entries) ELSE {})
       /\ ToSet(organizations') =
            ToSet(organizations) \cup (IF t.what = "repos" THEN {} ELSE ToSet(entries))
  BY <1>4, <1>5, <1>12, ConcatLists
<1>16. /\ IsList(tasks') /\ page' \in Nat \ {0}
       /\ ToSet(tasks') \subseteq ToSet(tasks) /\ (~last => ToSet(tasks') = ToSet(tasks))
       /\ \A x \in ToSet(tasks) : x # t => x \in ToSet(tasks')
  <2>1. CASE last
    <3>1. tasks' = Tail(tasks) /\ page' = 1
      BY <1>4, <2>1
    <3>2. ToSet(tasks') \subseteq ToSet(tasks) /\ \A x \in ToSet(tasks) : x # t => x \in ToSet(tasks')
      BY <1>6, <3>1
    <3>3. QED
      BY <1>6, <2>1, <3>1, <3>2
  <2>2. CASE ~last
    BY <1>4, <1>5, <2>2
  <2>3. QED
    BY <2>1, <2>2
<1>17. TypeOK'
  BY <1>4, <1>15, <1>16 DEF FInv, TypeOK
<1>18. WithinAccount'
  BY <1>1, <1>4, <1>10, <1>11, <1>14, <1>15, <1>16 DEF FInv, WithinAccount
<1>19. NothingMissed'
  <2> SUFFICES ASSUME current \notin hurt PROVE NothingMissed'
    BY <1>4 DEF NothingMissed
  <2>1. /\ PagesBehind
        /\ ToSet(a.urls) \subseteq ToSet(fetched) /\ ToSet(a.organizations) \subseteq ToSet(organizations)
        /\ \A x \in TasksOf(a, phase) : Accounted(x)
        /\ phase = 2 => \A u \in ToSet(a.users) : ToSet(Repos[u]) \subseteq ToSet(fetched)
    BY <1>1 DEF FInv, NothingMissed
  <2>2. PICK into : into = Into(t)'
    OBVIOUS
  <2>3. Into(t) \subseteq into /\ ToSet(entries) \subseteq into
    BY <1>15, <2>2 DEF Into
  <2>4. ASSUME NEW i \in 1..Len(answers), i <= Before(page + 1) PROVE answers[i] \in into
    <3>1. Before(page) \in Nat
      BY <1>5, BeforePages
    <3>2. CASE i <= Before(page)
      BY <1>2, <1>8, <1>11, <2>1, <2>3, <3>2 DEF PagesBehind
    <3>3. CASE ~(i <= Before(page))
      <4>1. Before(page) < i
        BY <1>13, <3>1, <3>3
      <4>2. answers[i] \in ToSet(entries)
        BY <1>12, <2>4, <4>1
      <4>3. QED
        BY <2>3, <4>2
    <3>4. QED
      BY <3>2, <3>3
  <2>5. PagesBehind'
    <3>1. CASE last
      <4>1. page' = 1
        BY <1>4, <3>1
      <4>2. Before(page') = 0
        BY <4>1, BeforePages
      <4>3. \A i \in 1..Len(Answers') : ~(i <= 0)
        OBVIOUS
      <4>4. QED
        BY <4>2, <4>3 DEF PagesBehind
    <3>2. CASE ~last
      <4>1. Head(tasks') = t /\ Answers' = answers /\ page' = page + 1
        BY <1>2, <1>4, <1>8, <1>11, <3>2 DEF Answers, AnswersTo
      <4>2. Into(Head(tasks))' = into
        BY <2>2, <4>1 DEF Into
      <4>3. \A i \in 1..Len(Answers') : i <= Before(page') => Answers'[i] \in Into(Head(tasks))'
        BY <2>4, <4>1, <4>2
      <4>4. QED
        BY <4>3 DEF PagesBehind
    <3>3. QED
      BY <3>1, <3>2
  <2>6. ASSUME NEW x \in TasksOf(a, phase) PROVE Accounted(x)'
    <3>1. Into(x) \subseteq Into(x)'
      BY <1>15 DEF Into
    <3>2. CASE x = t /\ last
      <4>1. \A i \in 1..Len(answers) : i <= Before(page + 1)
        BY <1>5, <1>8, <1>11, <1>13, <3>2, BeforePages
      <4>2. ToSet(answers) \subseteq into
        BY <1>13, <2>4, <4>1
      <4>3. QED
        BY <1>11, <2>2, <3>2, <4>2 DEF Accounted
    <3>3. CASE ~(x = t /\ last)
      <4>1. x \in ToSet(tasks) => x \in ToSet(tasks')
        BY <1>16, <3>3
      <4>2. Accounted(x)
        BY <2>1
      <4>3. QED
        BY <1>1, <1>4, <3>1, <4>1, <4>2 DEF Accounted
    <3>4. QED
      BY <3>2, <3>3
  <2>7. QED
    BY <1>4, <1>15, <2>1, <2>5, <2>6 DEF NothingMissed
<1>20. Collected'
  BY <1>4, CollectedKept DEF FInv
<1>21. GroupsOnce'
  BY <1>4, GroupsKept DEF FInv
<1>22. QED
  BY <1>17, <1>18, <1>19, <1>20, <1>21 DEF FInv

\* The page that does not come is left out; the account has a failed call.
LEMMA BitbucketFailsKeeps == ASSUME FInv, BitbucketFails PROVE FInv'
<1>1. /\ UNCHANGED <<accounts, current, phase, tasks, organizations, fetched, repositories>>
      /\ phase \in {1, 2} /\ tasks # <<>> /\ page' \in {1, page + 1} /\ hurt' = hurt \cup {current}
      /\ Account' = Account
  BY DEF BitbucketFails, Listing, Fails, Account
<1>2. TypeOK'
  BY <1>1 DEF FInv, TypeOK
<1>3. WithinAccount' /\ NothingMissed'
  BY <1>1 DEF FInv, WithinAccount, NothingMissed
<1>4. Collected' /\ GroupsOnce'
  BY <1>1, CollectedKept, GroupsKept DEF FInv
<1>5. QED
  BY <1>2, <1>3, <1>4 DEF FInv

\* An account that fails leaves nothing behind but its mark.
LEMMA GenericFailsKeeps == ASSUME FInv, GenericFails PROVE FInv'
<1>1. /\ UNCHANGED <<accounts, current, repositories>> /\ phase \in {1, 2} /\ phase' = 0 /\ page' = 1
      /\ tasks' = <<>> /\ fetched' = <<>> /\ organizations' = <<>> /\ hurt' = hurt \cup {current}
  BY DEF GenericFails, Listing, Fails
<1>2. TypeOK'
  BY <1>1, EmptyList DEF FInv, TypeOK
<1>3. WithinAccount' /\ NothingMissed' /\ GroupsOnce'
  BY <1>1 DEF WithinAccount, NothingMissed, GroupsOnce
<1>4. Collected'
  <2>1. Asked' \subseteq Asked \cup {current}
    BY <1>1 DEF Asked
  <2>2. (\A i \in Asked : i \notin hurt => Wanted(accounts[i]) \subseteq ToSet(repositories))'
    BY <1>1, <2>1 DEF FInv, Collected
  <2>3. (ToSet(repositories) \subseteq UNION {Wanted(accounts[i]) : i \in 1..Len(accounts)})'
    BY <1>1 DEF FInv, Collected
  <2>4. QED
    BY <2>2, <2>3 DEF Collected
<1>5. QED
  BY <1>2, <1>3, <1>4 DEF FInv

\* An account without tasks has what it wants, and nothing else, and returns it.
LEMMA CloseAccountKeeps == ASSUME FInv, CloseAccount PROVE FInv'
<1>1. PICK a : a = Account
  OBVIOUS
<1>2. /\ phase = 2 /\ tasks = <<>> /\ phase' = 0 /\ repositories' = repositories \o fetched
      /\ fetched' = <<>> /\ organizations' = <<>>
      /\ UNCHANGED <<accounts, current, tasks, page, failures, hurt>>
  BY DEF CloseAccount
<1>3. /\ IsAccount(a) /\ current \in 1..Len(accounts) /\ a = accounts[current]
      /\ IsList(repositories) /\ IsList(fetched)
  BY <1>1, <1>2, AccountUnderWay DEF FInv, TypeOK, Account
<1>4. IsList(repositories') /\ ToSet(repositories') = ToSet(repositories) \cup ToSet(fetched)
  BY <1>2, <1>3, ConcatLists
<1>5. ToSet(fetched) \subseteq Wanted(a)
  BY <1>1, <1>2 DEF FInv, WithinAccount
<1>6. ASSUME current \notin hurt PROVE Wanted(a) \subseteq ToSet(fetched)
  <2>1. /\ ToSet(a.urls) \subseteq ToSet(fetched)
        /\ \A t \in TasksOf(a, 2) : Accounted(t)
        /\ \A u \in ToSet(a.users) : ToSet(Repos[u]) \subseteq ToSet(fetched)
    BY <1>1, <1>2, <1>6 DEF FInv, NothingMissed
  <2>2. ASSUME NEW o \in OrganizationsOf(a), o \notin a.skip PROVE ToSet(Repos[o]) \subseteq ToSet(fetched)
    <3>1. ListRepos(o) \in TasksOf(a, 2) /\ ListRepos(o).owner = o /\ ListRepos(o).what = "repos"
      BY DEF TasksOf, OrganizationTasks, ListRepos
    <3>2. ListRepos(o) \notin ToSet(tasks)
      BY <1>2, EmptyList
    <3>3. ToSet(AnswersTo(ListRepos(o))) \subseteq Into(ListRepos(o))
      BY <1>1, <2>1, <2>2, <3>1, <3>2 DEF Accounted
    <3>4. QED
      BY <3>1, <3>3 DEF AnswersTo, Into
  <2>3. OwnersOf(a) = ToSet(a.users) \cup (OrganizationsOf(a) \ a.skip)
    BY <1>3, AccountFacts
  <2>4. \A o \in OwnersOf(a) : ToSet(Repos[o]) \subseteq ToSet(fetched)
    BY <2>1, <2>2, <2>3
  <2>5. QED
    BY <2>1, <2>4 DEF Wanted
<1>7. TypeOK'
  BY <1>2, <1>4, EmptyList DEF FInv, TypeOK
<1>8. WithinAccount' /\ NothingMissed' /\ GroupsOnce'
  BY <1>2 DEF WithinAccount, NothingMissed, GroupsOnce
<1>9. Collected'
  <2>1. Asked' \subseteq Asked \cup {current}
    BY <1>2 DEF Asked
  <2>2. ASSUME NEW i \in Asked', i \notin hurt PROVE Wanted(accounts[i]) \subseteq ToSet(repositories')
    <3>1. CASE i = current
      BY <1>3, <1>4, <1>6, <2>2, <3>1
    <3>2. CASE i \in Asked
      BY <1>4, <2>2, <3>2 DEF FInv, Collected
    <3>3. QED
      BY <2>1, <2>2, <3>1, <3>2
  <2>3. Wanted(a) \subseteq UNION {Wanted(accounts[i]) : i \in 1..Len(accounts)}
    BY <1>3
  <2>4. ToSet(repositories') \subseteq UNION {Wanted(accounts[i]) : i \in 1..Len(accounts)}
    BY <1>4, <1>5, <2>3 DEF FInv, Collected
  <2>5. QED
    BY <1>2, <2>2, <2>4 DEF Collected
<1>10. QED
  BY <1>7, <1>8, <1>9 DEF FInv

\* Every account has been asked.
LEMMA AllDoneKeeps == ASSUME FInv, AllDone PROVE FInv'
<1>1. /\ phase = 0 /\ current = Len(accounts) /\ phase' = 3
      /\ UNCHANGED <<accounts, current, tasks, page, organizations, fetched, repositories, failures, hurt>>
  BY DEF AllDone
<1>2. TypeOK'
  BY <1>1 DEF FInv, TypeOK
<1>3. WithinAccount' /\ NothingMissed' /\ GroupsOnce'
  BY <1>1 DEF WithinAccount, NothingMissed, GroupsOnce
<1>4. Asked' = Asked
  BY <1>1 DEF Asked
<1>5. (\A i \in Asked : i \notin hurt => Wanted(accounts[i]) \subseteq ToSet(repositories))'
  BY <1>1, <1>4 DEF FInv, Collected
<1>6. (ToSet(repositories) \subseteq UNION {Wanted(accounts[i]) : i \in 1..Len(accounts)})'
  BY <1>1 DEF FInv, Collected
<1>7. QED
  BY <1>2, <1>3, <1>5, <1>6 DEF FInv, Collected

\* Every step keeps the invariant.
LEMMA FetchKeeps == FInv /\ [Next]_vars => FInv'
<1> SUFFICES ASSUME FInv, [Next]_vars PROVE FInv'
  OBVIOUS
<1>1. CASE OpenAccount \/ NextPhase \/ CloseAccount \/ AllDone \/ BitbucketFails \/ GenericFails
  BY <1>1, OpenAccountKeeps, NextPhaseKeeps, CloseAccountKeeps, AllDoneKeeps, BitbucketFailsKeeps,
     GenericFailsKeeps
<1>2. CASE SkipOrganization
  BY <1>2, GivesUpKeeps DEF SkipOrganization, Skipped
<1>3. CASE GithubFails \/ GitlabFails \/ GenericNotFound
  BY <1>3, GivesUpKeeps DEF GithubFails, GitlabFails, GenericNotFound, Listing, Fails
<1>4. CASE GithubPage \/ GitlabPage
  <2>1. phase \in {1, 2} /\ tasks # <<>> /\ ~Skipped /\ Arrives(NoNextPage)
    BY <1>4 DEF GithubPage, GitlabPage, Listing
  <2>2. page \in Nat \ {0} /\ Len(Answers) \in Nat
    <3>1. IsAccount(Account) /\ IsList(tasks) /\ page \in Nat \ {0}
      BY <2>1, AccountUnderWay DEF FInv, TypeOK
    <3>2. Head(tasks) \in TasksOf(Account, phase)
      BY <2>1, <3>1, HeadAndTail DEF FInv, WithinAccount
    <3>3. IsList(AnswersTo(Head(tasks)))
      BY <2>1, <3>1, <3>2, TaskFacts
    <3>4. QED
      BY <3>1, <3>3, ListElements DEF Answers, AnswersTo
  <2>3. NoNextPage => Len(Answers) <= Before(page + 1)
    <3>1. /\ Before(page) \in Nat /\ Before(page + 1) = page * PageSize
          /\ Before(page + 1) = Before(page) + PageSize
      BY <2>2, BeforePages
    <3>2. Before(page + 1) \in Nat
      BY <3>1, PageSizeAssumption
    <3>3. QED
      BY <2>2, <3>1, <3>2 DEF NoNextPage
  <2>4. NoNextPage \in BOOLEAN
    BY DEF NoNextPage
  <2>5. QED
    BY <2>1, <2>3, <2>4, ArrivesKeeps
<1>5. CASE BitbucketPage \/ GenericPage
  <2>1. phase \in {1, 2} /\ tasks # <<>> /\ ~Skipped /\ Arrives(PageNotFull)
    BY <1>5 DEF BitbucketPage, GenericPage, Listing
  <2>2. page \in Nat \ {0} /\ IsList(Answers)
    <3>1. IsAccount(Account) /\ IsList(tasks) /\ page \in Nat \ {0}
      BY <2>1, AccountUnderWay DEF FInv, TypeOK
    <3>2. Head(tasks) \in TasksOf(Account, phase)
      BY <2>1, <3>1, HeadAndTail DEF FInv, WithinAccount
    <3>3. IsList(AnswersTo(Head(tasks)))
      BY <2>1, <3>1, <3>2, TaskFacts
    <3>4. QED
      BY <3>1, <3>3 DEF Answers, AnswersTo
  <2>3. PageNotFull => Len(Answers) <= Before(page + 1)
    BY <2>2, PageEntries DEF PageNotFull
  <2>4. PageNotFull \in BOOLEAN
    BY DEF PageNotFull
  <2>5. QED
    BY <2>1, <2>3, <2>4, ArrivesKeeps
<1>6. CASE UNCHANGED vars
  <2>1. /\ UNCHANGED <<accounts, current, phase, tasks, page, organizations, fetched, repositories, hurt>>
        /\ Account' = Account
    BY <1>6 DEF vars, Account
  <2>2. TypeOK' /\ WithinAccount' /\ GroupsOnce'
    BY <2>1 DEF FInv, TypeOK, WithinAccount, GroupsOnce
  <2>3. NothingMissed'
    <3>1. PagesBehind => PagesBehind'
      BY <2>1 DEF PagesBehind, Answers, Into
    <3>2. \A t : Accounted(t) => Accounted(t)'
      BY <2>1 DEF Accounted, Into
    <3>3. QED
      BY <2>1, <3>1, <3>2 DEF FInv, NothingMissed
  <2>4. Collected'
    BY <2>1 DEF FInv, Collected, Asked
  <2>5. QED
    BY <2>2, <2>3, <2>4 DEF FInv
<1>7. QED
  BY <1>1, <1>2, <1>3, <1>4, <1>5, <1>6 DEF Next

\* Once every account is asked, what is collected is what FetchExact asks for.
LEMMA FetchIsExact == FInv => FetchExact
<1> SUFFICES ASSUME FInv PROVE FetchExact
  OBVIOUS
<1>1. ASSUME phase = 3
      PROVE  /\ \A i \in 1..Len(accounts) :
                  i \notin hurt => Wanted(accounts[i]) \subseteq ToSet(repositories)
             /\ ToSet(repositories) \subseteq UNION {Wanted(accounts[i]) : i \in 1..Len(accounts)}
  <2>1. Len(accounts) \in Nat /\ current = Len(accounts)
    BY <1>1, ListsAssumption, ListElements DEF FInv, TypeOK
  <2>2. Asked = 1..Len(accounts)
    BY <1>1, <2>1 DEF Asked
  <2>3. QED
    BY <2>2 DEF FInv, Collected
<1>2. ASSUME phase = 2, Account.kind = "gitlab"
      PROVE  IsInjective(Mapped(tasks, LAMBDA t : t.owner))
  <2>1. IsList(tasks) /\ \A i, j \in 1..Len(tasks) : tasks[i].owner = tasks[j].owner => i = j
    BY <1>2 DEF FInv, TypeOK, GroupsOnce
  <2>2. QED
    BY <2>1, OwnersOnce
<1>3. QED
  BY <1>1, <1>2 DEF FetchExact

\* FetchRepositories, whatever is configured, listed and failing: an account without a
\* failed call misses no page and no organization, no URL comes in that no account
\* asks for, and a gitlab group is listed once.
THEOREM FetchesExactly == Spec => []FetchExact
  BY FetchStarts, FetchKeeps, FetchIsExact, PTL DEF Spec
=============================================================================
