------------------------------- MODULE Remotes -------------------------------
(***************************************************************************)
(* FetchRepositories of the indexer's remotes (indexer/internal/remotes):  *)
(* a composite remote asks one remote per configured account, and each of  *)
(* them lists the repositories of its users and of its organizations       *)
(* (teams, groups) page by page.  The kinds differ in how a listing ends,  *)
(* in what they do when a page cannot be fetched, and in where they get    *)
(* their organizations from.                                               *)
(***************************************************************************)
EXTENDS Naturals, Sequences, SequencesExt

CONSTANTS Configurations,  \* lists of accounts
          Repos,           \* Repos[o]: the URLs the provider holds for owner o
          Discovered,      \* Discovered[o]: what listing organizations from o returns
          Unknown,         \* the owners whose listings the provider always refuses: not
                           \* there (a 404), or not for these credentials
          PageSize,        \* repositories, or organizations, on a full page
          MaxFailures,     \* how many of the other calls to the providers fail
          MaxPage          \* up to where the pages of a refused listing are counted

VARIABLES accounts,        \* the configured accounts
          current,         \* the one being asked, 0 before the first
          phase,           \* 0: between accounts, 1: users, 2: organizations, 3: all done
          tasks,           \* the listings this phase has yet to finish
          page,            \* the page the first of them asks for next
          organizations,   \* the organizations known for the second phase
          fetched,         \* the URLs the current account has returned so far
          repositories,    \* the URLs of the accounts before it
          failures,        \* how many calls that could have been answered have failed
          hurt             \* the accounts with a failed call

vars == <<accounts, current, phase, tasks, page, organizations, fetched,
          repositories, failures, hurt>>

ASSUME PageSizeAssumption == PageSize \in Nat \ {0} /\ MaxPage \in Nat \ {0}

IsList(s) == s \in Seq(ToSet(s))

\* What a configuration holds of an account.
IsAccount(a) ==
  /\ IsList(a.users) /\ IsList(a.organizations) /\ IsList(a.urls)
  /\ ToSet(a.users) \cup ToSet(a.organizations) \subseteq DOMAIN Repos
  /\ a.kind = "github" => ToSet(a.users) \subseteq DOMAIN Discovered
  /\ a.kind = "gitlab" => "gitlab" \in DOMAIN Discovered

\* Every owner, configured or discovered, has a list; that of an unknown one is never
\* answered.
ASSUME ListsAssumption ==
  /\ \A c \in Configurations : IsList(c) /\ \A i \in 1..Len(c) : IsAccount(c[i])
  /\ \A o \in DOMAIN Repos : IsList(Repos[o])
  /\ \A o \in DOMAIN Discovered : IsList(Discovered[o]) /\ ToSet(Discovered[o]) \subseteq DOMAIN Repos

Account == accounts[current]

ListRepos(o) == [what |-> "repos", owner |-> o]
ListOrgs(o) == [what |-> "orgs", owner |-> o]

Page(list, p) ==
  SubSeq(list, (p - 1) * PageSize + 1, IF p * PageSize < Len(list) THEN p * PageSize ELSE Len(list))

Mapped(s, op(_)) == [i \in 1..Len(s) |-> op(s[i])]

Init ==
  /\ accounts \in Configurations
  /\ current = 0 /\ phase = 0 /\ tasks = <<>> /\ page = 1
  /\ organizations = <<>> /\ fetched = <<>> /\ repositories = <<>>
  /\ failures = 0 /\ hurt = {}

\* The listings of the first phase: github lists the organizations of each user
\* before the user's repositories, gitlab all groups before everything else.
GithubTasks(users) ==
  [i \in 1..(2 * Len(users)) |->
     IF i % 2 = 1 THEN ListOrgs(users[(i + 1) \div 2]) ELSE ListRepos(users[i \div 2])]

GitlabTasks(users) == <<ListOrgs("gitlab")>> \o Mapped(users, ListRepos)

FirstTasks(a) ==
  CASE a.kind = "github" -> GithubTasks(a.users)
    [] a.kind = "gitlab" -> GitlabTasks(a.users)
    [] OTHER -> Mapped(a.users, ListRepos)

\* The URLs of a static account are there at once.
StaticRepositories(a) == a.urls

\* The composite remote asks the next account.
OpenAccount ==
  /\ phase = 0 /\ current < Len(accounts)
  /\ current' = current + 1
  /\ phase' = 1 /\ page' = 1
  /\ tasks' = FirstTasks(accounts[current + 1])
  /\ organizations' = accounts[current + 1].organizations
  /\ fetched' = StaticRepositories(accounts[current + 1])
  /\ UNCHANGED <<accounts, repositories, failures, hurt>>

\* The organizations of the second phase: gitlab keeps groups in a map, the others
\* take their list as it is, repetitions included.
Known(s) == IF Account.kind = "gitlab" THEN SetToSeq(ToSet(s)) ELSE s

NextPhase ==
  /\ phase = 1 /\ tasks = <<>>
  /\ phase' = 2 /\ page' = 1
  /\ tasks' = Mapped(Known(organizations), ListRepos)
  /\ UNCHANGED <<accounts, current, organizations, fetched, repositories, failures, hurt>>

\* The organization whose turn it is is one the account skips.
Skipped == phase = 2 /\ tasks # <<>> /\ Head(tasks).owner \in Account.skip

\* A listing of an account of this kind is under way.
Listing(kind) == phase \in {1, 2} /\ tasks # <<>> /\ Account.kind = kind /\ ~Skipped

\* The provider's answers to the first listing of tasks, all pages together.
Answers == LET task == Head(tasks)
           IN IF task.what = "repos" THEN Repos[task.owner] ELSE Discovered[task.owner]

ListingOver == tasks' = Tail(tasks) /\ page' = 1

NextPage == page' = page + 1 /\ UNCHANGED tasks

\* The loop over the organizations goes on with the next one.
SkipOrganization ==
  /\ Skipped /\ ListingOver
  /\ UNCHANGED <<accounts, current, phase, organizations, fetched, repositories, failures, hurt>>

\* The first listing of tasks is of an owner the provider refuses to list.
Refused == tasks # <<>> /\ Head(tasks).owner \in Unknown

\* A page arrives; last tells whether the remote asks for another one.
Arrives(last) ==
  /\ ~Refused
  /\ IF Head(tasks).what = "repos"
     THEN fetched' = fetched \o Page(Answers, page) /\ UNCHANGED organizations
     ELSE organizations' = organizations \o Page(Answers, page) /\ UNCHANGED fetched
  /\ IF last THEN ListingOver ELSE NextPage
  /\ UNCHANGED <<accounts, current, phase, repositories, failures, hurt>>

\* A call fails: that of a refused listing always does, another one now and then.
Fails ==
  /\ \/ Refused /\ UNCHANGED failures
     \/ ~Refused /\ failures < MaxFailures /\ failures' = failures + 1
  /\ hurt' = hurt \cup {current}

\* Github and gitlab are told by the provider whether there is a next page.
NoNextPage == page * PageSize >= Len(Answers)

PageNotOverfull == Len(Page(Answers, page)) <= PageSize  \* a mutant

\* Bitbucket and the generic remote stop at a page that is not full.
PageNotFull == Len(Page(Answers, page)) < PageSize

GithubPage == Listing("github") /\ Arrives(NoNextPage)

GitlabPage == Listing("gitlab") /\ Arrives(NoNextPage)

BitbucketPage == Listing("bitbucket") /\ Arrives(PageNotFull)

GenericPage == Listing("generic") /\ Arrives(PageNotFull)

\* A mutant: github leaves out the page and asks for the next one, too.
GithubAsksOn ==
  /\ Listing("github") /\ Fails
  /\ page' = IF Refused /\ page >= MaxPage THEN 1 ELSE page + 1
  /\ UNCHANGED <<accounts, current, phase, tasks, organizations, fetched, repositories>>

\* Github and gitlab give up a listing they cannot get a page of.
GithubFails ==
  /\ Listing("github") /\ Fails /\ ListingOver
  /\ UNCHANGED <<accounts, current, phase, organizations, fetched, repositories>>

GitlabFails ==
  /\ Listing("gitlab") /\ Fails /\ ListingOver
  /\ UNCHANGED <<accounts, current, phase, organizations, fetched, repositories>>

\* Bitbucket leaves out the page and asks for the next one, however often that fails:
\* a refused listing goes on for ever, and its pages are counted round MaxPage.
BitbucketFails ==
  /\ Listing("bitbucket") /\ Fails
  /\ page' = IF Refused /\ page >= MaxPage THEN 1 ELSE page + 1
  /\ UNCHANGED <<accounts, current, phase, tasks, organizations, fetched, repositories>>

\* The generic remote returns the error; the composite remote logs it and goes on
\* with the next account.
GenericFails ==
  /\ Listing("generic") /\ Fails
  /\ phase' = 0 /\ tasks' = <<>> /\ page' = 1 /\ fetched' = <<>> /\ organizations' = <<>>
  /\ UNCHANGED <<accounts, current, repositories>>

\* A 404 is the end of the data to the generic remote: it keeps the pages before it
\* and returns no error.  Past the last page that is what an empty page does.
GenericNotFound ==
  /\ Listing("generic") /\ Fails /\ ListingOver
  /\ UNCHANGED <<accounts, current, phase, organizations, fetched, repositories>>

\* The remote returns its repositories and the composite remote appends them.
CloseAccount ==
  /\ phase = 2 /\ tasks = <<>>
  /\ phase' = 0
  /\ repositories' = repositories \o fetched
  /\ fetched' = <<>> /\ organizations' = <<>>
  /\ UNCHANGED <<accounts, current, tasks, page, failures, hurt>>

\* The composite remote has asked every account and never returns an error.
AllDone ==
  /\ phase = 0 /\ current = Len(accounts)
  /\ phase' = 3
  /\ UNCHANGED <<accounts, current, tasks, page, organizations, fetched, repositories, failures, hurt>>

Next ==
  \/ OpenAccount \/ NextPhase \/ SkipOrganization \/ CloseAccount \/ AllDone
  \/ GithubPage \/ GitlabPage \/ BitbucketPage \/ GenericPage
  \/ GithubFails \/ GitlabFails \/ BitbucketFails \/ GenericFails \/ GenericNotFound

\* Calls return, with a page or with an error.
Fairness == WF_vars(Next)

Spec == Init /\ [][Next]_vars

FairSpec == Spec /\ Fairness

-----------------------------------------------------------------------------
(* Properties.                                                             *)

\* The owners whose repositories an account is there to return.
OwnersOf(a) ==
  ToSet(a.users)
  \cup ((ToSet(a.organizations)
         \cup (IF a.kind = "github" THEN UNION {ToSet(Discovered[u]) : u \in ToSet(a.users)} ELSE {})
         \cup (IF a.kind = "gitlab" THEN ToSet(Discovered["gitlab"]) ELSE {})) \ a.skip)

Wanted(a) == ToSet(a.urls) \cup UNION {ToSet(Repos[o]) : o \in OwnersOf(a)}

\* The repositories returned hold everything an account without a failed call is
\* there to return, whatever failed in the other accounts, and nothing that no
\* account asks for: no page is missed at the end of a listing, no organization
\* that was discovered late, and none that is skipped comes in.  Gitlab groups are
\* listed once, however often they are configured and found, so that the indexer
\* does not track one repository twice at a time.
FetchExact ==
  /\ phase = 3 =>
       /\ \A i \in 1..Len(accounts) :
            i \notin hurt => Wanted(accounts[i]) \subseteq ToSet(repositories)
       /\ ToSet(repositories) \subseteq UNION {Wanted(accounts[i]) : i \in 1..Len(accounts)}
  /\ (phase = 2 /\ Account.kind = "gitlab") => IsInjective(Mapped(tasks, LAMBDA t : t.owner))

\* A bitbucket account that lists an owner the provider refuses.
AsksForEver(a) == a.kind = "bitbucket" /\ OwnersOf(a) \cap Unknown # {}

\* FetchRepositories returns whenever no bitbucket account lists an owner that the
\* provider refuses: a failed call of any kind, and a refused listing of the other
\* kinds, gives way to the next page, listing or account.
FetchReturns == (\A i \in 1..Len(accounts) : ~AsksForEver(accounts[i])) => <>(phase = 3)
=============================================================================
