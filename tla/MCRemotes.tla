------------------------------ MODULE MCRemotes ------------------------------
(***************************************************************************)
(* Listings of no page, a partial page, a full page and more; an           *)
(* organization that is both configured and discovered, and a skipped one; *)
(* one account of each kind, alone and next to one that fails, and each    *)
(* kind with an owner that the provider does not know.                     *)
(***************************************************************************)
EXTENDS Remotes

MCRepos == [u |-> <<1, 2>>, v |-> <<3>>, o1 |-> <<4, 5, 6>>, o2 |-> <<>>, nobody |-> <<>>, o3 |-> <<7, 8, 9, 10>>]

MCDiscovered == [u |-> <<"o1", "o3", "o2">>, v |-> <<>>, nobody |-> <<>>, gitlab |-> <<"o2", "o3", "o1">>]

Configured(kind, users, orgs, skip, urls) ==
  [kind |-> kind, users |-> users, organizations |-> orgs, skip |-> skip, urls |-> urls]

Github == Configured("github", <<"u", "v">>, <<"o1">>, {"o2"}, <<>>)
Gitlab == Configured("gitlab", <<"u">>, <<"o1">>, {"o3"}, <<>>)
Bitbucket == Configured("bitbucket", <<"u", "v">>, <<"o3", "o1">>, {"o1"}, <<>>)
Generic == Configured("generic", <<"o3">>, <<>>, {}, <<>>)
Static == Configured("static", <<>>, <<>>, {}, <<11, 12>>)

MCUnknown == {"nobody"}

GithubLost == Configured("github", <<"nobody", "u">>, <<>>, {}, <<>>)
GitlabLost == Configured("gitlab", <<"v">>, <<"nobody">>, {"o3"}, <<>>)
BitbucketLost == Configured("bitbucket", <<"v">>, <<"nobody", "o1">>, {}, <<>>)
BitbucketSkips == Configured("bitbucket", <<"u">>, <<"nobody">>, {"nobody"}, <<>>)
GenericLost == Configured("generic", <<"nobody">>, <<>>, {}, <<>>)

Sound == {Github, Gitlab, Bitbucket, Generic, Static}
Lost == {GithubLost, GitlabLost, BitbucketLost, BitbucketSkips, GenericLost}

MCConfigurations ==
  {<<>>} \cup {<<x, y>> : x, y \in Sound} \cup {<<x, y>> : x \in Lost, y \in Sound}
=============================================================================
