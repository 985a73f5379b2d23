----------------------------- MODULE GitSecrets -----------------------------
(* modules/osint/git_secrets.py: the repositories github_org leaks are cloned *)
(* one after the other into a directory of their own, and every blob of every *)
(* commit, oldest first, is scanned once per repository. git runs in          *)
(* processes with a timeout each; the directory is removed in a finally.      *)
EXTENDS Integers, Sequences, FiniteSets, Ordering

CONSTANTS Repos,       \* full names, as the evidence rows give them
          SelfRepos,   \* _SELF_REPOS
          RepoLists,   \* orders of the rows of kind "repository", repeats too
          Histories,   \* histories a repository may have: sequences of commits,
                       \* a commit is a sequence of <<path, blob>>: the paths
                       \* that git log lists and that are blobs there.  A merge
                       \* lists none, and a path deleted is no blob.
          Fixtures,    \* paths _is_fixture_path accepts
          SecretBlobs, \* blobs in which a rule matches
          Binaries,    \* blobs with a NUL byte
          Outsized,    \* blobs that are empty or over _MAX_BLOB_BYTES
          Verify       \* roe.recon.git_secrets.verify

\* Rows name repositories; histories and their commits are sequences.
ASSUME GitAssumption ==
  /\ RepoLists \subseteq Seq(Repos)
  /\ \A h \in Histories :
       /\ Len(h) \in Nat /\ DOMAIN h = 1..Len(h)
       /\ \A n \in DOMAIN h : Len(h[n]) \in Nat /\ DOMAIN h[n] = 1..Len(h[n])

VARIABLES gstate,    \* where the module is
          reposLeft,      \* repositories left
          history,   \* of the repository at hand
          commit,    \* position in it
          blobsSeen, \* seen_blobs
          leaks,     \* <<repo, commit, path, blob>> in order: the rows of a blob,
                     \* one for each match in it
          gerrors,   \* repositories with an error row
          unread,    \* history: repositories with a commit whose blobs were not read
          walked,    \* history: <<repo, history>> read to the end
          dirs,      \* clone directories on disk
          orphans    \* git processes nobody waits for any more

gitVars == <<gstate, reposLeft, history, commit, blobsSeen, leaks, gerrors, unread,
             walked, dirs, orphans>>

\* known_evidence, without the repeats and without the platform's own.
Collect(list) ==
  LET fresh == {i \in DOMAIN list : \A j \in 1..(i - 1) : list[j] # list[i]}
      kept  == Ascending({i \in fresh : list[i] \notin SelfRepos})
  IN  [k \in DOMAIN kept |-> list[kept[k]]]

GitInit ==
  /\ gstate = "idle" /\ reposLeft = <<>> /\ history = <<>> /\ commit = 0
  /\ blobsSeen = {} /\ leaks = <<>> /\ gerrors = {} /\ unread = {}
  /\ walked = {} /\ dirs = {} /\ orphans = {}

GitTypeOK ==
  /\ gstate \in {"idle", "between", "cloning", "listing", "walking", "verifying", "ended"}
  /\ reposLeft \in Seq(Repos \ SelfRepos)
  /\ history \in Histories \union {<<>>} /\ commit \in 0..(Len(history) + 1)
  /\ gerrors \subseteq Repos \union {"git"} /\ unread \subseteq Repos
  /\ dirs \subseteq Repos /\ orphans \subseteq Repos
  /\ gstate \in {"cloning", "listing", "walking", "verifying"} => dirs # {}

repo == Head(reposLeft)
Told(r, failed) == gerrors' = IF failed THEN gerrors \union {r} ELSE gerrors

\* Nothing to scan, or no git (an error row), or the first repository.
GitStart(list, git) ==
  LET repos == Collect(list)
  IN  /\ gstate = "idle"
      /\ reposLeft' = repos
      /\ gstate' = IF repos = <<>> \/ ~git THEN "ended" ELSE "between"
      /\ Told("git", repos # <<>> /\ ~git)
      /\ UNCHANGED <<history, commit, blobsSeen, leaks, unread, walked, dirs, orphans>>

\* check_alive before a repository, the directory, the audit row, git clone.
Clone ==
  /\ gstate = "between" /\ reposLeft # <<>>
  /\ gstate' = "cloning" /\ dirs' = dirs \union {repo}
  /\ UNCHANGED <<reposLeft, history, commit, blobsSeen, leaks, gerrors, unread, walked, orphans>>

\* The finally: the directory goes, the next repository's turn. rmtree ignores
\* errors, so a git still writing may keep it.
Leave(next) ==
  /\ reposLeft' = Tail(reposLeft) /\ gstate' = next
  /\ \/ dirs' = dirs \ {repo}
     \/ repo \in orphans' /\ dirs' = dirs
  /\ history' = <<>> /\ commit' = 0 /\ blobsSeen' = {}

\* The clone failed or timed out (its process group is killed): an error row.
\* One over max_repo_bytes is passed over with a progress line only.
CloneFails(big) ==
  /\ gstate = "cloning"
  /\ UNCHANGED orphans
  /\ Told(repo, ~big)
  /\ Leave("between")
  /\ UNCHANGED <<leaks, unread, walked>>

Cloned ==
  /\ gstate = "cloning" /\ gstate' = "listing"
  /\ UNCHANGED <<reposLeft, history, commit, blobsSeen, leaks, gerrors, unread, walked, dirs, orphans>>

\* git log --all --reverse.
Listed(h) ==
  /\ gstate = "listing" /\ gstate' = "walking"
  /\ history' = h /\ commit' = 1 /\ blobsSeen' = {}
  /\ UNCHANGED <<reposLeft, leaks, gerrors, unread, walked, dirs, orphans>>

\* The log is not to be had: an error row, and the verification goes on.
ListFails ==
  /\ gstate = "listing" /\ gstate' = "verifying"
  /\ Told(repo, TRUE)
  /\ unread' = unread \union {repo}
  /\ UNCHANGED <<reposLeft, history, commit, blobsSeen, leaks, walked, dirs, orphans>>

\* The plausible slip: blobs are remembered within a commit only.
FreshBlobs_EachCommit(c) == {i \in DOMAIN c : \A j \in 1..(i - 1) : c[j][2] # c[i][2]}

\* The blobs of one commit that are scanned: not seen before in the repository,
\* and the first of equal ones. A blob counts as seen wherever it was seen.
FreshBlobs(c) ==
  {i \in DOMAIN c : c[i][2] \notin blobsSeen /\ \A j \in 1..(i - 1) : c[j][2] # c[i][2]}

\* What _read_blobs reads, is text and has a match.
Scannable == SecretBlobs \ (Binaries \union Outsized)

ScanText(c, i) == c[i][1] \notin Fixtures /\ c[i][2] \in Scannable

Rows(c) ==
  LET hits == Ascending({i \in FreshBlobs(c) : ScanText(c, i)})
  IN  [k \in DOMAIN hits |-> <<repo, commit, c[hits[k]][1], c[hits[k]][2]>>]

\* check_alive, _read_blobs and the scan of one commit. A cat-file that fails
\* or times out gives no blobs, and nothing says so.
WalkCommit(readable) ==
  /\ gstate = "walking" /\ commit <= Len(history)
  /\ commit' = commit + 1
  /\ IF readable
     THEN LET c == history[commit]
          IN  /\ blobsSeen' = blobsSeen \union ({c[i][2] : i \in DOMAIN c} \ Outsized)
              /\ leaks' = leaks \o Rows(c)
              /\ UNCHANGED unread
     ELSE /\ history[commit] # <<>>
          /\ unread' = unread \union {repo}
          /\ UNCHANGED <<blobsSeen, leaks>>
  /\ UNCHANGED <<gstate, reposLeft, history, gerrors, walked, dirs, orphans>>

Walked ==
  /\ gstate = "walking" /\ commit > Len(history)
  /\ gstate' = "verifying" /\ walked' = walked \union {<<repo, history>>}
  /\ UNCHANGED <<reposLeft, history, commit, blobsSeen, leaks, gerrors, unread, dirs, orphans>>

\* trufflehog, when the RoE asks for it: an error row when it fails. What it
\* verifies is recorded in rows of its own, marked so, and not kept here.
Verified(failed) ==
  /\ gstate = "verifying" /\ (failed => Verify)
  /\ UNCHANGED orphans
  /\ Told(repo, failed)
  /\ Leave("between")
  /\ UNCHANGED <<leaks, unread, walked>>

GitDone ==
  /\ gstate = "between" /\ reposLeft = <<>> /\ gstate' = "ended"
  /\ UNCHANGED <<reposLeft, history, commit, blobsSeen, leaks, gerrors, unread, walked, dirs, orphans>>

\* check_alive stops the module between two commands; a cancellation in one
\* leaves the process behind: _run_git kills it on its own timeout only.
GitStopped(running) ==
  /\ gstate \in {"between", "cloning", "listing", "walking", "verifying"} /\ reposLeft # <<>>
  /\ running => gstate # "between"
  /\ ~running => gstate \in {"between", "walking"}
  /\ orphans' = IF running THEN orphans \union {repo} ELSE orphans
  /\ Leave("ended")
  /\ UNCHANGED <<leaks, gerrors, unread, walked>>

GitNext ==
  \/ \E l \in RepoLists, g \in BOOLEAN : GitStart(l, g)
  \/ Clone \/ Cloned \/ ListFails \/ Walked \/ GitDone
  \/ \E b \in BOOLEAN : CloneFails(b) \/ WalkCommit(b) \/ Verified(b) \/ GitStopped(b)
  \/ \E h \in Histories : Listed(h)

GitSpec == GitInit /\ [][GitNext]_gitVars

-----------------------------------------------------------------------------
(* Property *)

\* Occurrences <<commit, place>> of a blob in a history, and the first of them.
Occurs(h, b) ==
  UNION {{<<n, k>> : k \in {j \in DOMAIN h[n] : h[n][j][2] = b}} : n \in DOMAIN h}
FirstOf(ps) == CHOOSE p \in ps : \A q \in ps : p[1] < q[1] \/ (p[1] = q[1] /\ p[2] <= q[2])

\* Whatever the repositories share and in whatever order they come: a blob
\* with secrets of a history that was read whole is recorded exactly once, at
\* its first commit, though a later commit moves or deletes the file - unless
\* it first appeared at a fixture path, or is not one to be scanned.  (A
\* secret kept in a changed file is in another blob, and told again.)  No
\* directory outlives the module unless a git process does, and the platform's
\* own repository is not cloned.
SecretsFound ==
  /\ \A w \in walked : w[1] \notin unread =>
       \A b \in SecretBlobs :
         LET at   == Occurs(w[2], b)
             rows == {i \in DOMAIN leaks : leaks[i][1] = w[1] /\ leaks[i][4] = b}
             p    == FirstOf(at)
             path == w[2][p[1]][p[2]][1]
         IN  IF b \notin Scannable \/ at = {} \/ (at # {} /\ path \in Fixtures) THEN rows = {}
             ELSE Cardinality(rows) = 1 /\ \A i \in rows : leaks[i] = <<w[1], p[1], path, b>>
  /\ gstate = "ended" => dirs \subseteq orphans
  /\ dirs \intersect SelfRepos = {}
=============================================================================
