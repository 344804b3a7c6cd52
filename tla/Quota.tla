------------------------------- MODULE Quota -------------------------------
(***************************************************************************)
(* What the pools screen, the snapshots and the alert rules are told of a  *)
(* credential's quota: server/management/quota.ts folds the rate-limit     *)
(* headers the gateway captured into windows, api.ts pools then asks each  *)
(* provider for its usage, and claude.ts, codex.ts and xai.ts put what     *)
(* came back in their place; credential.ts and routes/index.tsx summarise  *)
(* and order the result.                                                   *)
(*                                                                         *)
(* The gateway keeps, for a credential, one snapshot of headers of its own *)
(* and one for each model, each as of the last reply that carried any.     *)
(* Instants are numbers; a snapshot may have none.  A usage read brings    *)
(* what LiveRead answers: a usage, perhaps an old one, or nothing.         *)
(* Windows are functions from their label; times of reset, credits and     *)
(* plans are left out; the minutes of a Codex window stand for the label   *)
(* they give.                                                              *)
(***************************************************************************)
EXTENDS Integers, Sequences, FiniteSets

CONSTANTS
  Credential,
  Provider,     \* [Credential -> {"claude", "codex", "xai", "other"}]
  Asked,        \* those with a usage read: claude, xai, codex with an account id
  Rank,         \* [Credential -> Nat]: their order by label, by place in the list where labels agree
  Model,        \* models with a snapshot of their own
  Position,     \* [Model -> Nat]: key order of model_quotas
  Family,       \* [Model -> label of the flagship's weekly window]
  Flagship,     \* that label when no snapshot has the window
  Report,       \* [Credential -> header signals a reply may carry]
  Usage,        \* [Credential -> usages a read may bring]
  MaxReports    \* bound: replies with headers

File == "file"  \* the key of the credential-level snapshot
Key == {File} \union Model
Undated == 0

ASSUME KeyAssumption ==
  /\ File \notin Model /\ \A m \in Model : Position[m] \in Nat \ {0}
  /\ \A m, n \in Model : Position[m] = Position[n] => m = n
ASSUME CredentialAssumption ==
  /\ IsFiniteSet(Credential) /\ \A c \in Credential : Rank[c] \in Nat
  /\ \A c, d \in Credential : Rank[c] = Rank[d] => c = d
ASSUME AskedAssumption == Asked \subseteq {c \in Credential : Provider[c] \in {"claude", "codex", "xai"}}

\* percent: whatever a header or a body says, a level is one.
Percent == 0..100
ASSUME ReportAssumption ==
  \A c \in Credential : \A r \in Report[c] : \A t \in DOMAIN r.used : r.used[t] \in Percent
ASSUME UsageAssumption == \A c \in Asked : \A u \in Usage[c] :
  /\ u.kind = Provider[c] /\ \A l \in DOMAIN u.used : u.used[l] \in Percent
  /\ Provider[c] = "claude" => \A i \in DOMAIN u.limits : u.limits[i].used \in Percent
ASSUME BoundAssumption == MaxReports \in Nat

VARIABLES
  snapshots,    \* [Credential -> the snapshots it has: [SUBSET Key -> snapshot]]
  reports,      \* bound, and the instant of the last report
  shown,        \* a pools read has just been answered
  usage         \* what its usage reads brought: [Asked -> usage], or <<>>

vars == <<snapshots, reports, shown, usage>>

NoUsage == [kind |-> "none"]

\* Partial function f, as far as it is defined in set S.
Only(f, S) == [x \in DOMAIN f \intersect S |-> f[x]]

\* Partial function f in front of partial function g.
Over(f, g) == [x \in DOMAIN f \union DOMAIN g |-> IF x \in DOMAIN f THEN f[x] ELSE g[x]]

\* A finite set in order, upTo giving for each element those that come no later,
\* itself among them: the i-th is the one that i come no later than.
Listing(upTo) ==
  [i \in 1..Cardinality(DOMAIN upTo) |->
     CHOOSE x \in DOMAIN upTo : Cardinality(upTo[x]) = i]

-----------------------------------------------------------------------------
(* quota.ts: the header windows. *)

Window(used, status) == [used |-> used, status |-> status]

\* statusOf: a flag none of these names is a limit.
HeaderStatus(flag) ==
  CASE flag \in {"allowed", "allowed_warning"} -> "allowed"
    [] flag = "rejected" -> "rejected"
    [] flag = "unset" -> "unknown"
    [] OTHER -> "limited"

\* codexStatus, and status of codex.ts.
CodexStatus(used, flag) ==
  IF flag = "denied" THEN "rejected"
  ELSE IF flag = "limit_reached" \/ used >= 100 THEN "limited" ELSE "allowed"

\* flagshipOf: the first model whose snapshot carries the 7d_oi window.
FlagshipLabel(files) ==
  LET owners == {m \in DOMAIN files \intersect Model : "7d_oi" \in DOMAIN files[m].used}
  IN  IF owners = {} THEN Flagship
      ELSE Family[CHOOSE m \in owners : \A n \in owners : Position[m] <= Position[n]]

\* The label of a tier in snapshot k; windowLabel: that of Codex is what its minutes
\* say, or the tier's name.
LabelOf(files, k, tier) ==
  CASE tier = "5h"    -> "5-hour"
    [] tier = "7d"    -> "weekly"
    [] tier = "7d_oi" -> FlagshipLabel(files)
    [] OTHER -> IF tier \in DOMAIN files[k].minutes THEN files[k].minutes[tier] ELSE tier

Placeholder == "0m"  \* a tier of no minutes

TiersOf(c) ==
  CASE Provider[c] = "claude" -> {"5h", "7d", "7d_oi"}
    [] Provider[c] = "codex"  -> {"primary", "secondary"}
    [] OTHER -> {}

\* windowsOf: the windows one snapshot reports, by label; of two tiers of one label
\* the secondary comes last.
WindowsOf(c, files, k) ==
  LET used == Only(files[k].used, {t \in TiersOf(c) : LabelOf(files, k, t) # Placeholder})
      tiers(l) == {t \in DOMAIN used : LabelOf(files, k, t) = l}
  IN  [l \in {LabelOf(files, k, t) : t \in DOMAIN used} |->
         LET t == CHOOSE t \in tiers(l) : "secondary" \in tiers(l) => t = "secondary"
         IN  Window(used[t], IF Provider[c] = "claude" THEN HeaderStatus(files[k].flag)
                             ELSE CodexStatus(used[t], files[k].flag))]

\* The credential's own snapshot, then the models' as the gateway lists them.
Place(k) == IF k = File THEN 0 ELSE Position[k]

\* Mutant: snapshots as they come.
KeyOrder(files, j, k) == Place(j) < Place(k)

\* The stable sort by instant: an undated snapshot comes before all dated ones.
Before(files, j, k) ==
  \/ files[j].at < files[k].at
  \/ files[j].at = files[k].at /\ Place(j) < Place(k)

Ordered(files) ==
  Listing([k \in DOMAIN files |-> {j \in DOMAIN files : j = k \/ Before(files, j, k)}])

Blank == [windows |-> <<>>, observedAt |-> Undated]

\* One more snapshot: its windows replace those of their labels, its instant the one
\* so far, if it has any.
Merge(c, files, k, acc) ==
  [windows    |-> Over(WindowsOf(c, files, k), acc.windows),
   observedAt |-> IF files[k].at # Undated THEN files[k].at ELSE acc.observedAt]

\* The snapshots in turn.
Merging(c, files) ==
  LET order == Ordered(files)
      merge[i \in 0..Len(order)] ==
        IF i = 0 THEN Blank ELSE Merge(c, files, order[i], merge[i - 1])
  IN  merge

\* quotaOf: a later snapshot's windows replace an earlier one's, label by label.
QuotaOf(c) ==
  LET merged == Merging(c, snapshots[c])[Len(Ordered(snapshots[c]))]
  IN  [windows |-> merged.windows, observedAt |-> merged.observedAt, onDemand |-> FALSE]

-----------------------------------------------------------------------------
(* claude.ts, codex.ts, xai.ts: the windows of a usage read. *)

UsageStatus(used) == IF used >= 100 THEN "limited" ELSE "allowed"
UsageWindows(used) == [l \in DOMAIN used |-> Window(used[l], UsageStatus(used[l]))]

\* fableLimit: the first active weekly limit of the flagship, else the first one
\* that is not said to be inactive.
FableLimit(limits) ==
  LET open     == {i \in DOMAIN limits : limits[i].active # "no"}
      live     == {i \in open : limits[i].active = "yes"}
      first(S) == {limits[i] : i \in {j \in S : \A h \in S : j <= h}}
  IN  IF live # {} THEN first(live) ELSE first(open)

\* The limit takes the place of the legacy field of the same window.
ClaudeWindows(u) ==
  LET fable == [l \in {Flagship : x \in FableLimit(u.limits)} |->
                  (CHOOSE x \in FableLimit(u.limits) : TRUE).used]
  IN  UsageWindows(Over(fable, u.used))

CodexWindows(u) ==
  [l \in DOMAIN u.used |-> Window(u.used[l], CodexStatus(u.used[l], u.flag))]

\* xaiWindows: a product nobody has used yet is an empty window.
XaiWindows(u) == UsageWindows(Over(u.used, [l \in {"grokbuild"} |-> 0]))

Replace(quota, windows) == [quota EXCEPT !.windows = windows]

Dated(quota) == [quota EXCEPT !.observedAt = reports + 1]

WithClaudeUsage(quota, u) ==
  IF u.kind = "none" \/ (DOMAIN ClaudeWindows(u) = {} /\ ~u.onDemand) THEN quota
  ELSE LET spent == [quota EXCEPT !.onDemand = u.onDemand]
       IN  Dated(IF DOMAIN ClaudeWindows(u) = {} THEN spent ELSE Replace(spent, ClaudeWindows(u)))

WithCodexUsage(quota, u) ==
  IF u.kind = "none" \/ DOMAIN CodexWindows(u) = {} THEN quota
  ELSE Dated(Replace(quota, CodexWindows(u)))

\* An account xAI says nothing of has no windows and no time.
WithXaiBilling(quota, u) ==
  IF u.kind = "none" THEN [quota EXCEPT !.windows = <<>>, !.observedAt = Undated]
  ELSE Dated([Replace(quota, XaiWindows(u)) EXCEPT !.onDemand = u.onDemand])

\* api.ts pools: the credentials as merged, for those that were asked.
Quota(c) ==
  IF c \notin Asked THEN QuotaOf(c)
  ELSE CASE Provider[c] = "claude" -> WithClaudeUsage(QuotaOf(c), usage[c])
         [] Provider[c] = "codex"  -> WithCodexUsage(QuotaOf(c), usage[c])
         [] Provider[c] = "xai"    -> WithXaiBilling(QuotaOf(c), usage[c])

-----------------------------------------------------------------------------
(* credential.ts and routes/index.tsx: the order and the summary. *)

\* primaryWindow: weekly first, then the 5-hour one.
Primary(quota) ==
  IF "weekly" \in DOMAIN quota.windows THEN <<quota.windows["weekly"]>>
  ELSE IF "5-hour" \in DOMAIN quota.windows THEN <<quota.windows["5-hour"]>> ELSE <<>>

Infinity == 101

\* Mutant: what does not report counts as used up.
RemainingOrZero(q) == IF Primary(q) = <<>> THEN 0 ELSE 100 - Primary(q)[1].used

Remaining(q) == IF Primary(q) = <<>> THEN Infinity ELSE 100 - Primary(q)[1].used

\* The cards in the default order, least remaining first, then by label.
Cards(pools) ==
  Listing([d \in Credential |->
             {c \in Credential :
                \/ Remaining(pools[c]) < Remaining(pools[d])
                \/ Remaining(pools[c]) = Remaining(pools[d]) /\ Rank[c] <= Rank[d]}])

\* summarize: of the accounts that report, the one with the least left.
Worst(pools, p) ==
  LET reporting == {c \in Credential : Provider[c] = p /\ Primary(pools[c]) # <<>>}
  IN  {c \in reporting : \A d \in reporting :
         \/ Primary(pools[c])[1].used > Primary(pools[d])[1].used
         \/ Primary(pools[c])[1].used = Primary(pools[d])[1].used /\ Rank[c] <= Rank[d]}

-----------------------------------------------------------------------------
(* Steps. *)

\* A reply carries headers: the snapshot of its model, or the credential's own,
\* is now that reply's, with its instant or without.
Reply(c, k) ==
  /\ ~shown /\ reports < MaxReports
  /\ \E r \in Report[c], at \in {Undated, reports + 1} :
       snapshots' = [snapshots EXCEPT ![c] =
                       Over([j \in {k} |-> [used |-> r.used, minutes |-> r.minutes, flag |-> r.flag, at |-> at]], @)]
  /\ reports' = reports + 1
  /\ UNCHANGED <<shown, usage>>

\* pools: authFiles answers, each usage read brings something or nothing whatever
\* the others do, and the reads are merged.
Pools ==
  /\ ~shown
  /\ \E read \in [Asked -> UNION {Usage[c] : c \in Asked} \union {NoUsage}] :
       /\ \A c \in Asked : read[c] \in Usage[c] \union {NoUsage}
       /\ usage' = read
  /\ shown' = TRUE
  /\ UNCHANGED <<snapshots, reports>>

\* The page is left, or read again.
Leave ==
  /\ shown
  /\ shown' = FALSE /\ usage' = <<>>
  /\ UNCHANGED <<snapshots, reports>>

Init ==
  /\ snapshots = [c \in Credential |-> <<>>]
  /\ reports = 0 /\ shown = FALSE /\ usage = <<>>

Next ==
  \/ Pools \/ Leave
  \/ \E c \in Credential, k \in Key : Reply(c, k)

Spec == Init /\ [][Next]_vars

-----------------------------------------------------------------------------
(* Properties. *)

Snapshot(c) ==
  [used : {r.used : r \in Report[c]}, minutes : {r.minutes : r \in Report[c]},
   flag : {r.flag : r \in Report[c]}, at : 0..reports]

TypeOK ==
  /\ reports \in 0..MaxReports /\ shown \in BOOLEAN
  /\ \A c \in Credential :
       /\ DOMAIN snapshots[c] \subseteq Key /\ IsFiniteSet(DOMAIN snapshots[c])
       /\ snapshots[c] \in [DOMAIN snapshots[c] -> Snapshot(c)]
  /\ DOMAIN snapshots = Credential
  /\ shown => DOMAIN usage = Asked /\ \A c \in Asked : usage[c] \in Usage[c] \union {NoUsage}

Labels(c) == UNION {DOMAIN WindowsOf(c, snapshots[c], k) : k \in DOMAIN snapshots[c]}

\* The snapshots that speak of label l, and of them one no other is newer than.
Newest(c, l) ==
  LET speak == {k \in DOMAIN snapshots[c] : l \in DOMAIN WindowsOf(c, snapshots[c], k)}
  IN  {k \in speak : \A j \in speak : snapshots[c][j].at <= snapshots[c][k].at}

\* quota.ts:133, "the latest observation per label wins": whatever order the
\* snapshots are in, a window is one of the newest that speaks of its label, none
\* is left out, and observedAt is the newest instant there is.
LatestPerLabel ==
  \A c \in Credential :
    LET q == QuotaOf(c)
    IN  /\ DOMAIN q.windows = Labels(c)
        /\ \A l \in Labels(c) : \E k \in Newest(c, l) :
             q.windows[l] = WindowsOf(c, snapshots[c], k)[l]
        /\ \A k \in DOMAIN snapshots[c] : snapshots[c][k].at <= q.observedAt

\* The summary line and the cards agree: the first card of a provider that
\* reports at all is the one the summary names, and what does not report comes
\* after everything that does.
WorstFirst ==
  shown =>
    LET pools  == [c \in Credential |-> Quota(c)]
        cards  == Cards(pools)
        own(p) == {i \in DOMAIN cards : Provider[cards[i]] = p}
    IN  /\ \A p \in {Provider[c] : c \in Credential} :
             Worst(pools, p) # {} =>
               \E i \in own(p) : (\A j \in own(p) : i <= j) /\ Worst(pools, p) = {cards[i]}
        /\ \A i, j \in DOMAIN cards :
             Primary(pools[cards[i]]) = <<>> /\ Primary(pools[cards[j]]) # <<>> => j < i
=============================================================================
