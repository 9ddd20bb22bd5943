----------------------------- MODULE ChannelPosts -----------------------------
(***************************************************************************)
(* Channel posts: an agent posts a prompt card to a channel, every person  *)
(* may answer it and answer again, and the agent reads the answers back,   *)
(* closing the post when it wants no more.                                 *)
(*                                                                         *)
(* Recording and closing read the entry and write it back under the post's *)
(* lock; the agent's read takes no lock.                                   *)
(***************************************************************************)
EXTENDS Naturals, FiniteSets

CONSTANTS
  Posts,          \* calls of the post_to_channel tool
  Submits,        \* submits of a prompt card; also what was submitted
  Readers,        \* calls of the get_channel_responses tool
  People,         \* who answers
  Authors,        \* agents, each with its company
  MaxPostFaults   \* bound: calls to Teams or the store that reject

PostCalls == Posts \cup Submits \cup Readers
NoCall == "no call"
NoAnswer == "no answer"

ASSUME PostAssumption ==
  /\ Posts # {} /\ People # {} /\ Authors # {}
  /\ Posts \cap (Submits \cup Readers) = {} /\ Submits \cap Readers = {}
  /\ NoCall \notin PostCalls /\ NoAnswer \notin Submits
  /\ MaxPostFaults \in Nat

NoReport == [found |-> FALSE]

Answers == [People -> Submits \cup {NoAnswer}]
NoAnswers == [x \in People |-> NoAnswer]

-----------------------------------------------------------------------------
VARIABLES
  post,         \* state store: status and answers under channel:{id}
  openPosts,    \* state store: the open index
  author,       \* who posted
  prompt,       \* Teams: the card, "none", "open" or "closed"
  postLock,     \* the call that holds a post's lock
  postAt,       \* where each call is
  postOn,       \* the post a submit or a read is about
  by,           \* whose submit it is
  reads,        \* what a call has read of the entry
  report,       \* what a read returned to its agent
  recorded,     \* history: submits the store has accepted
  postFaults

postStored == <<post, openPosts, author>>
postCallVars == <<postLock, postAt, postOn, by, reads, report>>
postVars == <<postStored, prompt, postCallVars, recorded, postFaults>>

PostEntry == [status: {"none", "open", "closed"}, answers: Answers]
PostReport == {NoReport} \cup [found: {TRUE}, collecting: BOOLEAN, answers: Answers]
Unrecorded == [status |-> "none", answers |-> NoAnswers]

PostTypeOK ==
  /\ post \in [Posts -> PostEntry]
  /\ openPosts \subseteq Posts
  /\ author \in [Posts -> Authors]
  /\ prompt \in [Posts -> {"none", "open", "closed"}]
  /\ postLock \in [Posts -> PostCalls \cup {NoCall}]
  /\ postAt \in [PostCalls -> {"idle", "create", "createIndex", "submit", "record", "close",
                               "closing", "closeIndex", "closeCard", "report", "done"}]
  /\ postOn \in [Submits \cup Readers -> Posts]
  /\ by \in [Submits -> People]
  /\ reads \in [Submits \cup Readers -> PostEntry]
  /\ report \in [Readers -> PostReport]
  /\ recorded \subseteq Submits
  /\ postFaults \in Nat

PostInit ==
  /\ post = [p \in Posts |-> Unrecorded] /\ openPosts = {}
  /\ author = [p \in Posts |-> CHOOSE g \in Authors : TRUE]
  /\ prompt = [p \in Posts |-> "none"]
  /\ postLock = [p \in Posts |-> NoCall]
  /\ postAt = [c \in PostCalls |-> "idle"]
  /\ postOn = [c \in Submits \cup Readers |-> CHOOSE p \in Posts : TRUE]
  /\ by = [s \in Submits |-> CHOOSE x \in People : TRUE]
  /\ reads = [c \in Submits \cup Readers |-> Unrecorded]
  /\ report = [r \in Readers |-> NoReport]
  /\ recorded = {}
  /\ postFaults = 0

-----------------------------------------------------------------------------
PostGoto(c, at) == postAt' = [postAt EXCEPT ![c] = at]

PostFault == postFaults < MaxPostFaults /\ postFaults' = postFaults + 1

PostAbout(c) == IF c \in Posts THEN c ELSE postOn[c]

\* withLock(): a call on a post runs when no other does.
Lock(c) == postLock[PostAbout(c)] = NoCall /\ postLock' = [postLock EXCEPT ![PostAbout(c)] = c]
Unlock(c) == postLock' = [postLock EXCEPT ![PostAbout(c)] = NoCall]

\* A write of the store rejects: the call fails and the entry stays as it is.
PostWriteRejects(c) ==
  /\ postAt[c] \in {"createIndex", "record", "closing", "closeIndex"}
  /\ PostFault /\ Unlock(c) /\ PostGoto(c, "done")
  /\ UNCHANGED <<postStored, prompt, postOn, by, reads, report, recorded>>

-----------------------------------------------------------------------------
(* post_to_channel.                                                         *)

\* Invalid input, no bot, an unreachable channel, or an announcement, which
\* keeps nothing.
PostNothing(p) ==
  /\ postAt[p] = "idle" /\ PostGoto(p, "done")
  /\ UNCHANGED <<postStored, prompt, postLock, postOn, by, reads, report, recorded, postFaults>>

\* The card lands first.
PostPrompt(p) ==
  /\ postAt[p] = "idle"
  /\ prompt' = [prompt EXCEPT ![p] = "open"]
  /\ \/ PostGoto(p, "create") /\ UNCHANGED postFaults
     \/ PostFault /\ PostGoto(p, "done")     \* landed, and reported as failed
  /\ UNCHANGED <<postStored, postLock, postOn, by, reads, report, recorded>>

CreatePost(p) ==
  /\ postAt[p] = "create" /\ Lock(p)
  /\ \E g \in Authors : author' = [author EXCEPT ![p] = g]
  /\ post' = [post EXCEPT ![p] = [status |-> "open", answers |-> NoAnswers]]
  /\ PostGoto(p, "createIndex")
  /\ UNCHANGED <<openPosts, prompt, postOn, by, reads, report, recorded, postFaults>>

ListPost(p) ==
  /\ postAt[p] = "createIndex" /\ Unlock(p)
  /\ openPosts' = openPosts \cup {p}
  /\ PostGoto(p, "done")
  /\ UNCHANGED <<post, author, prompt, postOn, by, reads, report, recorded, postFaults>>

-----------------------------------------------------------------------------
(* A submit: handleChannelSubmit(), recordResponse().                       *)

SubmitAnswer(s) ==
  /\ postAt[s] = "idle"
  /\ \E p \in Posts, x \in People :
       /\ prompt[p] = "open"
       /\ postOn' = [postOn EXCEPT ![s] = p] /\ by' = [by EXCEPT ![s] = x]
  /\ PostGoto(s, "submit")
  /\ UNCHANGED <<postStored, prompt, postLock, reads, report, recorded, postFaults>>

\* Nothing is recorded of a post that is not (yet, or any more) open.
ReadForSubmit(s) ==
  /\ postAt[s] = "submit" /\ postLock[postOn[s]] = NoCall
  /\ IF post[postOn[s]].status = "open"
       THEN /\ Lock(s) /\ PostGoto(s, "record")
            /\ reads' = [reads EXCEPT ![s] = post[postOn[s]]]
       ELSE PostGoto(s, "done") /\ UNCHANGED <<postLock, reads>>
  /\ UNCHANGED <<postStored, prompt, postOn, by, report, recorded, postFaults>>

\* The whole entry is written back, with this person's answer replaced.
RecordAnswer(s) ==
  /\ postAt[s] = "record" /\ Unlock(s)
  /\ post' = [post EXCEPT ![postOn[s]] = [reads[s] EXCEPT !.answers[by[s]] = s]]
  /\ recorded' = recorded \cup {s}
  /\ PostGoto(s, "done")
  /\ UNCHANGED <<openPosts, author, prompt, postOn, by, reads, report, postFaults>>

-----------------------------------------------------------------------------
(* get_channel_responses.                                                   *)

\* The agent sees its own posts only; it closes one that it read as open.
ReadPost(r) ==
  /\ postAt[r] = "idle"
  /\ \E p \in Posts, g \in Authors, close \in BOOLEAN :
       /\ postOn' = [postOn EXCEPT ![r] = p]
       /\ reads' = [reads EXCEPT ![r] = post[p]]
       /\ PostGoto(r, CASE post[p].status = "none" \/ author[p] # g -> "done"
                        [] close /\ post[p].status = "open" -> "close"
                        [] OTHER -> "report")
  /\ UNCHANGED <<postStored, prompt, postLock, by, report, recorded, postFaults>>

\* Seeded fault: the report is made of what was read before the lock was taken.
ReadForCloseStale(r) ==
  /\ postAt[r] = "close" /\ postLock[postOn[r]] = NoCall
  /\ IF post[postOn[r]].status = "open"
       THEN Lock(r) /\ PostGoto(r, "closing")
       ELSE PostGoto(r, "report") /\ UNCHANGED postLock
  /\ UNCHANGED <<postStored, prompt, postOn, by, reads, report, recorded, postFaults>>

\* close(): another read may have closed it; then this one keeps what it read.
ReadForClose(r) ==
  /\ postAt[r] = "close" /\ postLock[postOn[r]] = NoCall
  /\ IF post[postOn[r]].status = "open"
       THEN /\ Lock(r) /\ PostGoto(r, "closing")
            /\ reads' = [reads EXCEPT ![r] = post[postOn[r]]]
       ELSE PostGoto(r, "report") /\ UNCHANGED <<postLock, reads>>
  /\ UNCHANGED <<postStored, prompt, postOn, by, report, recorded, postFaults>>

WriteClosed(r) ==
  /\ postAt[r] = "closing"
  /\ post' = [post EXCEPT ![postOn[r]] = [reads[r] EXCEPT !.status = "closed"]]
  /\ reads' = [reads EXCEPT ![r].status = "closed"]
  /\ PostGoto(r, "closeIndex")
  /\ UNCHANGED <<openPosts, author, prompt, postLock, postOn, by, report, recorded, postFaults>>

DelistPost(r) ==
  /\ postAt[r] = "closeIndex" /\ Unlock(r)
  /\ openPosts' = openPosts \ {postOn[r]}
  /\ PostGoto(r, "closeCard")
  /\ UNCHANGED <<post, author, prompt, postOn, by, reads, report, recorded, postFaults>>

\* The card is closed, or that fails and is logged.
CloseCard(r) ==
  /\ postAt[r] = "closeCard" /\ PostGoto(r, "report")
  /\ \/ prompt' = [prompt EXCEPT ![postOn[r]] = "closed"] /\ UNCHANGED postFaults
     \/ PostFault /\ UNCHANGED prompt
  /\ UNCHANGED <<postStored, postLock, postOn, by, reads, report, recorded>>

ReportAnswers(r) ==
  /\ postAt[r] = "report" /\ PostGoto(r, "done")
  /\ report' = [report EXCEPT ![r] = [found |-> TRUE, collecting |-> reads[r].status = "open",
                                      answers |-> reads[r].answers]]
  /\ UNCHANGED <<postStored, prompt, postLock, postOn, by, reads, recorded, postFaults>>

PostNext ==
  \/ \E p \in Posts : PostNothing(p) \/ PostPrompt(p) \/ CreatePost(p) \/ ListPost(p)
  \/ \E s \in Submits : SubmitAnswer(s) \/ ReadForSubmit(s) \/ RecordAnswer(s)
  \/ \E r \in Readers : \/ ReadPost(r) \/ ReadForClose(r) \/ WriteClosed(r)
                        \/ DelistPost(r) \/ CloseCard(r) \/ ReportAnswers(r)
  \/ \E c \in PostCalls : PostWriteRejects(c)

PostSpec == PostInit /\ [][PostNext]_postVars

-----------------------------------------------------------------------------
(* Properties.                                                              *)

\* An agent that is told the collection is over has every answer that will ever
\* be recorded: a submit accepted between its first read and the close is in the
\* report, and nothing is accepted after it.
ReportFinal ==
  \A r \in Readers :
    report[r].found =>
      \/ report[r].collecting
      \/ /\ post[postOn[r]].status = "closed"
         /\ report[r].answers = post[postOn[r]].answers

\* People who answer at the same time do not overwrite each other: whoever had an
\* answer accepted has one in the entry, and it is their own.
AnswersKept ==
  \A s \in recorded :
    LET kept == post[postOn[s]].answers[by[s]]
    IN  kept \in recorded /\ by[kept] = by[s]

\* The entries of the channel store lose nothing to handlers that overlap: every
\* answer accepted is in the entry, and the report that closes a collection has
\* all of them (the store's lock; record, close).
PostsKept == AnswersKept /\ ReportFinal

=============================================================================
