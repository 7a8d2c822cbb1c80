------------------------------ MODULE CagCorpus ------------------------------
(***************************************************************************)
(* The static prefix of the CAG showcase: what corpus.py, build_manifest.py *)
(* and the handlers of app.py (all in showcases/cag) do with the corpus     *)
(* directory.  Each request reads the manifest and then the files, one by   *)
(* one, and checks each against the manifest; meanwhile the files can be    *)
(* edited and the manifest rebuilt, also file by file.                      *)
(*                                                                          *)
(* A content stands for the bytes of a file and for their sha256; the       *)
(* version of a corpus, a hash over all the files, is told apart by the     *)
(* contents the manifest pins.  The tokens of a content are those of the    *)
(* model: build_manifest.py does not run without its tokenizer.  Questions  *)
(* are known by their length in characters and in tokens.  The model        *)
(* gateway is external.                                                     *)
(***************************************************************************)
EXTENDS Integers, Sequences

CONSTANTS
    FileCount,    \* files of the corpus, in manifest order
    Contents,     \* what a file may hold
    Tokens,       \* content -> its tokens
    Questions,    \* the questions asked
    TokenBudget,  \* CORPUS_TOKEN_BUDGET and TOKEN_BUDGET
    Context,      \* MAX_CONTEXT_TOKENS
    Reserve,      \* CHAT_TEMPLATE_RESERVE
    MaxOutput,    \* CAG_MAX_OUTPUT_TOKENS
    Requests,     \* bound: the requests ever made
    MaxEdits,     \* bound on the edits of the corpus
    MaxBuilds,    \* bound on the runs of build_manifest.py
    Missing, NoManifest, Torn

Files == 1 .. FileCount
Pinned == [Files -> Contents]

ASSUME CorpusAssumption ==
    /\ FileCount \in Nat \ {0}
    /\ Tokens \in [Contents -> Nat]
    /\ Questions \subseteq [chars : Nat, tokens : Nat]
    /\ {TokenBudget, Context, Reserve, MaxOutput, MaxEdits, MaxBuilds} \subseteq Nat
    /\ Missing \notin Contents
    /\ {NoManifest, Torn} \cap [Files -> Contents \cup {Missing}] = {}

VARIABLES
    exact,     \* whether this process counts with the tokenizer or estimates
    disk,      \* the files
    manifest,  \* manifest.json: absent, empty, or the contents it pins
    builder,   \* the run of build_manifest.py: its step and what it has read
    req,       \* the requests
    edits, builds

vars == <<exact, disk, manifest, builder, req, edits, builds>>

\* The tokens of the first f files, and of them all.
TokensUpTo(contents) ==
    LET upTo[f \in 0 .. FileCount] == IF f = 0 THEN 0 ELSE upTo[f - 1] + Tokens[contents[f]]
    IN  upTo

Total(contents) == TokensUpTo(contents)[FileCount]

\* The tokenizer's count, or the estimate len(text) // 2.
Counted(q) == IF exact THEN q.tokens ELSE q.chars \div 2

\* A request not made yet.  calm is history: since the request arrived the
\* corpus has been the one the manifest pins.
NotMade == [kind |-> "none", pc |-> "new", question |-> [chars |-> 0, tokens |-> 0],
            man |-> NoManifest, docs |-> <<>>, sent |-> FALSE, outcome |-> "none",
            calm |-> FALSE]

Disturbed == [r \in Requests |-> [req[r] EXCEPT !.calm = FALSE]]

Init ==
    /\ exact \in BOOLEAN
    /\ disk \in [Files -> Contents]
    /\ manifest = NoManifest
    /\ builder = [pc |-> "idle", read |-> <<>>]
    /\ req = [r \in Requests |-> NotMade]
    /\ edits = 0
    /\ builds = 0

-----------------------------------------------------------------------------
(* The corpus and its manifest.                                            *)

\* Someone edits a file, removes it or puts it back.
Edit(f, c) ==
    /\ edits < MaxEdits
    /\ c # disk[f]
    /\ disk' = [disk EXCEPT ![f] = c]
    /\ edits' = edits + 1
    /\ req' = Disturbed
    /\ UNCHANGED <<exact, manifest, builder, builds>>

BuildStart ==
    /\ builder.pc = "idle"
    /\ builds < MaxBuilds
    /\ builder' = [pc |-> "reading", read |-> <<>>]
    /\ builds' = builds + 1
    /\ UNCHANGED <<exact, disk, manifest, req, edits>>

\* One file; a missing one ends the run.
BuildRead ==
    LET f == Len(builder.read) + 1 IN
    /\ builder.pc = "reading"
    /\ f <= FileCount
    /\ builder' = IF disk[f] = Missing THEN [builder EXCEPT !.pc = "idle"]
                  ELSE [builder EXCEPT !.read = Append(@, disk[f])]
    /\ UNCHANGED <<exact, disk, manifest, req, edits, builds>>

\* Over the budget nothing is written; else write_text truncates the file first.
BuildOpen ==
    /\ builder.pc = "reading"
    /\ Len(builder.read) = FileCount
    /\ IF Total(builder.read) > TokenBudget
       THEN builder' = [builder EXCEPT !.pc = "idle"] /\ UNCHANGED <<manifest, req>>
       ELSE /\ builder' = [builder EXCEPT !.pc = "writing"]
            /\ manifest' = Torn
            /\ req' = Disturbed
    /\ UNCHANGED <<exact, disk, edits, builds>>

BuildWrite ==
    /\ builder.pc = "writing"
    /\ builder' = [builder EXCEPT !.pc = "idle"]
    /\ manifest' = builder.read
    /\ req' = Disturbed
    /\ UNCHANGED <<exact, disk, edits, builds>>

\* The run is interrupted, and leaves the manifest as it is.
BuildStops ==
    /\ builder.pc # "idle"
    /\ builder' = [builder EXCEPT !.pc = "idle"]
    /\ UNCHANGED <<exact, disk, manifest, req, edits, builds>>

-----------------------------------------------------------------------------
(* The requests: /chat and /warmup (a chat with a fixed question), /healthz. *)

Arrive(r) ==
    /\ req[r].pc = "new"
    /\ LET arrived == [NotMade EXCEPT !.pc = "manifest", !.calm = (manifest = disk)]
       IN  \/ req' = [req EXCEPT ![r] = [arrived EXCEPT !.kind = "healthz"]]
           \/ \E q \in Questions :
                 req' = [req EXCEPT ![r] = [arrived EXCEPT !.kind = "chat", !.question = q]]
    /\ UNCHANGED <<exact, disk, manifest, builder, edits, builds>>

End(r, outcome) ==
    req' = [req EXCEPT ![r].pc = "done", ![r].outcome = outcome]

\* Only the absence of the manifest is a CorpusError; an empty one does not parse.
LoadManifest(r) ==
    /\ req[r].pc = "manifest"
    /\ CASE manifest = NoManifest -> End(r, "corpus_error")
         [] manifest = Torn       -> End(r, "error")
         [] OTHER -> req' = [req EXCEPT ![r].pc = "docs", ![r].man = manifest]
    /\ UNCHANGED <<exact, disk, manifest, builder, edits, builds>>

\* Faulty variant: files are compared with the manifest on disk by then.
LoadDocOfTheDay(r) ==
    LET f == Len(req[r].docs) + 1 IN
    /\ req[r].pc = "docs"
    /\ f <= FileCount
    /\ IF manifest \in {NoManifest, Torn} \/ disk[f] # manifest[f]
       THEN End(r, "corpus_error")
       ELSE req' = [req EXCEPT ![r].docs = Append(@, disk[f])]
    /\ UNCHANGED <<exact, disk, manifest, builder, edits, builds>>

\* Faulty variant: files come in another order than the manifest's.
LoadDocInAnyOrder(r) ==
    LET f == Len(req[r].docs) + 1 IN
    /\ req[r].pc = "docs"
    /\ f <= FileCount
    /\ IF disk[FileCount - f + 1] # req[r].man[f] THEN End(r, "corpus_error")
       ELSE req' = [req EXCEPT ![r].docs = Append(@, disk[FileCount - f + 1])]
    /\ UNCHANGED <<exact, disk, manifest, builder, edits, builds>>

\* One file, read once, checked against the manifest read before.
LoadDoc(r) ==
    LET f == Len(req[r].docs) + 1 IN
    /\ req[r].pc = "docs"
    /\ f <= FileCount
    /\ IF disk[f] # req[r].man[f] THEN End(r, "corpus_error")
       ELSE req' = [req EXCEPT ![r].docs = Append(@, disk[f])]
    /\ UNCHANGED <<exact, disk, manifest, builder, edits, builds>>

Healthy(r) ==
    /\ req[r].pc = "docs" /\ req[r].kind = "healthz"
    /\ Len(req[r].docs) = FileCount
    /\ End(r, "ok")
    /\ UNCHANGED <<exact, disk, manifest, builder, edits, builds>>

\* Faulty variant: the answer is not counted.
FitsWithoutOutput(contents, question) ==
    /\ Total(contents) <= TokenBudget
    /\ Total(contents) + question + Reserve <= Context

\* The two limits of build_messages.
Fits(contents, question) ==
    /\ Total(contents) <= TokenBudget
    /\ Total(contents) + question + Reserve + MaxOutput <= Context

\* The prompt is built and sent, or refused before the gateway is called.
Send(r) ==
    /\ req[r].pc = "docs" /\ req[r].kind = "chat"
    /\ Len(req[r].docs) = FileCount
    /\ IF Fits(req[r].man, Counted(req[r].question))
       THEN req' = [req EXCEPT ![r].pc = "model", ![r].sent = TRUE]
       ELSE End(r, "budget_exceeded")
    /\ UNCHANGED <<exact, disk, manifest, builder, edits, builds>>

\* Faulty variant: a failed model call is made again, without a limit.
ModelRetried(r) ==
    /\ req[r].pc = "model"
    /\ \/ End(r, "ok")
       \/ req' = [req EXCEPT ![r].pc = "docs", ![r].sent = FALSE]
    /\ UNCHANGED <<exact, disk, manifest, builder, edits, builds>>

Model(r) ==
    /\ req[r].pc = "model"
    /\ End(r, "ok") \/ End(r, "error")
    /\ UNCHANGED <<exact, disk, manifest, builder, edits, builds>>

Serve(r) == LoadManifest(r) \/ LoadDoc(r) \/ Healthy(r) \/ Send(r) \/ Model(r)

Build == BuildStart \/ BuildRead \/ BuildOpen \/ BuildWrite \/ BuildStops

Next ==
    \/ \E r \in Requests : Arrive(r) \/ Serve(r)
    \/ Build
    \/ \E f \in Files, c \in Contents \cup {Missing} : Edit(f, c)

Spec == Init /\ [][Next]_vars

\* Handlers run to their end; nothing is promised of editors and builders.
FairSpec == Spec /\ \A r \in Requests : WF_vars(Serve(r))

-----------------------------------------------------------------------------
\* The shape of the state.
TypeOK ==
    /\ exact \in BOOLEAN
    /\ disk \in [Files -> Contents \cup {Missing}]
    /\ manifest \in Pinned \cup {NoManifest, Torn}
    /\ builder.pc \in {"idle", "reading", "writing"}
    /\ builder.read \in Seq(Contents) /\ Len(builder.read) <= FileCount
    /\ \A r \in Requests :
          /\ req[r].pc \in {"new", "manifest", "docs", "model", "done"}
          /\ req[r].man \in Pinned \cup {NoManifest}
          /\ req[r].docs \in Seq(Contents) /\ Len(req[r].docs) <= FileCount
          /\ req[r].outcome \in {"none", "ok", "budget_exceeded", "corpus_error", "error"}
          /\ req[r].sent => req[r].kind = "chat"

\* Requests that report the same corpus version sent the same system message,
\* byte for byte, however the files and the manifest changed while each was
\* reading them (corpus.py:8-14).
SameVersionSamePrefix ==
    \A r, s \in Requests :
        req[r].sent /\ req[s].sent /\ req[r].man = req[s].man => req[r].docs = req[s].docs

\* What is sent fits the model: corpus, question, reserve and the longest
\* answer, in tokens of the model, are within its context; anything else is
\* refused without touching the gateway (corpus.py:15-18).  The estimate that
\* stands in for a missing tokenizer keeps the promise for the questions it
\* does not count too low.
SentFits ==
    \A r \in Requests :
        LET q == req[r].question IN
        req[r].sent /\ (exact \/ q.tokens <= q.chars \div 2) =>
            Total(req[r].docs) + q.tokens + Reserve + MaxOutput <= Context

\* No false alarm: a request that arrived on a corpus its manifest pins, and
\* during which neither changed, is not refused for the corpus, a build that
\* is only reading included.
NoFalseAlarm ==
    \A r \in Requests : req[r].calm =>
        /\ req[r].outcome # "corpus_error"
        /\ req[r].outcome = "error" => req[r].sent

\* Every request is answered, whatever happens to the corpus meanwhile.
EveryRequestEnds == \A r \in Requests : req[r].pc # "new" ~> req[r].pc = "done"
=============================================================================
