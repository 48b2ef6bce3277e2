----------------------------- MODULE LanguageServer ----------------------------
(***************************************************************************)
(* The language server (lsp.rs) between an editor and the files: the texts *)
(* the editor has sent, the analysis of a document anchored at its path    *)
(* with every open buffer laid over the files (analysis.rs), and the       *)
(* diagnostics the editor shows.  The server runs its handlers as futures  *)
(* of one task: a handler has no await before it publishes, so what it     *)
(* stores and what it analyses is one step; messages keep their order.     *)
(***************************************************************************)
EXTENDS Naturals, FiniteSets, SequencesExt

CONSTANTS Docs,        \* the documents, each with a path of its own
          Texts,       \* what a document may hold
          Broken,      \* the texts that do not parse
          Commented,   \* the texts with a comment
          Imports,     \* of a text, the sequence of documents it imports
          Tidy,        \* of a text, what the formatter makes of it
          MaxEvents    \* how often the user acts
ASSUME LanguageServerAssumption ==
    /\ IsFiniteSet(Docs) /\ "absent" \notin Texts
    /\ Broken \subseteq Texts /\ Commented \subseteq Texts
    /\ Imports \in [Texts -> Seq(Docs)]
    /\ Tidy \in [Texts -> Texts]

Absent == "absent"     \* no file, no buffer, no text
VARIABLES disk,        \* the files
          buffer,      \* the editor's open buffers
          inbox,       \* editor to server
          docs,        \* Backend.docs
          outbox,      \* server to editor
          shown,       \* the diagnostics the editor shows
          changed,     \* history: what changed under a document since it was analysed
          events
serverVars == <<disk, buffer, inbox, docs, outbox, shown, changed, events>>

(***************************************************************************)
(* Analysis of one document in a view of all of them.                      *)
(***************************************************************************)
Views == [Docs -> Texts \cup {Absent}]
View(texts, files) == [e \in Docs |-> IF texts[e] # Absent /\ files[e] # Absent THEN texts[e] ELSE files[e]]
ImportsOf(text) == IF text = Absent THEN <<>> ELSE Imports[text]
\* what is read when d is: d, and what is imported by what is read
Follows(S, view) == \A e \in S : ToSet(ImportsOf(view[e])) \subseteq S
Reached(d, view) == {e \in Docs : \A S \in SUBSET Docs : d \in S /\ Follows(S, view) => e \in S}

\* what goes wrong first while the imports of d are followed, depth first; below tells
\* what goes wrong under an import, on a longer stack
Fine == [what |-> "fine", at |-> Absent]
import(d, e, view, stack, below) ==
    CASE view[e] = Absent -> [what |-> "missing", at |-> d]
      [] view[e] # Absent /\ e \in stack -> [what |-> "cycle", at |-> e]
      [] OTHER -> below[<<e, stack \cup {e}>>]
visit(d, view, stack, below) ==
    LET through == ImportsOf(view[d])
        bad == {i \in DOMAIN through : import(d, through[i], view, stack, below) # Fine}
        first == CHOOSE i \in bad : \A j \in bad : i <= j
    IN  CASE view[d] \in Broken -> [what |-> "syntax", at |-> d]
          [] view[d] \notin Broken /\ bad = {} -> Fine
          [] OTHER -> import(d, through[first], view, stack, below)
Failures(view) ==
    LET below[at \in Docs \X SUBSET Docs] == visit(at[1], view, at[2], below)
    IN  below
Failure(d, view) == Failures(view)[<<d, {d}>>]

Diagnosis(kind, own, seen) == [kind |-> kind, own |-> own, seen |-> seen]
Nothing == Diagnosis("none", Absent, {})
\* without its imports: only what the text alone shows
single_module_diags(text) == Diagnosis("alone", text, {})
error_in_open_file(f, d) == f.what = "cycle" \/ f.at = d
fail_soft_diags(f, d, text) ==
    CASE error_in_open_file(f, d) -> Diagnosis("error", text, {f})
      [] ~error_in_open_file(f, d) /\ f.at \in ToSet(Imports[text]) -> Diagnosis("unresolved", text, {f.at})
      [] OTHER -> single_module_diags(text)
\* the overlay holds the buffers whose file exists
resolved == [d \in Docs |-> [view \in Views |->
    LET f == Failure(d, view)
        text == view[d]
    IN  CASE text = Absent -> Nothing
          [] text \in Broken -> Diagnosis("syntax", text, {})
          [] text \in Texts \ Broken /\ f # Fine -> fail_soft_diags(f, d, text)
          [] OTHER -> Diagnosis("checked", text, {<<e, view[e]>> : e \in Reached(d, view)})]]
analyze_str_at(d, text, overlay, files) ==
    CASE text \in Broken -> Diagnosis("syntax", text, {})
      [] text \notin Broken /\ files[d] = Absent -> single_module_diags(text)
      [] OTHER -> resolved[d][[View(overlay, files) EXCEPT ![d] = text]]

\* formatting is refused where the text has comments or does not parse
format_source(text) == IF text \in Commented \cup Broken THEN <<>> ELSE <<Tidy[text]>>

(***************************************************************************)
(* The server.                                                             *)
(***************************************************************************)
Publish(d, diagnosis) == [kind |-> "publish", doc |-> d, of |-> diagnosis]
\* the documents that would now be read with another text
Differing(texts, files) == {e \in Docs : View(texts, files)[e] # View(docs, disk)[e]}
Touched(texts, files) == changed' = [d \in Docs |-> changed[d] \cup Differing(texts, files)]

\* store the text, then analyse it with every buffer as it is now
on_change(d, text) ==
    LET now == [docs EXCEPT ![d] = text]
    IN  /\ docs' = now
        /\ outbox' = Append(outbox, Publish(d, analyze_str_at(d, text, now, disk)))
        /\ changed' = [e \in Docs |-> IF e = d THEN {} ELSE changed[e] \cup Differing(now, disk)]
Received(kind) == inbox # <<>> /\ inbox[1].kind = kind /\ inbox' = Tail(inbox)
Unmoved == UNCHANGED <<disk, buffer, shown, events>>

did_open == Received("open") /\ Unmoved /\ on_change(inbox[1].doc, inbox[1].texts[1])
\* every change holds the whole document: the last one is the text
did_change == Received("change") /\ Unmoved /\ on_change(inbox[1].doc, Last(inbox[1].texts))
\* a save may come without the text: then it is the one already here
did_save ==
    LET d == inbox[1].doc
        text == IF inbox[1].texts # <<>> THEN inbox[1].texts[1] ELSE docs[d]
    IN  /\ Received("save")
        /\ Unmoved
        /\ IF text = Absent THEN UNCHANGED <<docs, outbox, changed>> ELSE on_change(d, text)
\* the text is dropped; nothing is published
did_close_keeps == /\ Received("close")
                   /\ UNCHANGED <<docs, outbox, changed>> /\ Unmoved
did_close == LET now == [docs EXCEPT ![inbox[1].doc] = Absent]
             IN  /\ Received("close")
                 /\ docs' = now
                 /\ Touched(now, disk)
                 /\ UNCHANGED outbox /\ Unmoved
\* one edit over the whole of the text the server has
formatting ==
    LET original == docs[inbox[1].doc]
        out == IF original = Absent THEN <<>> ELSE format_source(original)
    IN  /\ Received("format")
        /\ outbox' = IF out = <<>> THEN outbox
                     ELSE Append(outbox, [kind |-> "edit", doc |-> inbox[1].doc,
                                          of |-> [base |-> original, text |-> out[1]]])
        /\ UNCHANGED <<docs, changed>> /\ Unmoved
Serve == did_open \/ did_change \/ did_save \/ did_close \/ formatting

(***************************************************************************)
(* The editor.                                                             *)
(***************************************************************************)
Send(kind, d, texts) == inbox' = Append(inbox, [kind |-> kind, doc |-> d, texts |-> texts])
Act == events < MaxEvents /\ events' = events + 1
Open(d) == /\ Act /\ buffer[d] = Absent
           /\ \E t \in IF disk[d] = Absent THEN Texts ELSE {disk[d]} :
                  buffer' = [buffer EXCEPT ![d] = t] /\ Send("open", d, <<t>>)
           /\ UNCHANGED <<disk, docs, outbox, shown, changed>>
\* edits made in a row may come as one message
Edit(d) == /\ Act /\ buffer[d] # Absent
           /\ \E t \in Texts, between \in {<<>>, <<buffer[d]>>} :
                  buffer' = [buffer EXCEPT ![d] = t] /\ Send("change", d, Append(between, t))
           /\ UNCHANGED <<disk, docs, outbox, shown, changed>>
Save(d) == /\ Act /\ buffer[d] # Absent
           /\ disk' = [disk EXCEPT ![d] = buffer[d]]
           /\ Touched(docs, [disk EXCEPT ![d] = buffer[d]])
           /\ \E texts \in {<<>>, <<buffer[d]>>} : Send("save", d, texts)
           /\ UNCHANGED <<buffer, docs, outbox, shown>>
Close(d) == /\ Act /\ buffer[d] # Absent
            /\ buffer' = [buffer EXCEPT ![d] = Absent]
            /\ Send("close", d, <<>>)
            /\ UNCHANGED <<disk, docs, outbox, shown, changed>>
AskFormat(d) == /\ Act /\ buffer[d] # Absent
                /\ Send("format", d, <<>>)
                /\ UNCHANGED <<disk, buffer, docs, outbox, shown, changed>>
\* an answer to a formatting request is applied to the text it was made from
Receive ==
    /\ outbox # <<>> /\ outbox' = Tail(outbox)
    /\ LET m == outbox[1]
           applies == m.kind = "edit" /\ m.of.base = buffer[m.doc] /\ m.of.text # buffer[m.doc]
       IN  /\ shown' = IF m.kind = "publish" THEN [shown EXCEPT ![m.doc] = m.of] ELSE shown
           /\ IF applies THEN /\ buffer' = [buffer EXCEPT ![m.doc] = m.of.text]
                              /\ Send("change", m.doc, <<m.of.text>>)
                         ELSE UNCHANGED <<buffer, inbox>>
    /\ UNCHANGED <<disk, docs, changed, events>>

ServerInit ==
        /\ disk \in [Docs -> Texts \cup {Absent}]
        /\ buffer = [d \in Docs |-> Absent] /\ docs = buffer
        /\ inbox = <<>> /\ outbox = <<>> /\ events = 0
        /\ shown = [d \in Docs |-> Nothing]
        /\ changed = [d \in Docs |-> {}]
ServerNext ==
        \/ Serve \/ Receive
        \/ \E d \in Docs : Open(d) \/ Edit(d) \/ Save(d) \/ Close(d) \/ AskFormat(d)

ServerSpec == ServerInit /\ [][ServerNext]_serverVars

(***************************************************************************)
(* Properties.                                                             *)
(***************************************************************************)
Quiet == inbox = <<>> /\ outbox = <<>>
AsTheEditorHasIt == [d \in Docs |-> IF buffer[d] # Absent THEN buffer[d] ELSE disk[d]]

\* Once nothing is under way, an open document shows the diagnostics a fresh
\* analysis of the texts as the editor has them would give - unless another
\* document was changed, saved or closed since this one was analysed, which
\* did_change and did_close do not pass on to the documents that import it.
FreshUnlessImportsChanged ==
    Quiet => \A d \in Docs : buffer[d] # Absent =>
        \/ changed[d] \cap Reached(d, AsTheEditorHasIt) # {}
        \/ shown[d] = analyze_str_at(d, buffer[d], AsTheEditorHasIt, disk)
=============================================================================
