---------------------------- MODULE WikipediaPlugin ----------------------------
(***************************************************************************)
(* The wikipedia_search tool: a call searches for the title, asks for the  *)
(* summary of the first one, fetches text according to the level of        *)
(* detail, then links.  A reply with any other status than 200, or that    *)
(* does not parse, is taken for one without contents; a request that       *)
(* throws ends the call, but for the sections and the links.               *)
(***************************************************************************)
EXTENDS HostHttp, FiniteSets

\* The search mode, and the three levels of detail of the lookup mode.
Commands == {"search", "brief", "standard", "full"}

Fields(cmd) == {"query"}

Good(reply)      == reply.status = 200 /\ HasJson(reply)
Has(reply, mark) == Good(reply) /\ mark \in reply.body

Fetch(what) == Send(WithoutToken(Request("request", "read", what)))

SearchTitles     == Fetch("search")
FetchRestSummary == Fetch("summary")
FetchExtract     == Fetch("extract")
FetchSections    == Fetch("sections")
FetchSectionText == Fetch("section")
FetchLinks       == Fetch("links")

\* How many section texts are fetched: those of the key sections, of which
\* the reply has at most two here (the code stops at four).
KeySections(reply) == IF Good(reply) THEN Cardinality(reply.body \cap {"1st", "2nd"})
                                     ELSE 0

\* The canonical title says "(disambiguation)".  It is the summary's, or the
\* one that was found.
Titled(rs) == Has(IF Good(rs[2]) THEN rs[2] ELSE rs[1], "titled")

\* ... or the text says "may refer to".
IsDisambiguation(rs, reply) == Titled(rs) \/ Has(reply, "refers")

\* handleDisambiguation: "success: false", with the titles found.
HandleDisambiguation == Answer("ambiguous")

SearchMode(rs) ==
    IF rs = <<>> THEN SearchTitles
    ELSE IF Has(rs[1], "found") THEN Answer("success") ELSE Answer("failure")

-----------------------------------------------------------------------------
(* Lookup mode.  The k-th reply is the one to the k-th request.            *)

\* Wrong: the check at the end is for full articles.
FinishUnchecked(detail, rs) ==
    IF detail = "full" /\ IsDisambiguation(rs, rs[2])
    THEN HandleDisambiguation ELSE Answer("success")

\* The check at the end looks at the text of the summary.
Finish(detail, rs) ==
    IF detail # "full" /\ IsDisambiguation(rs, rs[2])
    THEN HandleDisambiguation ELSE Answer("success")

\* The k-th request is for the links, which may fail in any way.
Links(detail, rs, k) == IF Len(rs) < k THEN FetchLinks ELSE Finish(detail, rs)

\* The k-th request is for a text without which the call fails.
Extract(detail, rs, k) ==
    IF Len(rs) < k THEN FetchExtract
    ELSE IF rs[k] = Thrown THEN Answer("failure") ELSE Links(detail, rs, k + 1)

Brief(rs) == IF Has(rs[2], "extract") THEN Links("brief", rs, 3)
                                      ELSE Extract("brief", rs, 3)

\* The requests for sections that threw; the first of them ends the sections.
Broken(rs) == {k \in 4 .. Len(rs) : /\ k <= 4 + KeySections(rs[4])
                                    /\ rs[k] = Thrown}
FirstBroken(rs) == CHOOSE k \in Broken(rs) : \A j \in Broken(rs) : k <= j

\* The introduction, the list of sections, the text of the key sections, and
\* when one of the latter throws the whole text instead.
Standard(rs) ==
    IF Len(rs) < 3 THEN FetchExtract
    ELSE IF rs[3] = Thrown THEN Answer("failure")
    ELSE IF Len(rs) = 3 THEN FetchSections
    ELSE IF Broken(rs) # {} THEN Extract("standard", rs, FirstBroken(rs) + 1)
    ELSE IF Len(rs) < 4 + KeySections(rs[4]) THEN FetchSectionText
    ELSE Links("standard", rs, 5 + KeySections(rs[4]))

\* A full text is checked itself.
Full(rs) == IF Len(rs) = 3 /\ rs[3] # Thrown /\ IsDisambiguation(rs, rs[3])
            THEN HandleDisambiguation ELSE Extract("full", rs, 3)

LookupMode(detail, rs) ==
    IF Len(rs) = 0 THEN SearchTitles
    ELSE IF ~Has(rs[1], "found") THEN Answer("failure")
    ELSE IF Len(rs) = 1 THEN FetchRestSummary
    ELSE IF rs[2] = Thrown THEN Answer("failure")
    ELSE IF Has(rs[2], "ambiguous") THEN HandleDisambiguation
    ELSE CASE detail = "brief" -> Brief(rs)
           [] detail = "full"  -> Full(rs)
           [] OTHER            -> Standard(rs)

\* A level of detail that does not exist is the standard one.
Call(c, rs) == IF "query" \notin c.given THEN Answer("failure")
               ELSE IF c.cmd = "search" THEN SearchMode(rs)
               ELSE LookupMode(c.cmd, rs)

=============================================================================
