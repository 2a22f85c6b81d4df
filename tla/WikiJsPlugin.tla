----------------------------- MODULE WikiJsPlugin -----------------------------
(* The wikijs tool: one GraphQL request per call, whose reply is the       *)
(* answer as it is, whatever its status and its "errors".                  *)
EXTENDS HostHttp

Commands == {"search_pages", "get_page", "create_page", "update_page",
             "delete_page", "get_page_history", "restore_page"}

Settings == {"readable", "token"}

GraphqlRequest(effect, what, cfg, rs) ==
    IF "token" \in cfg
    THEN Once(Request("request", effect, what), rs,
              IF rs[1] = Thrown THEN "failure" ELSE "text")
    ELSE Answer("failure")

SearchPages(cfg, rs)    == GraphqlRequest("read", "SearchPages", cfg, rs)
GetPage(cfg, rs)        == GraphqlRequest("read", "GetPage", cfg, rs)
CreatePage(cfg, rs)     == GraphqlRequest("change", "CreatePage", cfg, rs)
UpdatePage(cfg, rs)     == GraphqlRequest("change", "UpdatePage", cfg, rs)
DeletePage(cfg, rs)     == GraphqlRequest("delete", "DeletePage", cfg, rs)
GetPageHistory(cfg, rs) == GraphqlRequest("read", "GetPageHistory", cfg, rs)
RestorePage(cfg, rs)    == GraphqlRequest("change", "RestorePage", cfg, rs)

Handle(cmd, cfg, rs) ==
    CASE cmd = "search_pages"     -> SearchPages(cfg, rs)
      [] cmd = "get_page"         -> GetPage(cfg, rs)
      [] cmd = "create_page"      -> CreatePage(cfg, rs)
      [] cmd = "update_page"      -> UpdatePage(cfg, rs)
      [] cmd = "delete_page"      -> DeletePage(cfg, rs)
      [] cmd = "get_page_history" -> GetPageHistory(cfg, rs)
      [] cmd = "restore_page"     -> RestorePage(cfg, rs)
      [] OTHER                    -> Answer("failure")

Call(c, rs) == IF "readable" \in c.cfg THEN Handle(c.cmd, c.cfg, rs)
                                       ELSE Answer("failure")

=============================================================================
