--------------------------- MODULE MCPluginConfig ---------------------------
(***************************************************************************)
(* PluginConfig for TLC: documents for every branch of Validate.           *)
(***************************************************************************)
EXTENDS PluginConfig, TLC

MCAtoi == "7" :> 7 @@ "007" :> 7

Doc(path, query) ==
  [wellFormed |-> TRUE, path |-> path, query |-> query, addr |-> <<"grpc", ":9191">>,
   metrics |-> FALSE, descriptor |-> ""]

MCDocuments ==
  {Doc(NoPath, NoQuery),
   [Doc(NoPath, NoQuery) EXCEPT !.addr = <<"unix", "/run/opa.sock">>],
   [Doc(<<"", "a", "007">>, NoQuery) EXCEPT !.metrics = TRUE],
   [Doc(<<"7">>, NoQuery) EXCEPT !.addr = <<"unparsable", "%">>],
   [Doc(<<"b">>, NoQuery) EXCEPT !.addr = <<"http", ":9191">>],
   [Doc(<<"a", "", "b">>, NoQuery) EXCEPT !.descriptor = "testsrv.pb"],
   [Doc(NoPath, "data.a[7]") EXCEPT !.addr = <<"grpc", ":9192">>, !.metrics = TRUE],
   [Doc(NoPath, NoQuery) EXCEPT !.wellFormed = FALSE],
   Doc(<<"a">>, "data.a"),
   Doc(NoPath, "bad"),
   [Doc(NoPath, NoQuery) EXCEPT !.descriptor = "unreadable"]}

MCUpdates == UNION {[ns -> MCDocuments] : ns \in SUBSET Names}
=============================================================================
