--------------------------- MODULE MCPagedGraphs ---------------------------
EXTENDS PagedGraphs

\* every kind; buckets that leave padding rows next to one or two real ones
MCKinds ==
  {<<"flash", <<1>>, FALSE>>, <<"fa4", <<1>>, FALSE>>, <<"nemo", <<1>>, FALSE>>,
   <<"decomposed", <<1>>, FALSE>>, <<"padded", <<3>>, FALSE>>,
   <<"fa4_graph", <<3>>, FALSE>>, <<"nemo_fa4", <<3>>, FALSE>>, <<"nemo_fi", <<3>>, FALSE>>,
   <<"ragged", <<1>>, TRUE>>, <<"flash", <<1>>, TRUE>>,
   <<"decomposed", <<1, 2>>, TRUE>>, <<"padded", <<1, 4>>, TRUE>>}
MCPrefillBuckets == <<4>>
=============================================================================
