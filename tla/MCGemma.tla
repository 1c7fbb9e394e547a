------------------------------ MODULE MCGemma ------------------------------
EXTENDS Gemma

MCModes == {<<"dense", FALSE, 0>>, <<"paged", TRUE, 0>>, <<"graph", TRUE, 2>>, <<"graph", FALSE, 1>>}
MCBuckets == <<1, 3>>
\* an end token inside and outside what a row of three tokens takes last
MCPredictions == {<<1, 1>>, <<1, 9>>}
\* one row, two of different lengths, one without an answer, one longer than before
MCCalls == {<<<<3, 3>>, <<1, 4>>>>, <<<<1, 0>>, <<2, 3>>>>, <<<<2, 4>>>>}
============================================================================
