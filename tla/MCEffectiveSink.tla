--------------------------- MODULE MCEffectiveSink ---------------------------
EXTENDS SinkDecoded, TLC
Interchangeable == Permutations(Clients) \union Permutations(LogNames)
ItemInfo(i) == IF i = 2 THEN "bytes" ELSE "text"
LineAndText == <<"%", "#", "%", "v">>
FewPatterns == SeqOf({"%", "l", "x", "v"}, 3)
FewContents == SeqOf(0..3, 3)
FewMessages == [level : {0, 5}, timestamp : {0, 1234}, pid : {1}, tid : {2}, line : {0, 3},
                file_name : {"", "text"}, func_name : {"text", "bytes"},
                log_info : {"", "text", "bytes"}]
=============================================================================
