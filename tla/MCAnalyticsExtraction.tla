------------------------ MODULE MCAnalyticsExtraction ------------------------
(* Small repositories for TLC: commit 2 changes no file.                   *)
EXTENDS AnalyticsExtraction

ThreeCommits == 1 .. 3
TouchingOdd == {1, 3}

OneBranch == {1}
AllOnOne == <<1 .. 3>>

TwoBranches == {1, 2}
Diverged == <<{1}, {1, 2}>>
==============================================================================
