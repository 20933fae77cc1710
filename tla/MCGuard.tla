------------------------------- MODULE MCGuard -------------------------------
(***************************************************************************)
(* A launch and a verification.  geminiB is an upgrade of geminiA and no   *)
(* longer intercepted; patched and stock are one version of kimi.          *)
(***************************************************************************)
EXTENDS Guard

CONSTANTS p1, p2, gemini, kimi, geminiA, geminiB, patched, stock, main, title, none

MCLaunchers == {p1}
MCVerifiers == {p2}
MCProbers == {p1, p2}
MCConversations == {main, title}
MCBinaries == {geminiA, geminiB, patched, stock}
MCSeam == [b \in Binaries |-> IF b \in {stock, geminiB} THEN "local" ELSE "target"]
MCAsks == [b \in Binaries |-> IF b = geminiA THEN Conversations ELSE {main}]
MCDialect == [b \in Binaries |-> IF b \in {geminiA, geminiB} THEN "gemini" ELSE "chat"]
MCTools == [c \in Conversations |-> IF c = main THEN "shell" ELSE "none"]
MCHarnesses == {gemini, kimi}
MCHarnessOf == [b \in Binaries |-> IF b \in {geminiA, geminiB} THEN gemini ELSE kimi]
MCVersionOf == [b \in Binaries |-> IF b = geminiB THEN 2 ELSE 1]
MCFirst == [h \in Harnesses |-> IF h = gemini THEN geminiA ELSE stock]
=============================================================================
