----------------------------- MODULE MCBrowser -----------------------------
(* A small capture: an address pair with a tcp session and a udp one, which   *)
(* carries dns in the second snapshot; there the tcp session is gone and its  *)
(* slot has been used again.                                                 *)
EXTENDS Lenses

Stream(seq, id, parent, children, proto, packets, bytes, first, last, closed) ==
  [seq |-> seq, id |-> id, parent |-> parent, children |-> children, proto |-> proto,
   packets |-> packets, bytes |-> bytes, opaque |-> 0, first |-> first, last |-> last,
   state |-> IF proto = "tcp" THEN "established" ELSE "", closed |-> closed,
   condensed |-> FALSE, sides |-> <<"a", "b">>, extras |-> <<>>,
   ports |-> IF proto = "ip" THEN {} ELSE {53, 80}, fields |-> <<>>]

MCSnapshots ==
  <<[streams |-> <<Stream(1, 11, 0, <<12, 13>>, "ip", 3, 3, 0, 3, "open"),
                   Stream(2, 12, 11, <<>>, "tcp", 2, 1, 0, 1, "open"),
                   Stream(3, 13, 11, <<>>, "udp", 1, 2, 3, 3, "open")>>,
     roots |-> <<11>>],
    [streams |-> <<Stream(1, 11, 0, <<13, 22>>, "ip", 6, 9, 0, 7, "open"),
                   Stream(5, 22, 11, <<>>, "tcp", 1, 3, 7, 7, "closed"),
                   Stream(3, 13, 11, <<14>>, "udp", 2, 3, 3, 2, "open"),
                   Stream(4, 14, 13, <<>>, "dns", 2, 1, 5, 6, "open"),
                   Stream(6, 15, 0, <<>>, "arp", 1, 1, 6, 6, "open")>>,
     roots |-> <<11, 15>>]>>

MCOccurrences ==
  {[key |-> 1, bytes |-> 4, ts |-> 2, endpoint |-> "a", sample |-> "x",
    near |-> <<[name |-> "dns", score |-> 30]>>],
   [key |-> 1, bytes |-> 2, ts |-> 1, endpoint |-> "b", sample |-> "y",
    near |-> <<[name |-> "ntp", score |-> 30], [name |-> "dns", score |-> 10]>>],
   [key |-> 2, bytes |-> 3, ts |-> 1, endpoint |-> NoEndpoint, sample |-> "z", near |-> <<>>],
   [key |-> 3, bytes |-> 1, ts |-> 3, endpoint |-> "a", sample |-> "x",
    near |-> <<[name |-> "tls", score |-> 50]>>]}

MCKeys ==
  {"Up", "Down", "PageDown", "End", "Home", "Enter", "Space", "Left", "Right", "c", "e", "s",
   "p", "/", "1", "2", "3", "4", "Tab", "?", "[", "]", "q", "Esc"}

\* What is typed: a name, keywords, a flag and an OR in parentheses, the halves
\* of comparisons, and a quote and a slash that something may close.
MCChunks ==
  {<<"udp", " ">>, <<"or", " ">>, <<"not", " ">>, <<"(", "live", " ", "or", " ">>, <<")">>,
   <<"bytes", ">">>, <<"2k", " ">>, <<"under", "=">>, <<"=">>, <<"!">>, <<"/">>, <<"'">>}

\* A comparison with a hugging "=", between other terms.
MCHugging == {<<"live", " ">>, <<"proto", "=", "udp", " ">>, <<"not", " ">>}

MCNumbers == "2k" :> [mag |-> 2, suffix |-> "k"]

\* A pattern with its parentheses matched is a literal text, but for them.
MCRegexOk(pattern) ==
  LET depth[n \in 0..Len(pattern)] ==
        IF n = 0 THEN 0
        ELSE depth[n - 1] + (CASE pattern[n] = "(" -> 1 [] pattern[n] = ")" -> -1 [] OTHER -> 0)
  IN  depth[Len(pattern)] = 0 /\ \A n \in DOMAIN pattern : depth[n] >= 0

MCRegexMatches(pattern, text) ==
  Within(SelectSeq(pattern, LAMBDA a : a \notin {"(", ")"}), text)
=============================================================================
