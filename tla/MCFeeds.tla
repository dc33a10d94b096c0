-------------------------------- MODULE MCFeeds --------------------------------
EXTENDS Feeds

CONSTANTS m1, m2, p1, p2, r1, r2

\* Cells of one and two characters with everything the parser treats specially.
Cells == {<<>>, <<"A">>, <<"quote">>, <<"comma", "A">>, <<"A", "lf">>, <<"space">>}

Header == <<<<"imonumber">>, <<"quantitymt">>>>

\* Own, foreign and unknown vessels, a bad figure, a blank line, a row of blanks,
\* a short row and a cell with a line break.
Lines == {<<<<"A">>, <<"1">>>>, <<<<"B">>, <<"1">>>>, <<<<"C">>, <<"1">>>>, <<<<"A">>, <<"x">>>>,
          <<<<"space">>>>, <<<<>>, <<>>>>, <<<<"A">>>>, <<<<"A", "lf">>, <<"1">>>>}

MCSheets == {<<Header, a, b>> : a, b \in Lines}
            \cup {<<a, b>> : a \in {Header, <<<<"imonumber">>>>}, b \in Lines}
            \cup {<<<<a, b>>, <<c>>>> : a, b, c \in Cells}

MCStyles == {[eol |-> <<"lf">>, quotes |-> FALSE, bom |-> FALSE, last |-> TRUE],
             [eol |-> <<"cr", "lf">>, quotes |-> TRUE, bom |-> TRUE, last |-> FALSE]}

MCFigure == <<"1">>

MCFleetOfImo == [i \in {<<"A">>, <<"B">>} |-> IF i = <<"A">> THEN "ours" ELSE "theirs"]

Ping(m, t, x, s, n) == [mmsi |-> m, time |-> t, place |-> x, speed |-> s, name |-> n]

\* 0:30, 15:00, 30:00, 45:59 and 60:59 on the clock.
Reports == <<30, 900, 1800, 2759, 3659>>

\* A vessel that reports, or not, about every quarter of an hour, idle, under way
\* or with an unknown speed (102): 29 and a half minutes pass 30 minutes of the
\* clock, and 45 minutes and 59 seconds pass 45.
Tracks == {<<{Ping(1, Reports[i], 0, f[i], Unknown) : i \in {j \in 1..5 : f[j] # -1}}>> : f \in [1..5 -> {-1, 0, 9, 102}]}

\* Duplicates, corrupt copies, rows to refuse, a teleport and midnight (3600), in
\* two files.
Messes == {
    <<{Ping(1, 0, 0, 5, "old"), Ping(1, 0, NullIsland, 9, Unknown)}, {Ping(1, 1800, 4, 102, "new"), Ping(1, 2700, 5, 9, Unknown)}>>,
    <<{Ping(1, 0, 0, 5, "old"), Ping(1, 0, 1, 5, Unknown)}, {Ping(2, 0, 0, 0, Unknown), Ping(Unknown, 900, 0, 0, "ghost")}>>,
    <<{Ping(1, 0, 0, 9, "old"), Ping(1, 900, 400, 9, Unknown)}, {Ping(1, 2700, 12, 9, Unknown), Ping(1, Unknown, 0, 0, Unknown)}>>,
    <<{Ping(1, 1800, 0, 9, Unknown), Ping(1, 4500, 30, 9, "name")}, {Ping(1, 5400, 33, 9, Unknown), Ping(2, 900, OffTheMap, 0, Unknown)}>>}

MCDeliveries == Tracks \cup Messes
=============================================================================
