---------------------------- MODULE MCComponents ----------------------------
\* Values of Components' constants that a configuration file cannot express.
EXTENDS Components

Hdr(lowest, highest) == [lowest |-> lowest, highest |-> highest, figures |-> 1]
MCConfigs == {Hdr(1, 100), Hdr(3, 200)}

MCLengths == <<1, 0, 6, 2>>

YearEnd(year, jd, wday) == [year |-> year, mon |-> 12, mday |-> 31, jd |-> jd, wday |-> wday]
MCStarts == {YearEnd(1899, 2415020, 6), YearEnd(1969, 2440587, 2),
             YearEnd(1999, 2451544, 4), YearEnd(2099, 2488069, 3)}
=============================================================================
