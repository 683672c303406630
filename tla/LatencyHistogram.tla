--------------------------- MODULE LatencyHistogram ---------------------------
(* The histogram of latencies, in whole milliseconds: log-spaced buckets and  *)
(* the exact count, total, minimum and maximum.                               *)
EXTENDS Integers, Functions

\* LATENCY_HISTOGRAM_BUCKET_COUNT: the buckets are 0 .. LastBucket, bucket i
\* begins at 0.5 * sqrt(2)^i.
LastBucket == 40

\* 2 * log2(v / 0.5) >= i, without logarithms.
Reaches(v, i) == 4 * v * v >= 2 ^ i

Buckets == 0 .. LastBucket

\* What is beyond the last bucket is counted there.
BucketIndex(v) ==
    IF v = 0 THEN 0
    ELSE CHOOSE i \in Buckets :
            Reaches(v, i) /\ (i = LastBucket \/ ~Reaches(v, i + 1))

EmptyHistogram ==
    [buckets |-> <<>>, count |-> 0, total |-> 0, low |-> 0, high |-> 0]

\* The samples of a bucket; only the buckets in use are kept.
In(h, i) == IF i \in DOMAIN h.buckets THEN h.buckets[i] ELSE 0

Recorded(h, v) ==
    LET b == BucketIndex(v)
    IN  [ buckets |-> [i \in DOMAIN h.buckets \cup {b} |->
                          In(h, i) + (IF i = b THEN 1 ELSE 0)],
          count   |-> h.count + 1,
          total   |-> h.total + v,
          low     |-> IF h.count = 0 \/ v < h.low THEN v ELSE h.low,
          high    |-> IF h.count = 0 \/ v > h.high THEN v ELSE h.high ]

\* Mutant: the number of samples of the other histogram is not added.
MergedUncounted(g, h) ==
    [g EXCEPT !.buckets = [i \in DOMAIN g.buckets \cup DOMAIN h.buckets |->
                              In(g, i) + In(h, i)],
              !.total = @ + h.total]

\* An empty histogram has no minimum and no maximum (infinities in the code).
Merged(g, h) ==
    [ buckets |-> [i \in DOMAIN g.buckets \cup DOMAIN h.buckets |-> In(g, i) + In(h, i)],
      count   |-> g.count + h.count,
      total   |-> g.total + h.total,
      low     |-> IF h.count > 0 /\ (g.count = 0 \/ h.low < g.low) THEN h.low ELSE g.low,
      high    |-> IF h.count > 0 /\ (g.count = 0 \/ h.high > g.high) THEN h.high ELSE g.high ]

\* The samples in the buckets up to i.
UpTo(h, i) == SumFunctionOnSet(h.buckets, {j \in DOMAIN h.buckets : j <= i})

\* The estimate of a percentile: how far, as num / den, into which bucket.
Percentile(h, percent) ==
    LET wanted == (percent * h.count + 99) \div 100
        rank == IF wanted < 1 THEN 1 ELSE wanted
        b == CHOOSE i \in DOMAIN h.buckets :
                UpTo(h, i) >= rank /\ \A j \in DOMAIN h.buckets : j < i => UpTo(h, j) < rank
        den == IF In(h, b) > 1 THEN In(h, b) - 1 ELSE 1
    IN  [bucket |-> b, num |-> rank - UpTo(h, b - 1) - 1, den |-> den]

\* The end of a bucket is the begin of the next one.
AtMost(x, y) ==
    x.bucket < y.bucket \/ (x.bucket = y.bucket /\ x.num * y.den <= y.num * x.den)

Nowhere == [bucket |-> 0, num |-> 0, den |-> 1]

\* The average is total / count; an empty histogram reports zeros.
Summary(h) ==
    [ count |-> h.count, total |-> h.total, min |-> h.low, max |-> h.high,
      p50 |-> IF h.count = 0 THEN Nowhere ELSE Percentile(h, 50),
      p95 |-> IF h.count = 0 THEN Nowhere ELSE Percentile(h, 95),
      p99 |-> IF h.count = 0 THEN Nowhere ELSE Percentile(h, 99) ]

=============================================================================
