\* Two goroutines share a bucket of burst 2 refilled one token per tick;
\* one of them reads rl.now() and reaches AllowN after the other has used a
\* later time.  The request budget ends the model, hence no deadlock check.
CONSTANTS
    Domains = {d1, d2}
    Workers = {w1, w2}
    Burst = 2
    Every = 1
    Capacity = 1
    TTL = 2
    MaxTime = 2
    MaxRequests = 5
    MaxLimiters = 3
    None = None
    Never = Never
SPECIFICATION Spec
INVARIANT BucketBound
CHECK_DEADLOCK FALSE
