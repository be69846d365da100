CONSTANT MaxAttempts = 3
SPECIFICATION PostersFairSpec
INVARIANTS PostersInv
PROPERTY PosterSettles
