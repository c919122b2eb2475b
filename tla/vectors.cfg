SPECIFICATION Spec
CONSTANTS
    Embedders = {"dumb", "ada", "url1", "url2"}
    Dumb = "dumb"
    Size <- Sizes
    Name <- Models
    Class <- Classes
    Vendors = {"ada"}
    Exports = {"url2"}
    Written = {"declarative"}
    Procedures = {"p"}
    NotSet = "not_set"
    MaxOps = 3
INVARIANTS
    OneVectorSpace
    
CHECK_DEADLOCK FALSE
