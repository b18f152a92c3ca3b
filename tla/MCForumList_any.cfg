SPECIFICATION Spec
CONSTANTS
    NLeagues = 2
    NCategories = 2
    AllPosts <- TwoPosts
    None = None
INVARIANTS  ChoiceIsApplied
 
